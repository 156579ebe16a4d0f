--------------------------- MODULE CircularBuffer ---------------------------
(***************************************************************************)
(* CPodCircularBuffer, the send buffer of a TCP client: an array with a    *)
(* read and a write position, which are equal both when the buffer is      *)
(* empty and when it is full.  Two flags tell the cases apart.             *)
(***************************************************************************)
EXTENDS Integers, Sequences

CONSTANTS
    Data,     \* the items
    Size,     \* m_nBufSize
    MaxCount  \* bounds how many items one call writes or reads

ASSUME BufferAssumption == Size \in Nat \ {0} /\ MaxCount \in Nat

VARIABLES
    buf,      \* m_pBuf
    readPos,  \* m_nReadPos
    writePos, \* m_nWritePos
    isEmpty,  \* m_bEmpty
    isFull,   \* m_bFull
    returned, \* what the last call returned
    got       \* what the last read copied out

bvars == <<buf, readPos, writePos, isEmpty, isFull, returned, got>>

Positions == 0 .. Size - 1

\* The new array is not initialised.
Init ==
    /\ buf \in [Positions -> Data]
    /\ readPos = 0
    /\ writePos = 0
    /\ isEmpty = TRUE
    /\ isFull = FALSE
    /\ returned = 0
    /\ got = <<>>

size ==
    IF isEmpty THEN 0
    ELSE IF isFull THEN Size
    ELSE IF readPos < writePos THEN writePos - readPos
    ELSE Size - readPos + writePos

\* memcpy(&b[at], &s[from - 1], n)
Store(b, at, s, from, n) ==
    [i \in DOMAIN b |-> IF i \in at .. at + n - 1 THEN s[from + i - at] ELSE b[i]]

\* memcpy of n items out of b, and of m more from its start.
Load(b, at, n, m) ==
    [i \in 1 .. n + m |-> IF i <= n THEN b[at + i - 1] ELSE b[i - n - 1]]

-----------------------------------------------------------------------------
(* Writing.                                                                *)

\* The items of s fit between the write position and left places further.
WriteFits(s, left) ==
    /\ left > Len(s)
    /\ buf' = Store(buf, writePos, s, 1, Len(s))
    /\ writePos' = writePos + Len(s)
    /\ returned' = Len(s)

\* Slip: the buffer is not marked full when the write position catches up.
WrapsNeverFull(s, left, rest) ==
    /\ left <= Len(s)
    /\ buf' = Store(Store(buf, writePos, s, 1, left), 0, s, left + 1, rest)
    /\ writePos' = rest
    /\ isFull' = FALSE
    /\ returned' = left + rest

\* Fill the end of the array, then wrap around and store rest more.
WriteWraps(s, left, rest) ==
    /\ left <= Len(s)
    /\ buf' = Store(Store(buf, writePos, s, 1, left), 0, s, left + 1, rest)
    /\ writePos' = rest
    /\ isFull' = (rest = readPos)
    /\ returned' = left + rest

WriteEmpty(s) ==
    LET left == Size - writePos
        rest == IF readPos > Len(s) - left THEN Len(s) - left ELSE writePos
    IN  /\ readPos = writePos
        /\ \/ WriteFits(s, left) /\ UNCHANGED isFull
           \/ WriteWraps(s, left, rest)

WriteAhead(s) ==
    LET left == Size - writePos
        rest == IF readPos >= Len(s) - left THEN Len(s) - left ELSE readPos
    IN  /\ readPos < writePos
        /\ \/ WriteFits(s, left) /\ isFull' = (readPos = writePos')
           \/ WriteWraps(s, left, rest)

\* What does not fit before the read position is dropped.
WriteBehind(s) ==
    LET left == readPos - writePos
    IN  /\ readPos > writePos
        /\ \/ WriteFits(s, left)
           \/ /\ left <= Len(s)
              /\ buf' = Store(buf, writePos, s, 1, left)
              /\ writePos' = writePos + left
              /\ returned' = left
        /\ isFull' = (readPos = writePos')

write(s) ==
    /\ \/ /\ Len(s) = 0 \/ isFull
          /\ returned' = 0
          /\ UNCHANGED <<buf, writePos, isEmpty, isFull>>
       \/ /\ Len(s) > 0 /\ ~isFull
          /\ isEmpty' = FALSE
          /\ WriteEmpty(s) \/ WriteAhead(s) \/ WriteBehind(s)
    /\ got' = <<>>
    /\ UNCHANGED readPos

-----------------------------------------------------------------------------
(* Reading.                                                                *)

ReadFits(count, left) ==
    /\ left > count
    /\ got' = Load(buf, readPos, count, 0)
    /\ readPos' = readPos + count
    /\ returned' = count

\* Slip: the items at the start of the array are skipped, not copied.
ReadStopsAtEnd(count, left, rest) ==
    /\ left <= count
    /\ got' = Load(buf, readPos, left, 0)
    /\ readPos' = rest
    /\ returned' = left + rest

ReadWraps(count, left, rest) ==
    /\ left <= count
    /\ got' = Load(buf, readPos, left, rest)
    /\ readPos' = rest
    /\ returned' = left + rest

ReadFull(count) ==
    LET left == Size - readPos
        rest == IF writePos > count - left THEN count - left ELSE writePos
    IN  /\ readPos = writePos
        /\ ReadFits(count, left) \/ ReadWraps(count, left, rest)

ReadBehind(count) ==
    LET left == writePos - readPos
        c    == IF left > count THEN count ELSE left
    IN  /\ readPos < writePos
        /\ got' = Load(buf, readPos, c, 0)
        /\ readPos' = readPos + c
        /\ returned' = c

ReadAhead(count) ==
    LET left == Size - readPos
        rest == IF writePos >= count - left THEN count - left ELSE writePos
    IN  /\ readPos > writePos
        /\ ReadFits(count, left) \/ ReadWraps(count, left, rest)

read(count) ==
    /\ \/ /\ count = 0 \/ isEmpty
          /\ returned' = 0
          /\ got' = <<>>
          /\ UNCHANGED <<readPos, isEmpty, isFull>>
       \/ /\ count > 0 /\ ~isEmpty
          /\ isFull' = FALSE
          /\ ReadFull(count) \/ ReadBehind(count) \/ ReadAhead(count)
          /\ isEmpty' = (readPos' = writePos)
    /\ UNCHANGED <<buf, writePos>>

clear ==
    /\ readPos' = 0
    /\ writePos' = 0
    /\ isEmpty' = TRUE
    /\ isFull' = FALSE
    /\ returned' = 0
    /\ got' = <<>>
    /\ UNCHANGED buf

Next ==
    \/ \E n \in 0 .. MaxCount : \E s \in [1 .. n -> Data] : write(s)
    \/ \E count \in 0 .. MaxCount : read(count)
    \/ clear

Spec == Init /\ [][Next]_bvars

-----------------------------------------------------------------------------
(* Properties.                                                             *)

\* The positions stay inside the array, so no memcpy runs over its end, and the
\* flags say which of the two cases equal positions mean (the assertions of
\* write and read).
BufferOK ==
    /\ buf \in [Positions -> Data]
    /\ readPos \in Positions /\ writePos \in Positions
    /\ isEmpty \in BOOLEAN /\ isFull \in BOOLEAN
    /\ ~(isEmpty /\ isFull)
    /\ readPos = writePos <=> isEmpty \/ isFull

\* Where the i-th item lies, counted from the read position.
At(i) == IF readPos + i <= Size THEN readPos + i - 1 ELSE readPos + i - 1 - Size

\* The items in the buffer, oldest first.
contents == [i \in 1 .. size |-> buf[At(i)]]

Queue == INSTANCE BoundedQueue WITH queue <- contents

\* The buffer is a first-in first-out queue of Size items: nothing is lost,
\* repeated or reordered at any of the wrap-around cases, and a write takes
\* exactly as much as there is room for.
ImplementsQueue == Queue!QSpec

=============================================================================
