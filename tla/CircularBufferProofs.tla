------------------------ MODULE CircularBufferProofs ------------------------
(***************************************************************************)
(* The circular buffer implements a bounded first-in first-out queue, for  *)
(* any capacity, any items and calls of any length.  The proof separates   *)
(* what a call does to the positions and flags, which is linear arithmetic *)
(* with one case per wrap-around, from what that means for the contents.   *)
(***************************************************************************)
EXTENDS CircularBuffer, SequenceTheorems, TLAPS

\* r is b after n items of s, the from-th and those behind it, are copied to at.
Stored(b, r, at, s, from, n) ==
    /\ r \in [Positions -> Data]
    /\ \A i \in Positions : i < at \/ i >= at + n => r[i] = b[i]
    /\ \A i \in Positions : at <= i /\ i < at + n => r[i] = s[from + i - at]

\* memcpy into the buffer.
LEMMA StoreItems ==
    ASSUME NEW b \in [Positions -> Data], NEW k \in Nat, NEW s \in [1 .. k -> Data],
           NEW at \in Nat, NEW from \in Nat \ {0}, NEW n \in Nat,
           at + n <= Size, from + n - 1 <= k
    PROVE  Stored(b, Store(b, at, s, from, n), at, s, from, n)
<1> DEFINE r == Store(b, at, s, from, n)
<1>1. r = [i \in Positions |-> IF i \in at .. at + n - 1 THEN s[from + i - at] ELSE b[i]]
  BY DEF Store
<1>2. \A i \in Positions : at <= i /\ i < at + n => s[from + i - at] \in Data
  BY BufferAssumption DEF Positions
<1>3. \A i \in Positions : i \in at .. at + n - 1 <=> at <= i /\ i < at + n
  BY BufferAssumption DEF Positions
<1> HIDE DEF r
<1>4. Stored(b, r, at, s, from, n)
  BY <1>1, <1>2, <1>3, BufferAssumption DEF Stored, Positions
<1>5. QED
  BY <1>4 DEF r

\* The number of items in the buffer.
LEMMA SizeType == BufferOK => size \in 0 .. Size
BY BufferAssumption DEF BufferOK, size, Positions

\* Every place of an item lies inside the array.
LEMMA AtType ==
    ASSUME BufferOK, NEW i \in 1 .. Size
    PROVE  At(i) \in Positions
BY BufferAssumption DEF BufferOK, At, Positions

\* The contents are a sequence, item by item.
ContentsOK ==
    /\ contents \in Seq(Data)
    /\ Len(contents) = size
    /\ \A i \in 1 .. size : contents[i] = buf[At(i)]

\* The items between the positions are data.
LEMMA ContentsType == BufferOK => ContentsOK
<1> SUFFICES ASSUME BufferOK
             PROVE  ContentsOK
  OBVIOUS
<1>1. size \in Nat /\ size <= Size
  BY SizeType, BufferAssumption
<1>2. \A i \in 1 .. size : buf[At(i)] \in Data
  <2>1. TAKE i \in 1 .. size
  <2>2. At(i) \in Positions
    BY <1>1, AtType, BufferAssumption
  <2>3. QED
    BY <2>2 DEF BufferOK
<1>3. contents \in [1 .. size -> Data]
  BY <1>2 DEF contents
<1>4. contents \in Seq(Data)
  BY <1>1, <1>3, SeqDef
<1>5. Len(contents) = size
  BY <1>1, <1>3, <1>4, LenProperties
<1>6. QED
  BY <1>4, <1>5 DEF ContentsOK, contents

-----------------------------------------------------------------------------
(* Writing.                                                                *)

\* Where the i-th item after those in the buffer goes.
Free(i) == IF writePos + i <= Size THEN writePos + i - 1 ELSE writePos + i - 1 - Size

\* The first n items of s lie behind the ones that were there, untouched.
Appended(s, n) ==
    /\ buf' \in [Positions -> Data]
    /\ \A i \in 1 .. size : buf'[At(i)] = buf[At(i)]
    /\ \A i \in 1 .. n : buf'[At(size + i)] = s[i]

\* The positions and flags account for n more items.
Grown(n) ==
    /\ writePos' \in Positions
    /\ isEmpty' \in BOOLEAN /\ isFull' \in BOOLEAN
    /\ ~(isEmpty' /\ isFull')
    /\ readPos' = writePos' <=> isEmpty' \/ isFull'
    /\ size' = size + n

\* The room there is for k items.
Room(k) == IF k < Size - size THEN k ELSE Size - size

\* The write position is right behind the last item.
LEMMA WriteAt ==
    ASSUME BufferOK, ~isFull, NEW i \in 1 .. Size - size
    PROVE  At(size + i) = Free(i)
<1>1. size \in 0 .. Size /\ i \in Nat \ {0}
  BY SizeType, BufferAssumption
<1>2. CASE readPos = writePos
  BY <1>1, <1>2, BufferAssumption DEF BufferOK, size, At, Free, Positions
<1>3. CASE readPos < writePos
  BY <1>1, <1>3, BufferAssumption DEF BufferOK, size, At, Free, Positions
<1>4. CASE readPos > writePos
  BY <1>1, <1>4, BufferAssumption DEF BufferOK, size, At, Free, Positions
<1>5. QED
  BY <1>2, <1>3, <1>4 DEF BufferOK, Positions

\* No item already in the buffer lies in the room behind the write position.
LEMMA WriteClear ==
    ASSUME BufferOK, ~isFull, NEW i \in 1 .. size, NEW j \in 1 .. Size - size
    PROVE  At(i) # Free(j)
<1>1. size \in 0 .. Size /\ i \in Nat \ {0} /\ j \in Nat \ {0}
  BY SizeType, BufferAssumption
<1>2. CASE readPos = writePos
  BY <1>1, <1>2, BufferAssumption DEF BufferOK, size, At, Free, Positions
<1>3. CASE readPos < writePos
  BY <1>1, <1>3, BufferAssumption DEF BufferOK, size, At, Free, Positions
<1>4. CASE readPos > writePos
  BY <1>1, <1>4, BufferAssumption DEF BufferOK, size, At, Free, Positions
<1>5. QED
  BY <1>2, <1>3, <1>4 DEF BufferOK, Positions

\* A write that reaches no further than the end of the array.
LEMMA FitsItems ==
    ASSUME BufferOK, ~isFull, NEW k \in Nat, NEW s \in [1 .. k -> Data],
           NEW n \in 0 .. k, n <= Size - size, writePos + n <= Size,
           buf' = Store(buf, writePos, s, 1, n)
    PROVE  Appended(s, n)
<1>1. /\ buf \in [Positions -> Data] /\ writePos \in Nat
      /\ size \in 0 .. Size /\ n \in Nat /\ n <= k
  BY SizeType, BufferAssumption DEF BufferOK, Positions
<1>2. Stored(buf, buf', writePos, s, 1, n)
  <2>1. 1 + n - 1 <= k /\ 1 \in Nat \ {0}
    BY <1>1
  <2>2. QED
    BY <1>1, <2>1, StoreItems
<1>3. ASSUME NEW i \in 1 .. size
      PROVE  buf'[At(i)] = buf[At(i)]
  <2>1. At(i) \in Positions
    BY <1>1, AtType, BufferAssumption
  <2>2. ~(writePos <= At(i) /\ At(i) < writePos + n)
    <3>1. SUFFICES ASSUME writePos <= At(i), At(i) < writePos + n
                   PROVE  FALSE
      OBVIOUS
    <3> DEFINE j == At(i) - writePos + 1
    <3>2. At(i) \in Nat
      BY <2>1, BufferAssumption DEF Positions
    <3>3. j \in 1 .. Size - size /\ writePos + j <= Size /\ writePos + j - 1 = At(i)
      BY <1>1, <3>1, <3>2, BufferAssumption
    <3>4. Free(j) = At(i)
      BY <3>3 DEF Free
    <3>5. QED
      BY <3>3, <3>4, WriteClear
  <2>3. At(i) < writePos \/ At(i) >= writePos + n
    BY <1>1, <2>1, <2>2, BufferAssumption DEF Positions
  <2>4. QED
    BY <1>2, <2>1, <2>3 DEF Stored
<1>4. ASSUME NEW i \in 1 .. n
      PROVE  buf'[At(size + i)] = s[i]
  <2>1. /\ i \in 1 .. Size - size /\ writePos + i <= Size
        /\ writePos + i - 1 \in Positions
    BY <1>1, BufferAssumption DEF Positions
  <2>2. At(size + i) = writePos + i - 1
    BY <2>1, WriteAt DEF Free
  <2>3. /\ writePos <= writePos + i - 1 /\ writePos + i - 1 < writePos + n
        /\ 1 + (writePos + i - 1) - writePos = i
    BY <1>1
  <2>4. QED
    BY <1>2, <2>1, <2>2, <2>3 DEF Stored
<1>5. QED
  BY <1>2, <1>3, <1>4 DEF Appended, Stored

\* A write that fills the end of the array and goes on at its start.
LEMMA WrapsItems ==
    ASSUME BufferOK, ~isFull, NEW k \in Nat, NEW s \in [1 .. k -> Data],
           NEW left \in Nat, NEW rest \in Nat, writePos + left = Size,
           left + rest <= k, left + rest <= Size - size,
           buf' = Store(Store(buf, writePos, s, 1, left), 0, s, left + 1, rest)
    PROVE  Appended(s, left + rest)
<1> DEFINE half == Store(buf, writePos, s, 1, left)
<1>1. /\ buf \in [Positions -> Data] /\ writePos \in Nat
      /\ size \in 0 .. Size /\ rest <= Size /\ left <= k
  BY SizeType, BufferAssumption DEF BufferOK, Positions
<1>2. Stored(buf, half, writePos, s, 1, left)
  BY <1>1, StoreItems
<1>3. buf' = Store(half, 0, s, left + 1, rest)
  OBVIOUS
<1> HIDE DEF half
<1>4. Stored(half, buf', 0, s, left + 1, rest)
  <2>1. half \in [Positions -> Data] /\ left + 1 \in Nat \ {0} /\ 0 \in Nat
    BY <1>2 DEF Stored
  <2>2. 0 + rest <= Size /\ left + 1 + rest - 1 <= k
    BY <1>1
  <2>3. QED
    BY <1>3, <2>1, <2>2, StoreItems
<1>5. ASSUME NEW i \in 1 .. size
      PROVE  buf'[At(i)] = buf[At(i)]
  <2>1. At(i) \in Positions /\ At(i) \in Nat
    BY <1>1, AtType, BufferAssumption DEF Positions
  <2>2. At(i) < writePos
    <3>1. SUFFICES ASSUME writePos <= At(i)
                   PROVE  FALSE
      BY <1>1, <2>1
    <3> DEFINE j == At(i) - writePos + 1
    <3>2. j \in 1 .. Size - size /\ writePos + j <= Size /\ writePos + j - 1 = At(i)
      BY <1>1, <2>1, <3>1, BufferAssumption DEF Positions
    <3>3. Free(j) = At(i)
      BY <3>2 DEF Free
    <3>4. QED
      BY <3>2, <3>3, WriteClear
  <2>3. At(i) >= 0 + rest
    <3>1. SUFFICES ASSUME At(i) < rest
                   PROVE  FALSE
      BY <1>1, <2>1
    <3> DEFINE j == left + At(i) + 1
    <3>2. /\ j \in 1 .. Size - size /\ ~(writePos + j <= Size)
          /\ writePos + j - 1 - Size = At(i)
      <4>1. j \in Nat /\ j >= 1
        BY <2>1
      <4>2. j <= left + rest
        BY <2>1, <3>1
      <4>3. j <= Size - size
        BY <1>1, <4>1, <4>2, BufferAssumption
      <4>4. writePos + j = Size + At(i) + 1
        BY <1>1, <2>1
      <4>5. Size \in Nat /\ size \in Nat /\ writePos \in Nat /\ At(i) \in Nat
        BY <1>1, <2>1, BufferAssumption
      <4> HIDE DEF j
      <4>6. j \in 1 .. Size - size
        BY <4>1, <4>3, <4>5
      <4>7. ~(writePos + j <= Size) /\ writePos + j - 1 - Size = At(i)
        BY <4>1, <4>4, <4>5
      <4>8. QED
        BY <4>6, <4>7
    <3>3. Free(j) = At(i)
      BY <3>2 DEF Free
    <3>4. QED
      BY <3>2, <3>3, WriteClear
  <2>4. buf'[At(i)] = half[At(i)]
    BY <1>4, <2>1, <2>3 DEF Stored
  <2>5. QED
    BY <1>2, <2>1, <2>2, <2>4 DEF Stored
<1>6. ASSUME NEW i \in 1 .. left + rest
      PROVE  buf'[At(size + i)] = s[i]
  <2>1. i \in 1 .. Size - size /\ i \in Nat \ {0}
    BY <1>1, BufferAssumption
  <2>2. At(size + i) = Free(i)
    BY <2>1, WriteAt
  <2>3. CASE writePos + i <= Size
    <3> DEFINE j == writePos + i - 1
    <3>1. /\ j \in Positions /\ j >= 0 + rest /\ writePos <= j
          /\ j < writePos + left /\ 1 + j - writePos = i
      <4>1. rest <= writePos
        BY <1>1, BufferAssumption
      <4>2. QED
        BY <1>1, <2>1, <2>3, <4>1, BufferAssumption DEF Positions
    <3>2. At(size + i) = j
      BY <2>2, <2>3 DEF Free
    <3> HIDE DEF j
    <3>3. buf'[j] = half[j]
      BY <1>4, <3>1 DEF Stored
    <3>4. half[j] = s[1 + j - writePos]
      BY <1>2, <3>1 DEF Stored
    <3>5. QED
      BY <3>1, <3>2, <3>3, <3>4
  <2>4. CASE ~(writePos + i <= Size)
    <3> DEFINE j == writePos + i - 1 - Size
    <3>1. j \in Positions /\ 0 <= j /\ j < 0 + rest /\ left + 1 + j - 0 = i
      BY <1>1, <2>1, <2>4, BufferAssumption DEF Positions
    <3>2. At(size + i) = j
      BY <2>2, <2>4 DEF Free
    <3> HIDE DEF j
    <3>3. buf'[j] = s[left + 1 + j - 0]
      BY <1>4, <3>1 DEF Stored
    <3>4. QED
      BY <3>1, <3>2, <3>3
  <2>5. QED
    BY <2>3, <2>4
<1>7. QED
  BY <1>4, <1>5, <1>6 DEF Appended, Stored

\* The cases of a write.
LEMMA WriteEmptyStep ==
    ASSUME BufferOK, NEW k \in Nat \ {0}, NEW s \in [1 .. k -> Data], Len(s) = k,
           ~isFull, isEmpty' = FALSE, UNCHANGED readPos, WriteEmpty(s)
    PROVE  Appended(s, Room(k)) /\ Grown(Room(k)) /\ returned' = Room(k)
<1> DEFINE left == Size - writePos
           rest == IF readPos > k - left THEN k - left ELSE writePos
<1>1. readPos = writePos /\ isEmpty
  BY DEF WriteEmpty, BufferOK
<1>2. /\ size = 0 /\ readPos \in Positions /\ writePos \in Nat
      /\ left \in Nat \ {0} /\ writePos + left = Size /\ left <= Size
  BY <1>1, BufferAssumption DEF BufferOK, size, Positions
<1> HIDE DEF left
<1>3. CASE WriteFits(s, left) /\ UNCHANGED isFull
  <2>1. /\ left > k /\ buf' = Store(buf, writePos, s, 1, k)
        /\ writePos' = writePos + k /\ returned' = k /\ isFull' = FALSE
    BY <1>3 DEF WriteFits, BufferOK
  <2>2. /\ Room(k) = k /\ k <= Size - size /\ writePos + k <= Size
        /\ writePos' \in Positions /\ readPos' < writePos'
        /\ writePos' - readPos' = k /\ readPos' # writePos'
    BY <1>1, <1>2, <2>1, BufferAssumption DEF Positions, Room
  <2>3. size' = size + k
    BY <1>2, <2>1, <2>2 DEF size
  <2>4. Grown(k)
    BY <2>1, <2>2, <2>3 DEF Grown
  <2>5. Appended(s, k)
    BY <2>1, <2>2, FitsItems
  <2>6. QED
    BY <2>1, <2>2, <2>4, <2>5
<1>4. CASE WriteWraps(s, left, rest)
  <2>1. /\ left <= k /\ writePos' = rest /\ returned' = left + rest
        /\ buf' = Store(Store(buf, writePos, s, 1, left), 0, s, left + 1, rest)
        /\ isFull' = (rest = readPos)
    BY <1>4 DEF WriteWraps
  <2>2. /\ rest \in Nat /\ rest <= readPos /\ left + rest <= k
        /\ left + rest = Room(k) /\ left + rest <= Size - size
        /\ rest \in Positions
    BY <1>1, <1>2, <2>1, BufferAssumption DEF Positions, Room
  <2> HIDE DEF rest
  <2>3. Grown(left + rest)
    <3>1. CASE rest = readPos
      <4>1. left + rest = Size /\ readPos' = writePos' /\ isFull' = TRUE
        <5>1. left + rest = Size
          BY <1>1, <1>2, <3>1, BufferAssumption DEF Positions
        <5>2. QED
          BY <2>1, <3>1, <5>1
      <4>2. size' = size + (left + rest)
        BY <1>2, <4>1, BufferAssumption DEF size
      <4>3. QED
        BY <2>1, <2>2, <4>1, <4>2 DEF Grown
    <3>2. CASE rest # readPos
      <4>1. readPos' # writePos' /\ isFull' = FALSE
        BY <2>1, <3>2
      <4>2. ~(readPos' < writePos') /\ Size - readPos' + writePos' = size + (left + rest)
        BY <1>1, <1>2, <2>1, <2>2, BufferAssumption DEF Positions
      <4>3. size' = size + (left + rest)
        BY <4>1, <4>2 DEF size
      <4>4. QED
        BY <2>1, <2>2, <4>1, <4>3 DEF Grown
    <3>3. QED
      BY <3>1, <3>2
  <2>4. Appended(s, left + rest)
    BY <1>2, <2>1, <2>2, WrapsItems
  <2>5. QED
    BY <2>1, <2>2, <2>3, <2>4
<1>5. QED
  BY <1>3, <1>4 DEF WriteEmpty, left

\* write with the write position ahead: both branches append.
LEMMA WriteAheadStep ==
    ASSUME BufferOK, NEW k \in Nat \ {0}, NEW s \in [1 .. k -> Data], Len(s) = k,
           ~isFull, isEmpty' = FALSE, UNCHANGED readPos, WriteAhead(s)
    PROVE  Appended(s, Room(k)) /\ Grown(Room(k)) /\ returned' = Room(k)
<1> DEFINE left == Size - writePos
           rest == IF readPos >= k - left THEN k - left ELSE readPos
<1>1. readPos < writePos /\ ~isEmpty
  BY DEF WriteAhead, BufferOK, Positions
<1>2. /\ size = writePos - readPos /\ readPos \in Positions /\ writePos \in Nat
      /\ left \in Nat \ {0} /\ writePos + left = Size /\ left <= Size
  BY <1>1, BufferAssumption DEF BufferOK, size, Positions
<1> HIDE DEF left
<1>3. CASE WriteFits(s, left) /\ isFull' = (readPos = writePos')
  <2>1. /\ left > k /\ buf' = Store(buf, writePos, s, 1, k)
        /\ writePos' = writePos + k /\ returned' = k
        /\ isFull' = (readPos = writePos')
    BY <1>3 DEF WriteFits
  <2>2. /\ Room(k) = k /\ k <= Size - size /\ writePos + k <= Size
        /\ writePos' \in Positions /\ readPos' < writePos'
        /\ writePos' - readPos' = size + k /\ readPos' # writePos'
    BY <1>1, <1>2, <2>1, BufferAssumption DEF Positions, Room
  <2>3. isFull' = FALSE
    BY <2>1, <2>2
  <2>4. size' = size + k
    BY <2>2, <2>3 DEF size
  <2>5. Grown(k)
    BY <2>2, <2>3, <2>4 DEF Grown
  <2>6. Appended(s, k)
    BY <2>1, <2>2, FitsItems
  <2>7. QED
    BY <2>1, <2>2, <2>5, <2>6
<1>4. CASE WriteWraps(s, left, rest)
  <2>1. /\ left <= k /\ writePos' = rest /\ returned' = left + rest
        /\ buf' = Store(Store(buf, writePos, s, 1, left), 0, s, left + 1, rest)
        /\ isFull' = (rest = readPos)
    BY <1>4 DEF WriteWraps
  <2>2. /\ rest \in Nat /\ rest <= readPos /\ left + rest <= k
        /\ left + rest = Room(k) /\ left + rest <= Size - size
        /\ rest \in Positions
    BY <1>1, <1>2, <2>1, BufferAssumption DEF Positions, Room
  <2> HIDE DEF rest
  <2>3. Grown(left + rest)
    <3>1. CASE rest = readPos
      <4>1. /\ size + (left + rest) = Size /\ readPos' = writePos'
            /\ isFull' = TRUE
        <5>1. size + (left + rest) = Size
          BY <1>1, <1>2, <3>1, BufferAssumption DEF Positions
        <5>2. QED
          BY <2>1, <3>1, <5>1
      <4>2. size' = size + (left + rest)
        BY <4>1 DEF size
      <4>3. QED
        BY <2>1, <2>2, <4>1, <4>2 DEF Grown
    <3>2. CASE rest # readPos
      <4>1. readPos' # writePos' /\ isFull' = FALSE
        BY <2>1, <3>2
      <4>2. ~(readPos' < writePos') /\ Size - readPos' + writePos' = size + (left + rest)
        BY <1>1, <1>2, <2>1, <2>2, BufferAssumption DEF Positions
      <4>3. size' = size + (left + rest)
        BY <4>1, <4>2 DEF size
      <4>4. QED
        BY <2>1, <2>2, <4>1, <4>3 DEF Grown
    <3>3. QED
      BY <3>1, <3>2
  <2>4. Appended(s, left + rest)
    BY <1>2, <2>1, <2>2, WrapsItems
  <2>5. QED
    BY <2>1, <2>2, <2>3, <2>4
<1>5. QED
  BY <1>3, <1>4 DEF WriteAhead, left

\* write with the write position behind: what fits is appended.
LEMMA WriteBehindStep ==
    ASSUME BufferOK, NEW k \in Nat \ {0}, NEW s \in [1 .. k -> Data], Len(s) = k,
           ~isFull, isEmpty' = FALSE, UNCHANGED readPos, WriteBehind(s)
    PROVE  Appended(s, Room(k)) /\ Grown(Room(k)) /\ returned' = Room(k)
<1> DEFINE left == readPos - writePos
           n == IF left > k THEN k ELSE left
<1>1. readPos > writePos /\ ~isEmpty
  BY DEF WriteBehind, BufferOK, Positions
<1>2. /\ size = Size - readPos + writePos /\ readPos \in Positions
      /\ readPos \in Nat /\ writePos \in Nat /\ left \in Nat
      /\ n \in 0 .. k /\ n = Room(k) /\ n <= Size - size /\ writePos + n <= readPos
      /\ readPos < Size
  BY <1>1, BufferAssumption DEF BufferOK, size, Positions, Room
<1>3. /\ buf' = Store(buf, writePos, s, 1, n) /\ writePos' = writePos + n
      /\ returned' = n /\ isFull' = (readPos = writePos')
  BY <1>2 DEF WriteBehind, WriteFits
<1> HIDE DEF n
<1>4. Appended(s, n)
  <2>1. writePos + n <= Size
    BY <1>2, BufferAssumption
  <2>2. QED
    BY <1>2, <1>3, <2>1, FitsItems
<1>5. Grown(n)
  <2>1. writePos' \in Positions
    BY <1>2, <1>3, BufferAssumption DEF Positions
  <2>2. CASE readPos = writePos'
    <3>1. size + n = Size /\ isFull' = TRUE
      <4>1. readPos = writePos + n
        BY <1>3, <2>2
      <4>2. size + n = Size
        BY <1>2, <4>1, BufferAssumption
      <4>3. QED
        BY <1>3, <2>2, <4>2
    <3>2. size' = size + n
      BY <3>1 DEF size
    <3>3. QED
      BY <2>1, <2>2, <3>1, <3>2 DEF Grown
  <2>3. CASE readPos # writePos'
    <3>1. /\ isFull' = FALSE /\ ~(readPos' < writePos') /\ readPos' # writePos'
          /\ Size - readPos' + writePos' = size + n
      <4>1. isFull' = FALSE /\ readPos' # writePos'
        BY <1>3, <2>3
      <4>2. writePos' = writePos + n /\ readPos' = readPos
        BY <1>3
      <4>3. /\ ~(readPos' < writePos')
            /\ Size - readPos' + writePos' = size + n
        BY <1>2, <4>2, BufferAssumption
      <4>4. QED
        BY <4>1, <4>3
    <3>2. size' = size + n
      BY <3>1 DEF size
    <3>3. QED
      BY <2>1, <3>1, <3>2 DEF Grown
  <2>4. QED
    BY <2>2, <2>3
<1>6. QED
  BY <1>2, <1>3, <1>4, <1>5

-----------------------------------------------------------------------------
(* Reading.                                                                *)

\* The read handed out the first n items.
Copied(n) ==
    /\ got' \in [1 .. n -> Data]
    /\ \A i \in 1 .. n : got'[i] = buf[At(i)]

\* The positions and flags account for n items less, the oldest.
Shrunk(n) ==
    /\ readPos' \in Positions
    /\ size' = size - n
    /\ \A i \in 1 .. size - n : At(i)' = At(n + i)

\* As many of k items as there are.
Stock(k) == IF k < size THEN k ELSE size

\* A copy that does not reach the end of the array.
LEMMA LoadFits ==
    ASSUME BufferOK, NEW n \in 0 .. size, readPos + n <= Size,
           got' = Load(buf, readPos, n, 0)
    PROVE  Copied(n)
<1>1. /\ buf \in [Positions -> Data] /\ readPos \in Nat /\ n \in Nat
      /\ n + 0 = n /\ size \in 0 .. Size
  BY SizeType, BufferAssumption DEF BufferOK, Positions
<1>2. \A i \in 1 .. n : readPos + i - 1 \in Positions /\ At(i) = readPos + i - 1
  BY <1>1, BufferAssumption DEF Positions, At
<1>3. got' = [i \in 1 .. n |-> buf[readPos + i - 1]]
  BY <1>1 DEF Load
<1>4. QED
  BY <1>1, <1>2, <1>3 DEF Copied

\* A copy around the end of the array.
LEMMA LoadWraps ==
    ASSUME BufferOK, NEW left \in Nat, NEW rest \in Nat, readPos + left = Size,
           left + rest <= size, got' = Load(buf, readPos, left, rest)
    PROVE  Copied(left + rest)
<1>1. buf \in [Positions -> Data] /\ readPos \in Nat /\ size \in 0 .. Size
  BY SizeType, BufferAssumption DEF BufferOK, Positions
<1>2. \A i \in 1 .. left + rest :
         IF i <= left
         THEN readPos + i - 1 \in Positions /\ At(i) = readPos + i - 1
         ELSE i - left - 1 \in Positions /\ At(i) = i - left - 1
  BY <1>1, BufferAssumption DEF Positions, At
<1>3. got' = [i \in 1 .. left + rest |->
                IF i <= left THEN buf[readPos + i - 1] ELSE buf[i - left - 1]]
  BY DEF Load
<1>4. QED
  BY <1>1, <1>2, <1>3 DEF Copied

\* The places of the items left, for a read that stays inside the array ...
LEMMA ShiftFits ==
    ASSUME BufferOK, NEW n \in 0 .. size, readPos' = readPos + n, readPos + n <= Size
    PROVE  \A i \in 1 .. size - n : At(i)' = At(n + i)
<1>1. readPos \in Nat /\ n \in Nat /\ size \in 0 .. Size
  BY SizeType, BufferAssumption DEF BufferOK, Positions
<1>2. TAKE i \in 1 .. size - n
<1>3. /\ i \in Nat /\ readPos' + i \in Nat
      /\ readPos + (n + i) = readPos' + i
  BY <1>1, BufferAssumption
<1>4. At(i)' = IF readPos' + i <= Size THEN readPos' + i - 1 ELSE readPos' + i - 1 - Size
  BY DEF At
<1>5. At(n + i) = IF readPos' + i <= Size THEN readPos' + i - 1 ELSE readPos' + i - 1 - Size
  BY <1>1, <1>3, BufferAssumption DEF At
<1>6. QED
  BY <1>4, <1>5

\* ... and for one that goes around its end.
LEMMA ShiftWraps ==
    ASSUME BufferOK, NEW left \in Nat, NEW rest \in Nat, readPos + left = Size,
           left + rest <= size, readPos' = rest
    PROVE  \A i \in 1 .. size - (left + rest) : At(i)' = At((left + rest) + i)
<1>1. readPos \in Nat /\ size \in 0 .. Size
  BY SizeType, BufferAssumption DEF BufferOK, Positions
<1>2. TAKE i \in 1 .. size - (left + rest)
<1>3. /\ i \in Nat \ {0} /\ readPos' + i <= Size
      /\ ~(readPos + ((left + rest) + i) <= Size)
      /\ readPos + ((left + rest) + i) - 1 - Size = readPos' + i - 1
  BY <1>1, BufferAssumption
<1>4. QED
  BY <1>3 DEF At

\* The cases of a read.
LEMMA ReadFullStep ==
    ASSUME BufferOK, NEW k \in Nat \ {0}, ~isEmpty, isFull' = FALSE,
           UNCHANGED writePos, ReadFull(k), isEmpty' = (readPos' = writePos)
    PROVE  Copied(Stock(k)) /\ Shrunk(Stock(k)) /\ returned' = Stock(k)
<1> DEFINE left == Size - readPos
           rest == IF writePos > k - left THEN k - left ELSE writePos
<1>1. readPos = writePos /\ isFull
  BY DEF ReadFull, BufferOK
<1>2. /\ size = Size /\ readPos \in Positions /\ readPos \in Nat
      /\ left \in Nat \ {0} /\ readPos + left = Size /\ left <= Size
  BY <1>1, BufferAssumption DEF BufferOK, size, Positions
<1> HIDE DEF left
<1>3. CASE ReadFits(k, left)
  <2>1. /\ left > k /\ got' = Load(buf, readPos, k, 0)
        /\ readPos' = readPos + k /\ returned' = k
    BY <1>3 DEF ReadFits
  <2>2. /\ Stock(k) = k /\ k \in 0 .. size /\ readPos + k <= Size
        /\ readPos' \in Positions /\ readPos' # writePos /\ ~(readPos' < writePos)
        /\ Size - readPos' + writePos = size - k
    BY <1>1, <1>2, <2>1, BufferAssumption DEF Positions, Stock
  <2>3. size' = size - k
    BY <2>2 DEF size
  <2>4. QED
    BY <2>1, <2>2, <2>3, LoadFits, ShiftFits DEF Shrunk
<1>4. CASE ReadWraps(k, left, rest)
  <2>1. /\ left <= k /\ got' = Load(buf, readPos, left, rest)
        /\ readPos' = rest /\ returned' = left + rest
    BY <1>4 DEF ReadWraps
  <2>2. /\ rest \in Nat /\ rest <= readPos /\ left + rest = Stock(k)
        /\ left + rest <= size /\ rest \in Positions
    BY <1>1, <1>2, <2>1, BufferAssumption DEF Positions, Stock
  <2> HIDE DEF rest
  <2>3. size' = size - (left + rest)
    <3>1. CASE rest = readPos
      <4>1. size - (left + rest) = 0
        BY <1>2, <3>1, BufferAssumption
      <4>2. isEmpty' = TRUE
        BY <1>1, <2>1, <3>1
      <4>3. QED
        BY <4>1, <4>2 DEF size
    <3>2. CASE rest # readPos
      <4>1. isEmpty' = FALSE
        BY <1>1, <2>1, <3>2
      <4>2. readPos' < writePos' /\ writePos' - readPos' = size - (left + rest)
        BY <1>1, <1>2, <2>1, <2>2, <3>2, BufferAssumption
      <4>3. QED
        BY <4>1, <4>2 DEF size
    <3>3. QED
      BY <3>1, <3>2
  <2>4. QED
    BY <1>2, <2>1, <2>2, <2>3, LoadWraps, ShiftWraps DEF Shrunk
<1>5. QED
  BY <1>3, <1>4 DEF ReadFull, left

\* read with the read position behind the write position.
LEMMA ReadBehindStep ==
    ASSUME BufferOK, NEW k \in Nat \ {0}, ~isEmpty, isFull' = FALSE,
           UNCHANGED writePos, ReadBehind(k), isEmpty' = (readPos' = writePos)
    PROVE  Copied(Stock(k)) /\ Shrunk(Stock(k)) /\ returned' = Stock(k)
<1> DEFINE left == writePos - readPos
           n == IF left > k THEN k ELSE left
<1>1. readPos < writePos /\ ~isFull
  BY DEF ReadBehind, BufferOK, Positions
<1>2. /\ size = left /\ readPos \in Positions /\ readPos \in Nat /\ writePos \in Nat
      /\ writePos < Size /\ n \in 0 .. size /\ n = Stock(k)
      /\ readPos + n <= writePos /\ readPos + n <= Size
      /\ readPos + n \in Positions
  BY <1>1, BufferAssumption DEF BufferOK, size, Positions, Stock
<1>3. /\ got' = Load(buf, readPos, n, 0) /\ readPos' = readPos + n /\ returned' = n
  BY DEF ReadBehind
<1> HIDE DEF n
<1>4. size' = size - n
  <2>1. CASE readPos' = writePos
    <3>1. size - n = 0
      BY <1>2, <1>3, <2>1
    <3>2. isEmpty' = TRUE
      BY <2>1
    <3>3. QED
      BY <3>1, <3>2 DEF size
  <2>2. CASE readPos' # writePos
    <3>1. isEmpty' = FALSE
      BY <2>2
    <3>2. readPos' < writePos' /\ writePos' - readPos' = size - n
      BY <1>2, <1>3, <2>2
    <3>3. QED
      BY <3>1, <3>2 DEF size
  <2>3. QED
    BY <2>1, <2>2
<1>5. QED
  BY <1>2, <1>3, <1>4, LoadFits, ShiftFits DEF Shrunk

\* read with the read position ahead: both branches copy the oldest items.
LEMMA ReadAheadStep ==
    ASSUME BufferOK, NEW k \in Nat \ {0}, ~isEmpty, isFull' = FALSE,
           UNCHANGED writePos, ReadAhead(k), isEmpty' = (readPos' = writePos)
    PROVE  Copied(Stock(k)) /\ Shrunk(Stock(k)) /\ returned' = Stock(k)
<1> DEFINE left == Size - readPos
           rest == IF writePos >= k - left THEN k - left ELSE writePos
<1>1. readPos > writePos /\ ~isFull
  BY DEF ReadAhead, BufferOK, Positions
<1>2. /\ size = left + writePos /\ readPos \in Positions /\ readPos \in Nat
      /\ writePos \in Nat /\ writePos < Size
      /\ left \in Nat \ {0} /\ readPos + left = Size /\ left <= Size
  BY <1>1, BufferAssumption DEF BufferOK, size, Positions
<1> HIDE DEF left
<1>3. CASE ReadFits(k, left)
  <2>1. /\ left > k /\ got' = Load(buf, readPos, k, 0)
        /\ readPos' = readPos + k /\ returned' = k
    BY <1>3 DEF ReadFits
  <2>2. /\ Stock(k) = k /\ k \in 0 .. size /\ readPos + k <= Size
        /\ readPos' \in Positions /\ readPos' # writePos /\ ~(readPos' < writePos)
        /\ Size - readPos' + writePos = size - k
    BY <1>1, <1>2, <2>1, BufferAssumption DEF Positions, Stock
  <2>3. size' = size - k
    BY <2>2 DEF size
  <2>4. QED
    BY <2>1, <2>2, <2>3, LoadFits, ShiftFits DEF Shrunk
<1>4. CASE ReadWraps(k, left, rest)
  <2>1. /\ left <= k /\ got' = Load(buf, readPos, left, rest)
        /\ readPos' = rest /\ returned' = left + rest
    BY <1>4 DEF ReadWraps
  <2>2. /\ rest \in Nat /\ rest <= writePos /\ left + rest = Stock(k)
        /\ left + rest <= size /\ rest \in Positions
    BY <1>1, <1>2, <2>1, BufferAssumption DEF Positions, Stock
  <2> HIDE DEF rest
  <2>3. size' = size - (left + rest)
    <3>1. CASE rest = writePos
      <4>1. size - (left + rest) = 0
        BY <1>2, <3>1, BufferAssumption
      <4>2. isEmpty' = TRUE
        BY <2>1, <3>1
      <4>3. QED
        BY <4>1, <4>2 DEF size
    <3>2. CASE rest # writePos
      <4>1. isEmpty' = FALSE
        BY <2>1, <3>2
      <4>2. readPos' < writePos' /\ writePos' - readPos' = size - (left + rest)
        BY <1>2, <2>1, <2>2, <3>2, BufferAssumption
      <4>3. QED
        BY <4>1, <4>2 DEF size
    <3>3. QED
      BY <3>1, <3>2
  <2>4. QED
    BY <1>2, <2>1, <2>2, <2>3, LoadWraps, ShiftWraps DEF Shrunk
<1>5. QED
  BY <1>3, <1>4 DEF ReadAhead, left

-----------------------------------------------------------------------------
(* The calls.                                                              *)

\* What a write leaves is a good buffer with the new items behind the old.
LEMMA GrownContents ==
    ASSUME BufferOK, UNCHANGED readPos, NEW k \in Nat, NEW s \in [1 .. k -> Data],
           NEW n \in 0 .. k, Appended(s, n), Grown(n)
    PROVE  BufferOK' /\ contents' = contents \o SubSeq(s, 1, n)
<1> DEFINE t == SubSeq(s, 1, n)
<1>1. BufferOK'
  BY DEF BufferOK, Appended, Grown
<1>2. size \in Nat /\ size' = size + n /\ n \in Nat
  BY SizeType, BufferAssumption DEF Grown
<1>3. ContentsOK /\ ContentsOK'
  BY <1>1, ContentsType, PTL
<1>4. t \in Seq(Data) /\ Len(t) = n /\ \A i \in 1 .. n : t[i] = s[i]
  <2>1. \A i \in 1 .. n : s[i] \in Data
    BY <1>2
  <2>2. /\ t \in Seq(Data) /\ Len(t) = (IF 1 <= n THEN n - 1 + 1 ELSE 0)
        /\ \A i \in 1 .. n - 1 + 1 : t[i] = s[1 + i - 1]
    BY <1>2, <2>1, SubSeqProperties
  <2>3. \A i \in 1 .. n : i \in 1 .. n - 1 + 1 /\ 1 + i - 1 = i
    BY <1>2
  <2>4. (IF 1 <= n THEN n - 1 + 1 ELSE 0) = n
    BY <1>2
  <2>5. QED
    BY <2>2, <2>3, <2>4
<1> HIDE DEF t
<1>5. /\ contents \o t \in Seq(Data) /\ Len(contents \o t) = size + n
      /\ \A i \in 1 .. size + n : (contents \o t)[i] =
            IF i <= size THEN contents[i] ELSE t[i - size]
  <2>1. contents \in Seq(Data) /\ Len(contents) = size
    BY <1>3 DEF ContentsOK
  <2>2. t \in Seq(Data) /\ Len(t) = n
    BY <1>4
  <2> HIDE DEF contents
  <2>3. QED
    BY <2>1, <2>2, ConcatProperties
<1>6. ASSUME NEW i \in 1 .. size + n
      PROVE  contents'[i] = (contents \o t)[i]
  <2>1. contents'[i] = buf'[At(i)]
    BY <1>2, <1>3 DEF ContentsOK, At
  <2>2. CASE i <= size
    <3>1. i \in 1 .. size
      BY <1>2, <2>2
    <3>2. contents[i] = buf[At(i)] /\ buf'[At(i)] = buf[At(i)]
      BY <1>3, <3>1 DEF ContentsOK, Appended
    <3>3. QED
      BY <1>5, <2>1, <2>2, <3>2
  <2>3. CASE ~(i <= size)
    <3>1. i - size \in 1 .. n /\ size + (i - size) = i
      BY <1>2, <2>3
    <3>2. buf'[At(i)] = s[i - size] /\ t[i - size] = s[i - size]
      BY <1>4, <3>1 DEF Appended
    <3>3. QED
      BY <1>5, <2>1, <2>3, <3>2
  <2>4. QED
    BY <2>2, <2>3
<1>7. contents' \in Seq(Data) /\ Len(contents') = size + n
  BY <1>2, <1>3 DEF ContentsOK
<1>8. contents' = contents \o t
  BY <1>5, <1>6, <1>7, SeqEqual
<1>9. QED
  BY <1>1, <1>8 DEF t

\* What a read hands out is the oldest items, and the others are left.
LEMMA ShrunkContents ==
    ASSUME BufferOK, UNCHANGED <<buf, writePos>>, NEW n \in 0 .. size,
           Copied(n), Shrunk(n), isFull' = FALSE, isEmpty' = (readPos' = writePos)
    PROVE  /\ BufferOK'
           /\ got' = SubSeq(contents, 1, n)
           /\ contents' = SubSeq(contents, n + 1, Len(contents))
<1>1. BufferOK'
  BY DEF BufferOK, Shrunk
<1>2. size \in Nat /\ size' = size - n /\ n \in Nat /\ n <= size /\ size <= Size
  BY SizeType, BufferAssumption DEF Shrunk
<1>3. ContentsOK /\ ContentsOK'
  BY <1>1, ContentsType, PTL
<1>4. contents \in Seq(Data) /\ Len(contents) = size
  BY <1>3 DEF ContentsOK
<1>5. \A i \in 1 .. size : contents[i] \in Data
  BY <1>4, LenProperties
<1>6. got' = SubSeq(contents, 1, n)
  <2> DEFINE t == SubSeq(contents, 1, n)
  <2>1. /\ t \in Seq(Data) /\ Len(t) = (IF 1 <= n THEN n - 1 + 1 ELSE 0)
        /\ \A i \in 1 .. n - 1 + 1 : t[i] = contents[1 + i - 1]
    BY <1>2, <1>5, SubSeqProperties
  <2> HIDE DEF t
  <2>2. Len(t) = n /\ \A i \in 1 .. n : t[i] = contents[i]
    BY <1>2, <2>1
  <2>3. \A i \in 1 .. n : got'[i] = contents[i]
    BY <1>2, <1>3 DEF ContentsOK, Copied
  <2>4. \A i \in 1 .. n : got'[i] \in Data
    BY <1>2, <1>5, <2>3
  <2>5. got' \in Seq(Data)
    BY <1>2, <2>4, SeqDef DEF Copied
  <2>6. Len(got') = n
    BY <1>2, <2>5, LenProperties DEF Copied
  <2>7. got' = t
    BY <2>1, <2>2, <2>3, <2>5, <2>6, SeqEqual
  <2>8. QED
    BY <2>7 DEF t
<1>7. contents' = SubSeq(contents, n + 1, Len(contents))
  <2> DEFINE t == SubSeq(contents, n + 1, size)
  <2>1. /\ t \in Seq(Data) /\ Len(t) = (IF n + 1 <= size THEN size - (n + 1) + 1 ELSE 0)
        /\ \A i \in 1 .. size - (n + 1) + 1 : t[i] = contents[n + 1 + i - 1]
    BY <1>2, <1>5, SubSeqProperties
  <2> HIDE DEF t
  <2>2. Len(t) = size - n /\ \A i \in 1 .. size - n : t[i] = contents[n + i]
    BY <1>2, <2>1
  <2>3. ASSUME NEW i \in 1 .. size - n
        PROVE  contents'[i] = t[i]
    <3>1. n + i \in 1 .. size
      BY <1>2
    <3>2. contents'[i] = buf'[At(i)'] /\ At(i)' = At(n + i)
      BY <1>2, <1>3 DEF ContentsOK, Shrunk
    <3>3. contents[n + i] = buf[At(n + i)]
      BY <1>3, <3>1 DEF ContentsOK
    <3>4. QED
      BY <2>2, <3>2, <3>3
  <2>4. contents' \in Seq(Data) /\ Len(contents') = size - n
    BY <1>2, <1>3 DEF ContentsOK
  <2>5. contents' = t
    BY <2>1, <2>2, <2>3, <2>4, SeqEqual
  <2>6. QED
    BY <1>4, <2>5 DEF t
<1>8. QED
  BY <1>1, <1>6, <1>7

\* write keeps the buffer sound and puts what fits into the queue.
LEMMA WriteStep ==
    ASSUME BufferOK, NEW k \in Nat, NEW s \in [1 .. k -> Data], write(s)
    PROVE  BufferOK' /\ Queue!Put(s)
<1> DEFINE n == Queue!Least(k, Size - Len(contents))
<1>1. s \in Seq(Data) /\ Len(s) = k
  <2>1. s \in Seq(Data)
    BY SeqDef
  <2>2. QED
    BY <2>1, LenProperties
<1>2. Len(contents) = size /\ contents \in Seq(Data) /\ size \in 0 .. Size
  BY ContentsType, SizeType DEF ContentsOK
<1>3. n = Room(k) /\ Room(k) \in 0 .. k
  BY <1>2, BufferAssumption DEF Room, Queue!Least
<1>4. UNCHANGED readPos /\ got' = <<>>
  BY DEF write
<1>5. CASE (Len(s) = 0 \/ isFull) /\ returned' = 0 /\ UNCHANGED <<buf, writePos, isEmpty, isFull>>
  <2>1. BufferOK'
    BY <1>4, <1>5 DEF BufferOK
  <2>2. Room(k) = 0
    <3>1. CASE k = 0
      BY <1>2, <3>1, BufferAssumption DEF Room
    <3>2. CASE isFull
      <4>1. size = Size
        BY <3>2 DEF size, BufferOK
      <4>2. QED
        BY <1>2, <4>1, BufferAssumption DEF Room
    <3>3. QED
      BY <1>1, <1>5, <3>1, <3>2
  <2>3. contents' = contents
    BY <1>4, <1>5 DEF contents, size, At
  <2>4. contents \o SubSeq(s, 1, 0) = contents
    BY <1>2, SubSeqEmpty, ConcatEmptySeq
  <2>5. QED
    BY <1>1, <1>2, <1>3, <1>4, <1>5, <2>1, <2>2, <2>3, <2>4 DEF Queue!Put
<1>6. CASE /\ Len(s) > 0 /\ ~isFull /\ isEmpty' = FALSE
           /\ WriteEmpty(s) \/ WriteAhead(s) \/ WriteBehind(s)
  <2>1. k \in Nat \ {0}
    BY <1>1, <1>6
  <2>2. Appended(s, Room(k)) /\ Grown(Room(k)) /\ returned' = Room(k)
    BY <1>1, <1>4, <1>6, <2>1, WriteEmptyStep, WriteAheadStep, WriteBehindStep
  <2>3. BufferOK' /\ contents' = contents \o SubSeq(s, 1, Room(k))
    BY <1>3, <1>4, <2>2, GrownContents
  <2>4. QED
    BY <1>1, <1>3, <1>4, <2>2, <2>3 DEF Queue!Put
<1>7. QED
  BY <1>5, <1>6 DEF write

\* read keeps the buffer sound and takes the oldest from the queue.
LEMMA ReadStep ==
    ASSUME BufferOK, NEW k \in Nat, read(k)
    PROVE  BufferOK' /\ Queue!Take(k)
<1> DEFINE n == Queue!Least(k, Len(contents))
<1>1. Len(contents) = size /\ contents \in Seq(Data) /\ size \in 0 .. Size
  BY ContentsType, SizeType DEF ContentsOK
<1>2. n = Stock(k) /\ Stock(k) \in 0 .. size
  BY <1>1, BufferAssumption DEF Stock, Queue!Least
<1>3. UNCHANGED <<buf, writePos>>
  BY DEF read
<1>4. CASE (k = 0 \/ isEmpty) /\ returned' = 0 /\ got' = <<>> /\ UNCHANGED <<readPos, isEmpty, isFull>>
  <2>1. BufferOK'
    BY <1>3, <1>4 DEF BufferOK
  <2>2. Stock(k) = 0
    <3>1. CASE k = 0
      BY <1>1, <3>1, BufferAssumption DEF Stock
    <3>2. CASE isEmpty
      <4>1. size = 0
        BY <3>2 DEF size
      <4>2. QED
        BY <4>1 DEF Stock
    <3>3. QED
      BY <1>4, <3>1, <3>2
  <2>3. contents' = contents
    BY <1>3, <1>4 DEF contents, size, At
  <2>4. /\ SubSeq(contents, 1, 0) = <<>>
        /\ SubSeq(contents, 0 + 1, Len(contents)) = contents
    BY <1>1, SubSeqEmpty, SubSeqFull
  <2>5. QED
    BY <1>1, <1>2, <1>4, <2>1, <2>2, <2>3, <2>4 DEF Queue!Take
<1>5. CASE /\ k > 0 /\ ~isEmpty /\ isFull' = FALSE
           /\ ReadFull(k) \/ ReadBehind(k) \/ ReadAhead(k)
           /\ isEmpty' = (readPos' = writePos)
  <2>1. k \in Nat \ {0}
    BY <1>5
  <2>2. Copied(Stock(k)) /\ Shrunk(Stock(k)) /\ returned' = Stock(k)
    BY <1>3, <1>5, <2>1, ReadFullStep, ReadBehindStep, ReadAheadStep
  <2>3. /\ BufferOK' /\ got' = SubSeq(contents, 1, Stock(k))
        /\ contents' = SubSeq(contents, Stock(k) + 1, Len(contents))
    <3>1. isEmpty' = (readPos' = writePos')
      BY <1>3, <1>5
    <3>2. QED
      BY <1>2, <1>3, <1>5, <2>2, <3>1, ShrunkContents
  <2>4. QED
    BY <1>2, <2>2, <2>3 DEF Queue!Take
<1>6. QED
  BY <1>4, <1>5 DEF read

\* clear empties both.
LEMMA ClearStep == BufferOK /\ clear => BufferOK' /\ Queue!Empty
<1> SUFFICES ASSUME BufferOK, clear
             PROVE  BufferOK' /\ Queue!Empty
  OBVIOUS
<1>1. BufferOK'
  <2>1. readPos' \in Positions
    BY BufferAssumption DEF clear, Positions
  <2>2. QED
    BY <2>1 DEF clear, BufferOK
<1>2. Len(contents') = 0 /\ contents' \in Seq(Data)
  <2>1. ContentsOK'
    BY <1>1, ContentsType, PTL
  <2>2. size' = 0
    BY DEF clear, size
  <2>3. QED
    BY <2>1, <2>2 DEF ContentsOK
<1>3. contents' = <<>>
  BY <1>2, EmptySeq
<1>4. QED
  BY <1>1, <1>3 DEF clear, Queue!Empty

-----------------------------------------------------------------------------
(* The theorems.                                                           *)

\* A new buffer is an empty queue.
LEMMA BufferInit == Init => BufferOK /\ Queue!QInit
<1> SUFFICES ASSUME Init
             PROVE  BufferOK /\ Queue!QInit
  OBVIOUS
<1>1. BufferOK
  <2>1. readPos \in Positions
    BY BufferAssumption DEF Init, Positions
  <2>2. QED
    BY <2>1 DEF Init, BufferOK
<1>2. Len(contents) = 0 /\ contents \in Seq(Data)
  <2>1. ContentsOK
    BY <1>1, ContentsType
  <2>2. size = 0
    BY DEF Init, size
  <2>3. QED
    BY <2>1, <2>2 DEF ContentsOK
<1>3. contents = <<>>
  BY <1>2, EmptySeq
<1>4. QED
  BY <1>1, <1>3 DEF Init, Queue!QInit

\* Every step keeps the buffer sound and is one of the queue.
LEMMA BufferStep == BufferOK /\ [Next]_bvars => BufferOK' /\ [Queue!QNext]_(Queue!qvars)
<1> SUFFICES ASSUME BufferOK, [Next]_bvars
             PROVE  BufferOK' /\ [Queue!QNext]_(Queue!qvars)
  OBVIOUS
<1>1. ASSUME NEW n \in 0 .. MaxCount, NEW s \in [1 .. n -> Data], write(s)
      PROVE  BufferOK' /\ Queue!QNext
  BY <1>1, WriteStep, BufferAssumption DEF Queue!QNext
<1>2. ASSUME NEW count \in 0 .. MaxCount, read(count)
      PROVE  BufferOK' /\ Queue!QNext
  BY <1>2, ReadStep, BufferAssumption DEF Queue!QNext
<1>3. CASE clear
  BY <1>3, ClearStep DEF Queue!QNext
<1>4. CASE UNCHANGED bvars
  <2>1. BufferOK'
    BY <1>4 DEF bvars, BufferOK
  <2>2. contents' = contents
    BY <1>4 DEF bvars, contents, size, At
  <2>3. QED
    BY <1>4, <2>1, <2>2 DEF bvars, Queue!qvars
<1>5. QED
  BY <1>1, <1>2, <1>3, <1>4 DEF Next

\* The positions of the buffer stay inside the array, and the two flags tell
\* the empty from the full buffer, whatever is written and read.
THEOREM BufferSafe == Spec => []BufferOK
<1>1. Init => BufferOK
  BY BufferInit
<1>2. BufferOK /\ [Next]_bvars => BufferOK'
  BY BufferStep
<1>3. QED
  BY <1>1, <1>2, PTL DEF Spec

\* Whatever its size, the buffer is a bounded first-in first-out queue.
THEOREM BufferImplementsQueue == Spec => ImplementsQueue
<1>1. Init => Queue!QInit
  BY BufferInit
<1>2. BufferOK /\ [Next]_bvars => [Queue!QNext]_(Queue!qvars)
  BY BufferStep
<1>3. QED
  BY <1>1, <1>2, BufferSafe, PTL DEF Spec, ImplementsQueue, Queue!QSpec

=============================================================================
