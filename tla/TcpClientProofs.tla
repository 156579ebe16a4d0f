--------------------------- MODULE TcpClientProofs ---------------------------
(***************************************************************************)
(* Proof that the threads that share the write buffer keep the order of    *)
(* their messages and, as long as each message finds room at once, keep    *)
(* them whole.                                                             *)
(***************************************************************************)
EXTENDS TcpClient, TLAPS

Unit == [by : Senders, no : Nat, part : {1, 2}]
Second(t, k) == <<[by |-> t, no |-> k, part |-> 2]>>

Before(u, v) == u.no < v.no \/ (u.no = v.no /\ u.part < v.part)

\* The units of s are in order, and come before those of r.
Ordered(s) == \A i, j \in DOMAIN s : i < j /\ s[i].by = s[j].by => Before(s[i], s[j])
Precede(s, r) == \A i \in DOMAIN s, j \in DOMAIN r : s[i].by = r[j].by => Before(s[i], r[j])

\* Every unit is next to the other of its message.
Paired(s) ==
    \A i \in DOMAIN s :
        IF s[i].part = 1
        THEN i < Len(s) /\ s[i + 1] = [s[i] EXCEPT !.part = 2]
        ELSE i > 1 /\ s[i - 1] = [s[i] EXCEPT !.part = 1]

Begun(s) == \A i \in DOMAIN s : s[i].no <= count[s[i].by]

QueueTypes ==
    /\ stream \in Seq(Unit)
    /\ buffer \in Seq(Unit)
    /\ Len(buffer) <= Capacity
    /\ count \in [Senders -> Nat]
    /\ rest \in [Senders -> Seq(Unit)]

\* What a thread has still to write is a message or its second part.
RestKnown ==
    \A t \in Senders : rest[t] # <<>> =>
        \E k \in 0 .. count[t] : rest[t] \in {Message(t, k), Second(t, k)}

InOrder ==
    /\ Ordered(stream) /\ Ordered(buffer) /\ Precede(stream, buffer)
    /\ \A t \in Senders : Precede(stream, rest[t]) /\ Precede(buffer, rest[t])
    /\ Begun(stream) /\ Begun(buffer)

InPairs ==
    ~parted =>
        /\ Paired(stream) /\ Paired(buffer)
        /\ \A t \in Senders : Len(rest[t]) \in {0, 2}

IInv == QueueTypes /\ RestKnown /\ InOrder /\ InPairs

-----------------------------------------------------------------------------
(* Sequences of units.                                                     *)

\* The fields of a unit.
LEMMA UnitFields ==
    ASSUME NEW s \in Seq(Unit), NEW i \in DOMAIN s
    PROVE  s[i] \in Unit /\ s[i].by \in Senders /\ s[i].no \in Nat /\ s[i].part \in {1, 2}
<1>1. s[i] \in Unit
  OBVIOUS
<1>2. QED
  BY <1>1 DEF Unit

\* What a concatenation is made of.
LEMMA ConcatFacts ==
    ASSUME NEW s \in Seq(Unit), NEW r \in Seq(Unit)
    PROVE  /\ s \o r \in Seq(Unit)
           /\ Len(s \o r) = Len(s) + Len(r)
           /\ \A i \in DOMAIN (s \o r) :
                 \/ i \in DOMAIN s /\ (s \o r)[i] = s[i]
                 \/ i - Len(s) \in DOMAIN r /\ (s \o r)[i] = r[i - Len(s)] /\ i > Len(s)
OBVIOUS

\* Units in order before later ones in order are in order.
LEMMA OrderedConcat ==
    ASSUME NEW s \in Seq(Unit), NEW r \in Seq(Unit),
           Ordered(s), Ordered(r), Precede(s, r)
    PROVE  Ordered(s \o r)
<1> DEFINE q == s \o r
<1>1. SUFFICES ASSUME NEW i \in DOMAIN q, NEW j \in DOMAIN q, i < j, q[i].by = q[j].by
               PROVE  Before(q[i], q[j])
  BY DEF Ordered
<1>2. Len(s) \in Nat /\ DOMAIN s = 1 .. Len(s) /\ i \in Nat /\ j \in Nat
  OBVIOUS
<1>3. CASE j \in DOMAIN s /\ q[j] = s[j]
  <2>1. i \in DOMAIN s /\ q[i] = s[i]
    BY <1>1, <1>2, <1>3, ConcatFacts
  <2>2. QED
    BY <1>1, <1>3, <2>1 DEF Ordered
<1>4. CASE j - Len(s) \in DOMAIN r /\ q[j] = r[j - Len(s)]
  <2>1. CASE i \in DOMAIN s /\ q[i] = s[i]
    BY <1>1, <1>4, <2>1 DEF Precede
  <2>2. CASE i - Len(s) \in DOMAIN r /\ q[i] = r[i - Len(s)]
    <3>1. i - Len(s) < j - Len(s)
      BY <1>1, <1>2
    <3>2. QED
      BY <1>1, <1>4, <2>2, <3>1 DEF Ordered
  <2>3. QED
    BY <2>1, <2>2, ConcatFacts
<1>5. QED
  BY <1>3, <1>4, ConcatFacts

\* What comes before or after two sequences does so of both together.
LEMMA PrecedeConcat ==
    ASSUME NEW s \in Seq(Unit), NEW r \in Seq(Unit), NEW q \in Seq(Unit)
    PROVE  /\ Precede(s, q) /\ Precede(r, q) => Precede(s \o r, q)
           /\ Precede(q, s) /\ Precede(q, r) => Precede(q, s \o r)
<1>1. ASSUME Precede(s, q), Precede(r, q)
      PROVE  Precede(s \o r, q)
  BY <1>1, ConcatFacts DEF Precede
<1>2. ASSUME Precede(q, s), Precede(q, r)
      PROVE  Precede(q, s \o r)
  BY <1>2, ConcatFacts DEF Precede
<1>3. QED
  BY <1>1, <1>2

\* Whole messages before whole messages are whole messages.
LEMMA PairedConcat ==
    ASSUME NEW s \in Seq(Unit), NEW r \in Seq(Unit), Paired(s), Paired(r)
    PROVE  Paired(s \o r)
<1> DEFINE q == s \o r
<1>1. SUFFICES ASSUME NEW i \in DOMAIN q
               PROVE  IF q[i].part = 1
                      THEN i < Len(q) /\ q[i + 1] = [q[i] EXCEPT !.part = 2]
                      ELSE i > 1 /\ q[i - 1] = [q[i] EXCEPT !.part = 1]
  BY DEF Paired
<1>2. /\ Len(s) \in Nat /\ Len(r) \in Nat /\ i \in Nat
      /\ DOMAIN s = 1 .. Len(s) /\ DOMAIN r = 1 .. Len(r)
      /\ Len(q) = Len(s) + Len(r)
  BY ConcatFacts
<1>3. CASE i \in DOMAIN s /\ q[i] = s[i]
  <2>1. CASE s[i].part = 1
    <3>1. i < Len(s) /\ s[i + 1] = [s[i] EXCEPT !.part = 2]
      BY <1>3, <2>1 DEF Paired
    <3>2. q[i + 1] = s[i + 1]
      BY <1>2, <1>3, <3>1
    <3>3. QED
      BY <1>2, <1>3, <2>1, <3>1, <3>2
  <2>2. CASE s[i].part # 1
    <3>1. i > 1 /\ s[i - 1] = [s[i] EXCEPT !.part = 1]
      BY <1>3, <2>2 DEF Paired
    <3>2. q[i - 1] = s[i - 1]
      BY <1>2, <1>3, <3>1
    <3>3. QED
      BY <1>3, <2>2, <3>1, <3>2
  <2>3. QED
    BY <2>1, <2>2
<1>4. CASE i - Len(s) \in DOMAIN r /\ q[i] = r[i - Len(s)] /\ i > Len(s)
  <2> DEFINE k == i - Len(s)
  <2>1. CASE r[k].part = 1
    <3>1. k < Len(r) /\ r[k + 1] = [r[k] EXCEPT !.part = 2]
      BY <1>4, <2>1 DEF Paired
    <3>2. q[i + 1] = r[k + 1] /\ i < Len(q)
      BY <1>2, <1>4, <3>1
    <3>3. QED
      BY <1>4, <2>1, <3>1, <3>2
  <2>2. CASE r[k].part # 1
    <3>1. k > 1 /\ r[k - 1] = [r[k] EXCEPT !.part = 1]
      BY <1>4, <2>2 DEF Paired
    <3>2. q[i - 1] = r[k - 1] /\ i > 1
      BY <1>2, <1>4, <3>1
    <3>3. QED
      BY <1>4, <2>2, <3>1, <3>2
  <2>3. QED
    BY <2>1, <2>2
<1>5. QED
  BY <1>3, <1>4, ConcatFacts

\* A message and the second part of it.
LEMMA MessageFacts ==
    ASSUME NEW t \in Senders, NEW k \in Nat
    PROVE  /\ Message(t, k) \in Seq(Unit) /\ Len(Message(t, k)) = 2
           /\ Second(t, k) \in Seq(Unit) /\ Len(Second(t, k)) = 1
           /\ Message(t, k)[1] = [by |-> t, no |-> k, part |-> 1]
           /\ Message(t, k)[2] = [by |-> t, no |-> k, part |-> 2]
           /\ Second(t, k)[1] = [by |-> t, no |-> k, part |-> 2]
BY DEF Message, Second, Unit

\* A message is in order and whole.
LEMMA MessageWhole ==
    ASSUME NEW t \in Senders, NEW k \in Nat
    PROVE  Ordered(Message(t, k)) /\ Paired(Message(t, k)) /\ Ordered(Second(t, k))
<1> DEFINE m == Message(t, k)
<1>1. /\ DOMAIN m = {1, 2} /\ Len(m) = 2
      /\ m[1] = [by |-> t, no |-> k, part |-> 1]
      /\ m[2] = [by |-> t, no |-> k, part |-> 2]
  BY MessageFacts
<1>2. Ordered(m)
  <2>1. ASSUME NEW i \in {1, 2}, NEW j \in {1, 2}, i < j
        PROVE  Before(m[i], m[j])
    <3>1. i = 1 /\ j = 2
      BY <2>1
    <3>2. QED
      BY <1>1, <3>1 DEF Before
  <2>2. QED
    BY <1>1, <2>1 DEF Ordered
<1>3. Paired(m)
  BY <1>1 DEF Paired
<1>4. DOMAIN Second(t, k) = {1}
  BY DEF Second
<1>5. Ordered(Second(t, k))
  BY <1>4 DEF Ordered
<1>6. QED
  BY <1>2, <1>3, <1>5

-----------------------------------------------------------------------------
(* The message a thread writes, cut where the buffer is full.              *)

\* A message that is cut is in order, as is what is left of it.
LEMMA CutFacts ==
    ASSUME NEW t \in Senders, NEW k \in Nat,
           NEW units \in {Message(t, k), Second(t, k)}, NEW n \in 0 .. Len(units)
    PROVE  LET head == SubSeq(units, 1, n)
               tail == SubSeq(units, n + 1, Len(units))
           IN  /\ head \in Seq(Unit) /\ Len(head) = n
               /\ tail \in Seq(Unit)
               /\ Ordered(head) /\ Precede(head, tail)
               /\ \A i \in DOMAIN head : \E j \in DOMAIN units : head[i] = units[j]
               /\ \A i \in DOMAIN tail : \E j \in DOMAIN units : tail[i] = units[j]
               /\ tail # <<>> => tail \in {Message(t, k), Second(t, k)}
               /\ n = Len(units) => head = units /\ tail = <<>>
<1> DEFINE head == SubSeq(units, 1, n)
           tail == SubSeq(units, n + 1, Len(units))
<1>1. /\ units \in Seq(Unit) /\ Len(units) \in {1, 2}
      /\ units = Second(t, k) => Len(units) = 1
      /\ units = Message(t, k) => Len(units) = 2
  BY MessageFacts
<1>0. n \in Nat /\ Len(units) \in Nat /\ n <= Len(units)
  BY <1>1
<1>2. /\ head \in Seq(Unit) /\ Len(head) = n
      /\ tail \in Seq(Unit) /\ Len(tail) = Len(units) - n
      /\ \A i \in 1 .. n : head[i] = units[i]
      /\ \A i \in 1 .. Len(units) - n : tail[i] = units[n + i]
  BY <1>1
<1>3. DOMAIN head = 1 .. n /\ DOMAIN tail = 1 .. Len(units) - n /\ DOMAIN units = 1 .. Len(units)
  BY <1>1, <1>2
<1>4. /\ \A i \in DOMAIN head : \E j \in DOMAIN units : head[i] = units[j]
      /\ \A i \in DOMAIN tail : \E j \in DOMAIN units : tail[i] = units[j]
  <2>1. ASSUME NEW i \in DOMAIN head PROVE i \in DOMAIN units /\ head[i] = units[i]
    <3>1. i \in 1 .. n
      BY <1>3
    <3>2. i \in 1 .. Len(units)
      BY <1>0, <3>1
    <3>3. QED
      BY <1>2, <1>3, <3>1, <3>2
  <2>2. ASSUME NEW i \in DOMAIN tail PROVE n + i \in DOMAIN units /\ tail[i] = units[n + i]
    <3>1. i \in 1 .. Len(units) - n
      BY <1>3
    <3>2. n + i \in 1 .. Len(units)
      BY <1>0, <3>1
    <3>3. QED
      BY <1>2, <1>3, <3>1, <3>2
  <2>3. QED
    BY <2>1, <2>2
<1>5. Ordered(units)
  BY MessageWhole
<1>6. Ordered(head)
  <2>1. ASSUME NEW i \in DOMAIN head PROVE i \in Nat /\ i \in DOMAIN units /\ head[i] = units[i]
    <3>1. i \in 1 .. n /\ i \in Nat
      BY <1>3
    <3>2. i \in 1 .. Len(units)
      BY <1>0, <3>1
    <3>3. QED
      BY <1>2, <1>3, <3>1, <3>2
  <2>2. QED
    BY <1>5, <2>1 DEF Ordered
<1>7. Precede(head, tail)
  <2>1. SUFFICES ASSUME NEW i \in DOMAIN head, NEW j \in DOMAIN tail, head[i].by = tail[j].by
                 PROVE  Before(head[i], tail[j])
    BY DEF Precede
  <2>2. /\ i \in DOMAIN units /\ n + j \in DOMAIN units /\ i < n + j
        /\ head[i] = units[i] /\ tail[j] = units[n + j]
    <3>1. i \in 1 .. n /\ j \in 1 .. Len(units) - n
      BY <1>3
    <3>2. i \in 1 .. Len(units) /\ n + j \in 1 .. Len(units) /\ i < n + j
      BY <1>0, <3>1
    <3>3. QED
      BY <1>2, <1>3, <3>1, <3>2
  <2>3. QED
    BY <1>5, <2>1, <2>2 DEF Ordered
<1>8. CASE n = 0
  <2>1. tail = units
    BY <1>1, <1>2, <1>8
  <2>2. QED
    BY <1>1, <1>2, <1>4, <1>6, <1>7, <1>8, <2>1
<1>9. CASE n = Len(units)
  <2>1. head = units /\ tail = <<>>
    BY <1>1, <1>2, <1>9
  <2>2. QED
    BY <1>1, <1>2, <1>4, <1>6, <1>7, <1>9, <2>1
<1>10. CASE n = 1 /\ Len(units) = 2
  <2>1. units = Message(t, k)
    BY <1>1, <1>10
  <2>2. tail = Second(t, k)
    <3>1. Len(tail) = 1 /\ tail[1] = Message(t, k)[2]
      BY <1>2, <1>10, <2>1
    <3>2. tail[1] = Second(t, k)[1] /\ Len(Second(t, k)) = 1 /\ Second(t, k) \in Seq(Unit)
      BY <3>1, MessageFacts
    <3>3. QED
      BY <1>2, <3>1, <3>2
  <2>3. QED
    BY <1>2, <1>4, <1>6, <1>7, <1>10, <2>2
<1>11. n = 0 \/ n = Len(units) \/ (n = 1 /\ Len(units) = 2)
  <2>1. Len(units) = 1 \/ Len(units) = 2
    BY <1>1
  <2>2. ASSUME NEW m \in Nat, n <= m, m = 1 \/ m = 2
        PROVE  n = 0 \/ n = m \/ (n = 1 /\ m = 2)
    BY <1>0, <2>2
  <2>3. QED
    BY <1>0, <2>1, <2>2
<1>12. QED
  BY <1>8, <1>9, <1>10, <1>11

\* The units of a message carry its sender and number.
LEMMA UnitsOf ==
    ASSUME NEW t \in Senders, NEW k \in Nat,
           NEW units \in {Message(t, k), Second(t, k)}, NEW i \in DOMAIN units
    PROVE  units[i].by = t /\ units[i].no = k
<1>1. CASE units = Message(t, k)
  BY <1>1 DEF Message
<1>2. CASE units = Second(t, k)
  BY <1>2 DEF Second
<1>3. QED
  BY <1>1, <1>2

-----------------------------------------------------------------------------
(* The steps.                                                              *)

\* What was begun stays so, as threads begin more.
LEMMA BegunGrows ==
    ASSUME \A u \in Senders : count[u] \in Nat /\ count'[u] \in Nat /\ count[u] <= count'[u],
           NEW s \in Seq(Unit), Begun(s), NEW i \in DOMAIN s
    PROVE  s[i].no <= count'[s[i].by]
<1>1. s[i].by \in Senders /\ s[i].no \in Nat
  BY UnitFields
<1>2. s[i].no <= count[s[i].by]
  BY DEF Begun
<1>3. QED
  BY <1>1, <1>2

\* One turn of Send, with the message or what is left of it.
LEMMA WriteKeeps ==
    ASSUME IInv, NEW t \in Senders, NEW k \in Nat,
           NEW units \in {Message(t, k), Second(t, k)},
           count' \in [Senders -> Nat], \A u \in Senders : count[u] <= count'[u],
           k <= count'[t],
           Precede(stream, units), Precede(buffer, units),
           ~parted => units = Message(t, k),
           Write(t, units), stream' = stream
    PROVE  IInv'
<1> DEFINE n == Least(Len(units), Capacity - Len(buffer))
           head == SubSeq(units, 1, n)
           tail == SubSeq(units, n + 1, Len(units))
<1>1. n \in 0 .. Len(units) /\ Len(buffer) + n <= Capacity
  <2>1. Len(buffer) \in Nat /\ Len(buffer) <= Capacity /\ Capacity \in Nat
    BY TcpClientAssumption DEF IInv, QueueTypes
  <2>2. Len(units) \in Nat
    BY MessageFacts
  <2>3. QED
    BY <2>1, <2>2 DEF Least
<1>2. /\ head \in Seq(Unit) /\ Len(head) = n
      /\ tail \in Seq(Unit)
      /\ Ordered(head) /\ Precede(head, tail)
      /\ \A i \in DOMAIN head : \E j \in DOMAIN units : head[i] = units[j]
      /\ \A i \in DOMAIN tail : \E j \in DOMAIN units : tail[i] = units[j]
      /\ tail # <<>> => tail \in {Message(t, k), Second(t, k)}
      /\ n = Len(units) => head = units /\ tail = <<>>
  BY <1>1, CutFacts
<1>3. /\ buffer' = buffer \o head
      /\ rest' = [rest EXCEPT ![t] = tail]
      /\ parted' = (parted \/ n < Len(units))
  BY DEF Write
<1> HIDE DEF n, head, tail
<1>4. stream \in Seq(Unit) /\ buffer \in Seq(Unit) /\ rest \in [Senders -> Seq(Unit)]
  BY DEF IInv, QueueTypes
<1>5. rest'[t] = tail /\ \A u \in Senders \ {t} : rest'[u] = rest[u]
  BY <1>3, <1>4
<1>6. QueueTypes'
  <2>1. buffer' \in Seq(Unit) /\ Len(buffer') = Len(buffer) + n
    BY <1>2, <1>3, <1>4, ConcatFacts
  <2>2. QED
    BY <1>1, <1>2, <1>3, <1>4, <2>1 DEF QueueTypes
<1>7. RestKnown'
  <2>1. SUFFICES ASSUME NEW u \in Senders, rest'[u] # <<>>
                 PROVE  \E m \in 0 .. count'[u] : rest'[u] \in {Message(u, m), Second(u, m)}
    BY DEF RestKnown
  <2>2. CASE u = t
    <3>1. k \in 0 .. count'[t]
      OBVIOUS
    <3>2. QED
      BY <1>2, <1>5, <2>1, <2>2, <3>1
  <2>3. CASE u # t
    <3>1. PICK m \in 0 .. count[u] : rest[u] \in {Message(u, m), Second(u, m)}
      BY <1>5, <2>1, <2>3 DEF IInv, RestKnown
    <3>2. m \in 0 .. count'[u]
      <4>1. count[u] \in Nat /\ count'[u] \in Nat /\ count[u] <= count'[u]
        BY DEF IInv, QueueTypes
      <4>2. QED
        BY <4>1
    <3>3. QED
      BY <1>5, <2>3, <3>1, <3>2
  <2>4. QED
    BY <2>2, <2>3
<1>8. Precede(stream, head) /\ Precede(stream, tail)
  BY <1>2 DEF Precede
<1>9. Precede(buffer, head) /\ Precede(buffer, tail)
  BY <1>2 DEF Precede
<1>10. InOrder'
  <2>1. Ordered(stream') /\ Ordered(buffer') /\ Precede(stream', buffer')
    BY <1>2, <1>3, <1>4, <1>8, <1>9, OrderedConcat, PrecedeConcat DEF IInv, InOrder
  <2>2. ASSUME NEW u \in Senders
        PROVE  Precede(stream', rest'[u]) /\ Precede(buffer', rest'[u])
    <3>1. CASE u = t
      BY <1>2, <1>3, <1>4, <1>5, <1>8, <1>9, <3>1, PrecedeConcat
    <3>2. CASE u # t
      <4>1. Precede(head, rest[u])
        <5>1. SUFFICES ASSUME NEW i \in DOMAIN head, NEW j \in DOMAIN rest[u]
                       PROVE  head[i].by # rest[u][j].by
          BY DEF Precede
        <5>2. head[i].by = t
          BY <1>2, UnitsOf
        <5>3. rest[u] # <<>>
          OBVIOUS
        <5>4. PICK m \in 0 .. count[u] : rest[u] \in {Message(u, m), Second(u, m)}
          BY <5>3 DEF IInv, RestKnown
        <5>5. m \in Nat
          BY DEF IInv, QueueTypes
        <5>6. rest[u][j].by = u
          BY <5>4, <5>5, UnitsOf
        <5>7. QED
          BY <3>2, <5>2, <5>6
      <4>2. Precede(stream, rest[u]) /\ Precede(buffer, rest[u]) /\ rest[u] \in Seq(Unit)
        BY <1>4 DEF IInv, InOrder
      <4>3. QED
        BY <1>2, <1>3, <1>4, <1>5, <3>2, <4>1, <4>2, PrecedeConcat
    <3>3. QED
      BY <3>1, <3>2
  <2>3. Begun(stream)' /\ Begun(buffer)'
    <3>1. \A u \in Senders : count[u] \in Nat /\ count'[u] \in Nat /\ count[u] <= count'[u]
      BY DEF IInv, QueueTypes
    <3>2. Begun(stream)'
      BY <1>4, <3>1, BegunGrows DEF IInv, InOrder, Begun
    <3>3. \A i \in DOMAIN head : head[i].no <= count'[head[i].by]
      BY <1>2, UnitsOf
    <3>4. \A i \in DOMAIN buffer : buffer[i].no <= count'[buffer[i].by]
      BY <1>4, <3>1, BegunGrows DEF IInv, InOrder
    <3>5. \A i \in DOMAIN (buffer \o head) :
             (buffer \o head)[i].no <= count'[(buffer \o head)[i].by]
      BY <1>2, <1>4, <3>3, <3>4, ConcatFacts
    <3>6. QED
      BY <1>3, <3>2, <3>5 DEF Begun
  <2>4. QED
    BY <2>1, <2>2, <2>3 DEF InOrder
<1>11. InPairs'
  <2>1. SUFFICES ASSUME ~parted'
                 PROVE  /\ Paired(stream) /\ Paired(buffer')
                        /\ \A u \in Senders : Len(rest'[u]) \in {0, 2}
    BY DEF InPairs
  <2>2. ~parted /\ n = Len(units)
    <3>1. Len(units) \in Nat
      BY MessageFacts
    <3>2. ~parted /\ ~(n < Len(units))
      BY <1>3, <2>1
    <3>3. n = Len(units)
      BY <1>1, <3>1, <3>2
    <3>4. QED
      BY <3>2, <3>3
  <2>3. head = Message(t, k) /\ tail = <<>>
    BY <1>2, <2>2
  <2>4. /\ Paired(stream) /\ Paired(buffer)
        /\ \A u \in Senders : Len(rest[u]) \in {0, 2}
    BY <2>2 DEF IInv, InPairs
  <2>5. Paired(buffer')
    BY <1>2, <1>3, <1>4, <2>3, <2>4, MessageWhole, PairedConcat
  <2>6. QED
    BY <1>5, <2>3, <2>4, <2>5
<1>12. QED
  BY <1>6, <1>7, <1>10, <1>11 DEF IInv

\* A message that its thread begins now comes after all it has sent.
LEMMA NextMessage ==
    ASSUME IInv, NEW t \in Senders
    PROVE  /\ count[t] + 1 \in Nat
           /\ Message(t, count[t] + 1) \in Seq(Unit)
           /\ Precede(stream, Message(t, count[t] + 1))
           /\ Precede(buffer, Message(t, count[t] + 1))
<1> DEFINE m == Message(t, count[t] + 1)
<1>1. count[t] \in Nat /\ count[t] + 1 \in Nat
  BY DEF IInv, QueueTypes
<1>2. m \in Seq(Unit)
  BY <1>1, MessageFacts
<1>3. \A i \in DOMAIN m : m[i].by = t /\ m[i].no = count[t] + 1
  BY <1>1, UnitsOf
<1> HIDE DEF m
<1>4. ASSUME NEW s \in Seq(Unit), Begun(s)
      PROVE  Precede(s, m)
  <2>1. SUFFICES ASSUME NEW i \in DOMAIN s, NEW j \in DOMAIN m, s[i].by = m[j].by
                 PROVE  s[i].no < m[j].no
    BY DEF Precede, Before
  <2>2. s[i].no \in Nat /\ s[i].no <= count[t]
    BY <1>3, <1>4, <2>1, UnitFields DEF Begun
  <2>3. QED
    BY <1>1, <1>3, <2>2
<1>5. stream \in Seq(Unit) /\ buffer \in Seq(Unit) /\ Begun(stream) /\ Begun(buffer)
  BY DEF IInv, QueueTypes, InOrder
<1>6. QED
  BY <1>1, <1>2, <1>4, <1>5 DEF m

\* The first turn of Send preserves the invariant.
LEMMA SendKeeps ==
    ASSUME IInv, NEW t \in Threads, Send(t)
    PROVE  IInv'
<1> DEFINE m == Message(t, count[t] + 1)
<1>1. t \in Senders
  BY DEF Senders
<1>2. /\ count' = [count EXCEPT ![t] = count[t] + 1]
      /\ rest' = [rest EXCEPT ![t] = m]
      /\ UNCHANGED <<buffer, parted, stream>>
  BY DEF Send
<1>3. /\ count[t] + 1 \in Nat /\ m \in Seq(Unit) /\ Len(m) = 2
      /\ Precede(stream, m) /\ Precede(buffer, m)
  BY <1>1, NextMessage, MessageFacts
<1>4. count \in [Senders -> Nat] /\ rest \in [Senders -> Seq(Unit)]
  BY DEF IInv, QueueTypes
<1>5. /\ count'[t] = count[t] + 1 /\ rest'[t] = m
      /\ \A u \in Senders \ {t} : count'[u] = count[u] /\ rest'[u] = rest[u]
      /\ \A u \in Senders : count[u] \in Nat /\ count'[u] \in Nat /\ count[u] <= count'[u]
  BY <1>1, <1>2, <1>4
<1>6. QueueTypes'
  BY <1>1, <1>2, <1>3 DEF IInv, QueueTypes
<1>7. RestKnown'
  <2>1. count[t] + 1 \in 0 .. count'[t]
    BY <1>3, <1>5
  <2>2. QED
    BY <1>5, <2>1 DEF IInv, RestKnown
<1> HIDE DEF m
<1>8. Begun(stream)' /\ Begun(buffer)'
  BY <1>2, <1>5, BegunGrows DEF IInv, QueueTypes, InOrder, Begun
<1>9. InOrder'
  BY <1>2, <1>3, <1>5, <1>8 DEF IInv, InOrder, Ordered, Precede
<1>10. InPairs'
  <2>1. SUFFICES ASSUME ~parted
                 PROVE  /\ Paired(stream) /\ Paired(buffer)
                        /\ \A u \in Senders : Len(rest'[u]) \in {0, 2}
    BY <1>2 DEF InPairs
  <2>2. QED
    BY <1>3, <1>5, <2>1 DEF IInv, InPairs
<1>11. QED
  BY <1>6, <1>7, <1>9, <1>10 DEF IInv

\* A later turn, with the rest of the message, preserves it.
LEMMA WriteRestKeeps ==
    ASSUME IInv, NEW t \in Senders, WriteRest(t)
    PROVE  IInv'
<1>1. PICK k \in 0 .. count[t] : rest[t] \in {Message(t, k), Second(t, k)}
  BY DEF IInv, RestKnown, WriteRest
<1>2. k \in Nat /\ k <= count[t]
  BY DEF IInv, QueueTypes
<1>3. ~parted => rest[t] = Message(t, k)
  <2>1. SUFFICES ASSUME ~parted, rest[t] = Second(t, k)
                 PROVE  FALSE
    BY <1>1
  <2>2. Len(rest[t]) = 1
    BY <1>2, <2>1, MessageFacts
  <2>3. Len(rest[t]) \in {0, 2}
    BY <2>1 DEF IInv, InPairs
  <2>4. QED
    BY <2>2, <2>3
<1>4. /\ count' = count /\ stream' = stream /\ Write(t, rest[t])
  BY DEF WriteRest
<1>5. count \in [Senders -> Nat]
  BY DEF IInv, QueueTypes
<1>6. \A u \in Senders : count[u] <= count'[u]
  BY <1>4, <1>5
<1>7. Precede(stream, rest[t]) /\ Precede(buffer, rest[t])
  BY DEF IInv, InOrder
<1>8. QED
  BY <1>1, <1>2, <1>3, <1>4, <1>5, <1>6, <1>7, WriteKeeps

\* A message given up half written preserves it.
LEMMA GiveUpKeeps ==
    ASSUME IInv, NEW t \in Senders, GiveUp(t)
    PROVE  IInv'
<1>1. /\ rest' = [rest EXCEPT ![t] = <<>>]
      /\ parted' = TRUE
      /\ UNCHANGED <<buffer, count, stream>>
  BY DEF GiveUp
<1>2. rest \in [Senders -> Seq(Unit)]
  BY DEF IInv, QueueTypes
<1>3. rest'[t] = <<>> /\ \A u \in Senders \ {t} : rest'[u] = rest[u]
  BY <1>1, <1>2
<1>4. QueueTypes' /\ RestKnown'
  BY <1>1, <1>3 DEF IInv, QueueTypes, RestKnown
<1>5. InOrder'
  <2>1. \A u \in Senders : Precede(stream, rest'[u]) /\ Precede(buffer, rest'[u])
    BY <1>3 DEF IInv, InOrder, Precede
  <2>2. QED
    BY <1>1, <2>1 DEF IInv, InOrder, Begun
<1>6. InPairs'
  BY <1>1 DEF InPairs
<1>7. QED
  BY <1>4, <1>5, <1>6 DEF IInv

\* The loop thread begins a message, and writes what fits.
LEMMA SendsItselfKeeps ==
    ASSUME IInv, SendsItself, stream' = stream
    PROVE  IInv'
<1> DEFINE m == Message(Loop, count[Loop] + 1)
<1>1. Loop \in Senders
  BY DEF Senders
<1>2. /\ count[Loop] + 1 \in Nat /\ m \in Seq(Unit)
      /\ Precede(stream, m) /\ Precede(buffer, m)
  BY <1>1, NextMessage
<1>3. count' = [count EXCEPT ![Loop] = count[Loop] + 1]
  BY DEF SendsItself
<1>4. /\ count' \in [Senders -> Nat]
      /\ \A u \in Senders : count[u] \in Nat /\ count'[u] \in Nat /\ count[u] <= count'[u]
      /\ count[Loop] + 1 <= count'[Loop]
  <2>1. count \in [Senders -> Nat]
    BY DEF IInv, QueueTypes
  <2>2. QED
    BY <1>1, <1>3, <2>1
<1>5. CASE asked
  <2>1. UNCHANGED <<buffer, rest, parted, stream>>
    BY <1>5 DEF SendsItself
  <2>2. QueueTypes'
    BY <1>4, <2>1 DEF IInv, QueueTypes
  <2>3. RestKnown'
    <3>1. SUFFICES ASSUME NEW u \in Senders, rest[u] # <<>>
                   PROVE  \E k \in 0 .. count'[u] : rest[u] \in {Message(u, k), Second(u, k)}
      BY <2>1 DEF RestKnown
    <3>2. PICK k \in 0 .. count[u] : rest[u] \in {Message(u, k), Second(u, k)}
      BY <3>1 DEF IInv, RestKnown
    <3>3. k \in 0 .. count'[u]
      BY <1>4
    <3>4. QED
      BY <3>2, <3>3
  <2>4. InOrder'
    <3>1. Begun(stream)' /\ Begun(buffer)'
      BY <1>4, <2>1, BegunGrows DEF IInv, QueueTypes, InOrder, Begun
    <3>2. QED
      BY <2>1, <3>1 DEF IInv, InOrder, Ordered, Precede
  <2>5. InPairs'
    BY <2>1 DEF IInv, InPairs
  <2>6. QED
    BY <2>2, <2>3, <2>4, <2>5 DEF IInv
<1>6. CASE ~asked
  <2>1. Write(Loop, m)
    BY <1>6 DEF SendsItself
  <2>2. QED
    BY <1>1, <1>2, <1>4, <2>1, WriteKeeps
<1>7. QED
  BY <1>5, <1>6

\* The buffer moves into the stream, or one of the two is emptied.
Moves ==
    /\ buffer' \in {buffer, <<>>}
    /\ stream' \in {stream, <<>>} \/ (stream' = stream \o buffer /\ buffer' = <<>>)
    /\ UNCHANGED <<rest, count, parted>>

\* What moves, empties or loses the buffer and the stream preserves it.
LEMMA MovesKeep ==
    ASSUME IInv, Moves
    PROVE  IInv'
<1> DEFINE both == stream \o buffer
<1>1. stream \in Seq(Unit) /\ buffer \in Seq(Unit) /\ rest \in [Senders -> Seq(Unit)]
  BY DEF IInv, QueueTypes
<1>2. stream' \in {stream, <<>>, both} /\ buffer' \in {buffer, <<>>}
  BY DEF Moves
<1>3. /\ both \in Seq(Unit) /\ Ordered(both)
      /\ \A t \in Senders : Precede(both, rest[t])
  BY <1>1, ConcatFacts, OrderedConcat, PrecedeConcat DEF IInv, InOrder
<1>4. Begun(both)
  BY <1>1, ConcatFacts DEF IInv, InOrder, Begun
<1>5. ~parted => Paired(both)
  BY <1>1, PairedConcat DEF IInv, InPairs
<1>6. /\ <<>> \in Seq(Unit) /\ Ordered(<<>>) /\ Paired(<<>>) /\ Begun(<<>>)
      /\ \A s \in Seq(Unit) : Precede(<<>>, s) /\ Precede(s, <<>>)
  BY DEF Ordered, Paired, Precede, Begun
<1> HIDE DEF both
<1>7. QueueTypes'
  <2>1. Len(buffer') <= Capacity
    <3>1. Capacity \in Nat
      BY TcpClientAssumption
    <3>2. CASE buffer' = <<>>
      BY <3>1, <3>2
    <3>3. CASE buffer' = buffer
      BY <3>3 DEF IInv, QueueTypes
    <3>4. QED
      BY <1>2, <3>2, <3>3
  <2>2. QED
    BY <1>1, <1>2, <1>3, <1>6, <2>1 DEF Moves, IInv, QueueTypes
<1>8. RestKnown'
  BY DEF Moves, IInv, RestKnown
<1>9. InOrder'
  <2>1. /\ Ordered(stream') /\ Ordered(buffer')
        /\ \A t \in Senders : Precede(stream', rest[t]) /\ Precede(buffer', rest[t])
    BY <1>1, <1>2, <1>3, <1>6 DEF IInv, InOrder
  <2>2. Precede(stream', buffer')
    <3>1. CASE buffer' = <<>>
      BY <1>1, <1>2, <1>3, <1>6, <3>1
    <3>2. CASE buffer' # <<>>
      <4>1. buffer' = buffer /\ stream' \in {stream, <<>>}
        BY <1>2, <3>2 DEF Moves
      <4>2. QED
        BY <1>1, <1>6, <4>1 DEF IInv, InOrder
    <3>3. QED
      BY <3>1, <3>2
  <2>3. Begun(stream)' /\ Begun(buffer)'
    <3>1. Begun(stream') /\ Begun(buffer')
      BY <1>2, <1>4, <1>6 DEF IInv, InOrder
    <3>2. QED
      BY <3>1 DEF Begun, Moves
  <2>4. QED
    BY <2>1, <2>2, <2>3 DEF InOrder, Moves
<1>10. InPairs'
  BY <1>2, <1>5, <1>6 DEF IInv, InPairs, Moves
<1>11. QED
  BY <1>7, <1>8, <1>9, <1>10 DEF IInv

\* Connecting, a lost connection and its attempts, and Close.
LEMMA StepKeeps ==
    ASSUME IInv, [Next]_vars
    PROVE  IInv'
<1>1. CASE UNCHANGED vars
  BY <1>1, MovesKeep DEF vars, queue, Moves
<1>2. CASE Connect \/ AfterClientClose \/ Close \/ Change
  BY <1>2, MovesKeep DEF Connect, AfterClientClose, Close, Change, queue, Moves
<1>3. CASE \E t \in Threads : Send(t)
  BY <1>3, SendKeeps
<1>4. CASE \E t \in Senders : WriteRest(t) \/ GiveUp(t)
  BY <1>4, WriteRestKeeps, GiveUpKeeps
<1>5. CASE HandlerSends
  BY <1>5, SendsItselfKeeps DEF HandlerSends
<1>6. CASE AfterRecv \/ AfterSend
  BY <1>6, MovesKeep DEF AfterRecv, AfterSend, send_inl, Moves
<1>7. CASE AsyncCloseCB
  BY <1>7, MovesKeep DEF AsyncCloseCB, closeinl, send_inl, Moves
<1>8. CASE AfterConnect
  <2>1. stream' = stream
    BY <1>8 DEF AfterConnect
  <2>2. CASE reconnecting
    BY <1>8, <2>1, <2>2, SendsItselfKeeps DEF AfterConnect
  <2>3. CASE ~reconnecting
    BY <1>8, <2>1, <2>3, MovesKeep DEF AfterConnect, queue, Moves
  <2>4. QED
    BY <2>2, <2>3
<1>9. CASE AfterConnectError \/ AfterRecvEnd \/ Discarded
  BY <1>9, MovesKeep DEF AfterConnectError, AfterRecvEnd, Discarded, queue, Moves
<1>10. CASE ReconnectTimer
  BY <1>10, MovesKeep DEF ReconnectTimer, Reconnects, ReconnectFails, queue, Moves
<1>11. QED
  BY <1>1, <1>2, <1>3, <1>4, <1>5, <1>6, <1>7, <1>8, <1>9, <1>10 DEF Next, Work

\* What was written to the connection keeps the order of every thread, and as
\* long as each message found room at once keeps every message whole: two
\* threads that take the lock of m_buferWrite in turn, the part written before
\* a wait, and a buffer emptied into a new connection do not mix them (Send and
\* send_inl of tcpclient.cpp).
THEOREM MessagesWhole == Spec => []StreamWhole
<1>1. Init => IInv
  <2>1. SUFFICES ASSUME Init PROVE IInv
    OBVIOUS
  <2>2. /\ stream = <<>> /\ buffer = <<>>
        /\ rest = [t \in Senders |-> <<>>] /\ count = [t \in Senders |-> 0]
    BY <2>1 DEF Init
  <2>3. QueueTypes
    BY <2>2, TcpClientAssumption DEF QueueTypes
  <2>4. RestKnown
    BY <2>2 DEF RestKnown
  <2>5. InOrder
    BY <2>2 DEF InOrder, Ordered, Precede, Begun
  <2>6. InPairs
    BY <2>2 DEF InPairs, Paired
  <2>7. QED
    BY <2>3, <2>4, <2>5, <2>6 DEF IInv
<1>2. IInv => StreamWhole
  BY DEF IInv, InOrder, InPairs, Ordered, Paired, Before, StreamWhole
<1>3. QED
  BY <1>1, <1>2, StepKeeps, PTL DEF Spec

=============================================================================
