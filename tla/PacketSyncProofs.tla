--------------------------- MODULE PacketSyncProofs ---------------------------
(***************************************************************************)
(* Proofs about the framing, for any messages, any cuts of the stream, any *)
(* number of connections and any size of the read buffer: the parser's     *)
(* buffers hold what is copied into them, and what it hands out are the    *)
(* frames of the stream.                                                   *)
(*                                                                         *)
(* Whatever the two buffers hold stands for the end of what was received   *)
(* (Window).  A turn of recvdata then either decides against some bytes    *)
(* with which no frame can begin, or takes a frame.                        *)
(***************************************************************************)
EXTENDS PacketSync, SequenceTheorems, WellFoundedInduction, TLAPS

-------------------------------------------------------------------------------
(* Bytes, frames and strings of bytes.                                         *)

\* The kinds of bytes differ, and a valid one is a mark.
LEMMA ByteKinds ==
    /\ HEAD # TAIL /\ ~Valid(HEAD) /\ ~Valid(TAIL)
    /\ \A d : Valid(Mark(d)) /\ Mark(d) # Unmatched /\ Mark(d) \notin {HEAD, TAIL}
    /\ \A d : ~Valid(Length(d)) /\ Length(d) \notin {HEAD, TAIL}
    /\ \A d, e : Mark(d) = Mark(e) => d = e
<1>1. /\ HEAD[1] = "head" /\ TAIL[1] = "tail"
      /\ \A d : Mark(d)[1] = "mark" /\ Mark(d)[2] = d
      /\ \A d : Length(d)[1] = "length"
  BY DEF HEAD, TAIL, Mark, Length
<1>2. ASSUME NEW d PROVE Mark(d) # Unmatched
  <2>1. Len(Mark(d)) = 2 /\ Len(Unmatched) = 1
    BY DEF Mark, Unmatched
  <2>2. QED
    BY <2>1
<1>3. QED
  BY <1>1, <1>2 DEF Valid

\* The bytes that frames are made of, and what they read as in the place of a datalen.
LEMMA ByteTypes ==
    /\ HEAD \in Bytes /\ TAIL \in Bytes
    /\ Payloads \subseteq Seq(Bytes)
    /\ \A data \in Payloads : Mark(data) \in Bytes /\ Length(data) \in Bytes
    /\ \A b \in Bytes : Number[b] \in Nat
    /\ \A data \in Payloads : Number[Length(data)] = Len(data) /\ Len(data) < INT_MAX
<1>1. PayloadBytes \subseteq Bytes
  BY DEF Bytes
<1>2. Payloads \subseteq Seq(Bytes)
  BY <1>1, PacketSyncAssumption
<1>3. QED
  BY <1>2, PacketSyncAssumption DEF Bytes

\* The order of the numbers is well-founded.
LEMMA NatOrder ==
    \E R : IsWellFoundedOn(R, Nat) /\ \A x, y \in Nat : x < y => <<x, y>> \in R
<1>1. IsWellFoundedOn(OpToRel(<, Nat), Nat)
  BY NatLessThanWellFounded
<1>2. \A x, y \in Nat : x < y => <<x, y>> \in OpToRel(<, Nat)
  BY DEF OpToRel
<1>3. QED
  BY <1>1, <1>2

\* A set of numbers has a least one.
LEMMA Least ==
    ASSUME NEW S, S \subseteq Nat, S # {}
    PROVE  \E i \in S : \A j \in S : i <= j
<1>1. PICK R : IsWellFoundedOn(R, Nat) /\ \A x, y \in Nat : x < y => <<x, y>> \in R
  BY NatOrder
<1>2. \E x \in S : \A y \in S : ~ (<<y, x>> \in R)
  <2>1. IsWellFoundedOn(R, Nat)
    BY <1>1
  <2>2. QED
    BY <2>1, WFMin, Zenon
<1>3. PICK x \in S : \A y \in S : ~ (<<y, x>> \in R)
  BY <1>2
<1>4. ASSUME NEW y \in S PROVE x <= y
  <2>1. x \in Nat /\ y \in Nat
    OBVIOUS
  <2>2. ~ (y < x)
    BY <1>1, <1>3, <2>1, Zenon
  <2>3. QED
    BY <2>1, <2>2
<1>5. QED
  BY <1>4

\* A part of a string.
LEMMA Part ==
    ASSUME NEW S, NEW s \in Seq(S), NEW a \in Nat, NEW b \in Nat,
           1 <= a, a <= b + 1, b <= Len(s)
    PROVE  /\ SubSeq(s, a, b) \in Seq(S)
           /\ Len(SubSeq(s, a, b)) = b - a + 1
           /\ \A i \in 1 .. b - a + 1 : SubSeq(s, a, b)[i] = s[a + i - 1]
OBVIOUS

\* What From returns.
LEMMA Rest ==
    ASSUME NEW S, NEW s \in Seq(S), NEW a \in Nat, 1 <= a, a <= Len(s) + 1
    PROVE  /\ From(s, a) \in Seq(S)
           /\ Len(From(s, a)) = Len(s) - a + 1
           /\ \A i \in 1 .. Len(s) - a + 1 : From(s, a)[i] = s[a + i - 1]
BY Part, Len(s) \in Nat DEF From

\* What a concatenation is made of.
LEMMA Joined ==
    ASSUME NEW S, NEW s \in Seq(S), NEW t \in Seq(S)
    PROVE  /\ s \o t \in Seq(S)
           /\ Len(s \o t) = Len(s) + Len(t)
           /\ \A i \in 1 .. Len(s) : (s \o t)[i] = s[i]
           /\ \A i \in 1 .. Len(t) : (s \o t)[Len(s) + i] = t[i]
OBVIOUS

\* The bytes of a frame.
LEMMA FrameBytes ==
    ASSUME NEW data \in Seq(Bytes)
    PROVE  LET f == PacketData2(data)
           IN  /\ Len(f) = Size(data) /\ Len(data) \in Nat
               /\ f[1] = HEAD /\ f[2] = Mark(data) /\ f[3] = Length(data)
               /\ \A i \in 1 .. Len(data) : f[3 + i] = data[i]
               /\ f[4 + Len(data)] = TAIL
<1> DEFINE S == Bytes \cup {Mark(data), Length(data)}
           h == <<HEAD, Mark(data), Length(data)>>
<1>1. h \in Seq(S) /\ Len(h) = 3 /\ h[1] = HEAD /\ h[2] = Mark(data) /\ h[3] = Length(data)
  BY ByteTypes
<1>2. data \in Seq(S) /\ <<TAIL>> \in Seq(S) /\ Len(<<TAIL>>) = 1 /\ <<TAIL>>[1] = TAIL
  BY ByteTypes
<1> HIDE DEF h, S
<1>3. /\ h \o data \in Seq(S) /\ Len(h \o data) = 3 + Len(data)
      /\ \A i \in 1 .. 3 : (h \o data)[i] = h[i]
      /\ \A i \in 1 .. Len(data) : (h \o data)[3 + i] = data[i]
  <2>1. /\ h \o data \in Seq(S) /\ Len(h \o data) = Len(h) + Len(data)
        /\ \A i \in 1 .. Len(h) : (h \o data)[i] = h[i]
        /\ \A i \in 1 .. Len(data) : (h \o data)[Len(h) + i] = data[i]
    <3>1. h \in Seq(S) /\ data \in Seq(S)
      BY <1>1, <1>2
    <3>2. QED
      BY <3>1, Joined
  <2>2. QED
    BY <2>1, <1>1
<1>4. /\ Len(h \o data \o <<TAIL>>) = 4 + Len(data)
      /\ \A i \in 1 .. 3 + Len(data) : (h \o data \o <<TAIL>>)[i] = (h \o data)[i]
      /\ (h \o data \o <<TAIL>>)[4 + Len(data)] = TAIL
  <2>1. /\ Len((h \o data) \o <<TAIL>>) = Len(h \o data) + 1
        /\ \A i \in 1 .. Len(h \o data) : ((h \o data) \o <<TAIL>>)[i] = (h \o data)[i]
        /\ \A i \in 1 .. 1 : ((h \o data) \o <<TAIL>>)[Len(h \o data) + i] = <<TAIL>>[i]
    BY <1>2, <1>3, Joined
  <2>2. QED
    BY <2>1, <1>2, <1>3, Len(data) \in Nat
<1>5. PacketData2(data) = h \o data \o <<TAIL>> /\ Len(data) \in Nat
  BY DEF PacketData2, h
<1>6. QED
  BY <1>1, <1>3, <1>4, <1>5 DEF Size, HEADLEN

\* What follows two sequences follows the second of them.
LEMMA Associative ==
    ASSUME NEW s \in Seq(Bytes), NEW t \in Seq(Bytes), NEW u \in Seq(Bytes)
    PROVE  (s \o t) \o u = s \o (t \o u)
  BY ConcatAssociative

\* A frame that stands in a string, byte by byte.
LEMMA FrameThere ==
    ASSUME NEW s \in Seq(Bytes), NEW i \in Nat \ {0}, NEW data \in Seq(Bytes),
           i + Len(data) + 3 <= Len(s)
    PROVE  FrameAt(s, i, data) <=>
               /\ s[i] = HEAD /\ s[i + 1] = Mark(data) /\ Number[s[i + 2]] = Len(data)
               /\ \A k \in 1 .. Len(data) : s[i + 2 + k] = data[k]
               /\ s[i + Len(data) + 3] = TAIL
<1>1. Len(data) \in Nat /\ DOMAIN data = 1 .. Len(data)
  OBVIOUS
<1>2. i + Size(data) - 1 = i + Len(data) + 3 /\ i + HEADLEN = i + 2
  BY <1>1 DEF Size, HEADLEN
<1>3. QED
  BY <1>1, <1>2 DEF FrameAt

-------------------------------------------------------------------------------
(* The parser.                                                                 *)

TypeOK ==
    /\ parsetype \in {"nothing", "head", "overrun"}
    /\ read \in Seq(Bytes) /\ body \in Seq(Bytes) /\ input \in Seq(Bytes)
    /\ cap \in Nat /\ headpos \in Nat \ {0}
    /\ wire \in Seq(Bytes) /\ fed \in Seq(Bytes)
    /\ sent \in Seq(Payloads) /\ ends \in Seq(Nat)
    /\ got \in Seq(Seq(Bytes)) /\ at \in Seq(Nat \ {0})
    /\ conns \in Seq([fed : Nat, clean : BOOLEAN]) /\ conns # <<>>

\* What the parser needs of its buffers.
ParserOK ==
    /\ Len(read) <= cap /\ HEADLEN + 2 <= cap
    /\ parsetype = "head" =>
          /\ headpos + HEADLEN <= Len(read)
          /\ read[headpos] = HEAD /\ Valid(read[headpos + 1])
          /\ Len(body) <= BodyLen
          /\ Enough => Len(body) = BodyLen
          /\ ~Enough => Len(read) - headpos - HEADLEN <= Len(body)
    /\ parsetype = "overrun" =>
          /\ headpos + HEADLEN <= Len(read)
          /\ read[headpos] = HEAD /\ Valid(read[headpos + 1])
          /\ Number[read[headpos + HEADLEN]] >= INT_MAX

\* The bytes of s are those of fed behind the first d.
Stands(s, d) == \A i \in 1 .. Len(s) : s[i] = fed[d + i]

\* The two buffers and the input hold the end of what was received, one behind
\* the other; bytes that are in both buffers are the same.
Window ==
    /\ Decided \in Nat
    /\ Stands(input, Len(fed) - Len(input))
    /\ parsetype = "nothing" => Stands(read, Decided)
    /\ parsetype \in {"head", "overrun"} =>
          \A i \in headpos .. Len(read) : read[i] = fed[Decided + 1 + i - headpos]
    /\ parsetype = "head" => Stands(body, Decided + 1 + HEADLEN)

\* What a turn does with the stream.
Skips ==
    /\ Decided \in Nat /\ Decided' \in Nat /\ Decided <= Decided' /\ Decided' <= Len(fed)
    /\ \A i \in Decided + 1 .. Decided' : NoFrame(fed, i)
    /\ UNCHANGED <<got, at>>
Takes ==
    \E data \in Seq(Bytes) :
        /\ Decided \in Nat /\ Decided' = Decided + Size(data) /\ Decided' <= Len(fed)
        /\ FrameAt(fed, Decided + 1, data)
        /\ got' = Append(got, data)
        /\ at' = Append(at, Decided + 1)

\* The length of the payload asked for.
LEMMA BodyLenNat ==
    ASSUME TypeOK, ParserOK, parsetype = "head"
    PROVE  /\ Number[read[headpos + 2]] \in Nat
           /\ BodyLen \in Nat /\ BodyLen = Number[read[headpos + 2]] + 1
<1>1. headpos + 2 \in 1 .. Len(read)
  <2>1. headpos \in Nat /\ Len(read) \in Nat
    BY DEF TypeOK
  <2>2. headpos + 2 <= Len(read)
    BY DEF ParserOK, HEADLEN
  <2>3. QED
    BY <2>1, <2>2
<1>2. read[headpos + 2] \in Bytes
  BY <1>1 DEF TypeOK
<1>3. QED
  BY <1>2, ByteTypes DEF BodyLen

\* What the search does, first being where HEAD is found.
LEMMA FindHeadCases ==
    ASSUME NEW bytes \in Seq(Bytes), FindHead(bytes)
    PROVE  \/ /\ \A i \in 1 .. Len(bytes) : bytes[i] # HEAD
              /\ read' = <<>>
              /\ UNCHANGED <<parsetype, headpos, body>>
           \/ \E first \in 1 .. Len(bytes) :
                 /\ bytes[first] = HEAD
                 /\ \A i \in 1 .. first - 1 : bytes[i] # HEAD
                 /\ \/ /\ Len(bytes) - first < HEADLEN
                       /\ read' = From(bytes, first)
                       /\ UNCHANGED <<parsetype, headpos, body>>
                    \/ /\ HEADLEN <= Len(bytes) - first
                       /\ ~Valid(bytes[first + 1])
                       /\ read' = From(bytes, first + 1)
                       /\ UNCHANGED <<parsetype, headpos, body>>
                    \/ /\ HEADLEN <= Len(bytes) - first
                       /\ Valid(bytes[first + 1]) /\ Number[bytes[first + 2]] < INT_MAX
                       /\ read' = bytes /\ parsetype' = "head" /\ headpos' = first
                       /\ body' = SubSeq(bytes, first + HEADLEN + 1,
                                         IF Enough' THEN first + HEADLEN + BodyLen'
                                         ELSE Len(bytes))
                    \/ /\ HEADLEN <= Len(bytes) - first
                       /\ Valid(bytes[first + 1]) /\ Number[bytes[first + 2]] >= INT_MAX
                       /\ read' = bytes /\ parsetype' = "overrun" /\ headpos' = first
                       /\ UNCHANGED body
<1> DEFINE heads == {i \in DOMAIN bytes : bytes[i] = HEAD}
           first == CHOOSE i \in heads : \A j \in heads : i <= j
<1>1. DOMAIN bytes = 1 .. Len(bytes) /\ Len(bytes) \in Nat
  OBVIOUS
<1>2. CASE heads = {}
  BY <1>1, <1>2 DEF FindHead
<1>3. CASE heads # {}
  <2>1. heads \subseteq Nat
    BY <1>1
  <2> HIDE DEF heads
  <2>2. \E i \in heads : \A j \in heads : i <= j
    BY <1>3, <2>1, Least
  <2>3. first \in heads /\ \A j \in heads : first <= j
    BY <2>2
  <2> USE DEF heads
  <2>4. /\ first \in 1 .. Len(bytes) /\ bytes[first] = HEAD
        /\ \A i \in 1 .. first - 1 : bytes[i] # HEAD
    BY <1>1, <2>3
  <2>5. \/ /\ Len(bytes) - first < HEADLEN
           /\ read' = From(bytes, first)
           /\ UNCHANGED <<parsetype, headpos, body>>
        \/ /\ ~(Len(bytes) - first < HEADLEN)
           /\ ~Valid(bytes[first + 1])
           /\ read' = From(bytes, first + 1)
           /\ UNCHANGED <<parsetype, headpos, body>>
        \/ /\ ~(Len(bytes) - first < HEADLEN)
           /\ Valid(bytes[first + 1]) /\ Number[bytes[first + 2]] < INT_MAX
           /\ read' = bytes /\ parsetype' = "head" /\ headpos' = first
           /\ body' = SubSeq(bytes, first + HEADLEN + 1,
                             IF Enough' THEN first + HEADLEN + BodyLen'
                             ELSE Len(bytes))
        \/ /\ ~(Len(bytes) - first < HEADLEN)
           /\ Valid(bytes[first + 1]) /\ Number[bytes[first + 2]] >= INT_MAX
           /\ read' = bytes /\ parsetype' = "overrun" /\ headpos' = first
           /\ UNCHANGED body
    BY <1>3, Zenon DEF FindHead
  <2>6. ~(Len(bytes) - first < HEADLEN) => HEADLEN <= Len(bytes) - first
    BY <1>1, <2>4 DEF HEADLEN
  <2> HIDE DEF first
  <2>7. QED
    BY <2>4, <2>5, <2>6
<1>4. QED
  BY <1>2, <1>3

\* The search, with the bytes that have been put into thread_readdata.
LEMMA FindHeadTurn ==
    ASSUME TypeOK, ParserOK, Window, parsetype = "nothing",
           NEW bytes \in Seq(Bytes), FindHead(bytes), Len(bytes) <= cap,
           input' \in Seq(Bytes), fed' = fed, cap' = cap, UNCHANGED <<got, at>>,
           Decided + Len(bytes) + Len(input') = Len(fed),
           Stands(bytes, Decided), Stands(input', Len(fed) - Len(input'))
    PROVE  /\ Skips /\ ParserOK' /\ Window'
           /\ parsetype' \in {"nothing", "head", "overrun"} /\ read' \in Seq(Bytes)
           /\ body' \in Seq(Bytes) /\ headpos' \in Nat \ {0}
<1> DEFINE d == Decided
<1>1. /\ d \in Nat /\ Len(bytes) \in Nat /\ Len(input') \in Nat /\ Len(fed) \in Nat
      /\ d + Len(bytes) + Len(input') = Len(fed)
      /\ cap \in Nat /\ HEADLEN + 2 <= cap
      /\ \A i \in 1 .. Len(bytes) : bytes[i] = fed[d + i]
      /\ \A i \in 1 .. Len(input') : input'[i] = fed[Len(fed) - Len(input') + i]
  BY DEF Window, Stands, TypeOK, ParserOK
<1>2. ASSUME NEW m \in 0 .. Len(bytes), \A i \in 1 .. m : NoFrame(fed, d + i),
             Decided' = d + m
      PROVE  Skips
  <2>1. \A i \in d + 1 .. Decided' : NoFrame(fed, i)
    <3> TAKE i \in d + 1 .. Decided'
    <3>1. i - d \in 1 .. m /\ d + (i - d) = i
      BY <1>1, <1>2
    <3>2. QED
      BY <1>2, <3>1
  <2>2. d <= d + m /\ d + m <= Len(fed) /\ d + m \in Nat
    BY <1>1
  <2>3. QED
    BY <1>1, <1>2, <2>1, <2>2 DEF Skips
<1>3. ASSUME NEW i \in 1 .. Len(bytes), bytes[i] # HEAD PROVE NoFrame(fed, d + i)
  BY <1>1, <1>3 DEF NoFrame
<1> DEFINE Good == /\ Skips /\ ParserOK' /\ Window'
                   /\ parsetype' \in {"nothing", "head", "overrun"} /\ read' \in Seq(Bytes)
                   /\ body' \in Seq(Bytes) /\ headpos' \in Nat \ {0}
<1>4. ASSUME NEW m \in 0 .. Len(bytes), \A i \in 1 .. m : NoFrame(fed, d + i),
             read' = From(bytes, m + 1), UNCHANGED <<parsetype, headpos, body>>
      PROVE  Good
  <2>1. /\ read' \in Seq(Bytes) /\ Len(read') = Len(bytes) - m
        /\ \A i \in 1 .. Len(bytes) - m : read'[i] = bytes[m + i]
    <3>1. m + 1 \in Nat /\ 1 <= m + 1 /\ m + 1 <= Len(bytes) + 1
      BY <1>1
    <3>2. /\ From(bytes, m + 1) \in Seq(Bytes)
          /\ Len(From(bytes, m + 1)) = Len(bytes) - (m + 1) + 1
          /\ \A i \in 1 .. Len(bytes) - (m + 1) + 1 :
                From(bytes, m + 1)[i] = bytes[(m + 1) + i - 1]
      BY <3>1, Rest
    <3>3. /\ Len(bytes) - (m + 1) + 1 = Len(bytes) - m
          /\ \A i \in 1 .. Len(bytes) - m : (m + 1) + i - 1 = m + i
      BY <1>1
    <3>4. QED
      BY <1>4, <3>2, <3>3
  <2>2. Decided' = d + m
    <3>1. Decided' = Len(fed) - (Len(input') + Len(read'))
      BY <1>4 DEF Decided, Undecided
    <3>2. QED
      BY <1>1, <2>1, <3>1
  <2>3. Skips
    BY <1>2, <1>4, <2>2
  <2>4. ParserOK'
    BY <1>1, <1>4, <2>1 DEF ParserOK
  <2>5. \A i \in 1 .. Len(read') : read'[i] = fed[d + m + i]
    <3> TAKE i \in 1 .. Len(read')
    <3>1. i \in 1 .. Len(bytes) - m /\ m + i \in 1 .. Len(bytes) /\ d + m + i = d + (m + i)
      BY <1>1, <2>1
    <3>2. QED
      BY <1>1, <2>1, <3>1
  <2>6. Stands(read, Decided)' /\ Stands(input, Len(fed) - Len(input))'
    BY <1>1, <2>2, <2>5 DEF Stands
  <2>7. Window'
    BY <1>1, <1>4, <2>2, <2>6 DEF Window
  <2>8. QED
    BY <1>4, <2>1, <2>3, <2>4, <2>7 DEF TypeOK
<1> HIDE DEF Good
<1>5. ASSUME \A i \in 1 .. Len(bytes) : bytes[i] # HEAD,
             read' = <<>>, UNCHANGED <<parsetype, headpos, body>>
      PROVE  Good
  <2>1. From(bytes, Len(bytes) + 1) = <<>>
    BY <1>1 DEF From
  <2>2. Len(bytes) \in 0 .. Len(bytes) /\ \A i \in 1 .. Len(bytes) : NoFrame(fed, d + i)
    BY <1>1, <1>3, <1>5
  <2>3. read' = From(bytes, Len(bytes) + 1)
    BY <1>5, <2>1
  <2>4. UNCHANGED <<parsetype, headpos, body>>
    BY <1>5
  <2>5. QED
    BY <1>4, <2>2, <2>3, <2>4
<1>6. ASSUME NEW first \in 1 .. Len(bytes), bytes[first] = HEAD,
             \A i \in 1 .. first - 1 : bytes[i] # HEAD
      PROVE  /\ \A i \in 1 .. first - 1 : NoFrame(fed, d + i)
             /\ first - 1 \in 0 .. Len(bytes) /\ (first - 1) + 1 = first
  <2>1. \A i \in 1 .. first - 1 : i \in 1 .. Len(bytes)
    BY <1>1
  <2>2. first - 1 \in 0 .. Len(bytes) /\ (first - 1) + 1 = first
    BY <1>1
  <2>3. QED
    BY <1>3, <1>6, <2>1, <2>2
<1>7. ASSUME NEW first \in 1 .. Len(bytes), bytes[first] = HEAD,
             \A i \in 1 .. first - 1 : bytes[i] # HEAD,
             read' = From(bytes, first),
             UNCHANGED <<parsetype, headpos, body>>
      PROVE  Good
  BY <1>4, <1>6, <1>7
<1>8. ASSUME NEW first \in 1 .. Len(bytes), bytes[first] = HEAD,
             \A i \in 1 .. first - 1 : bytes[i] # HEAD,
             HEADLEN <= Len(bytes) - first, ~Valid(bytes[first + 1]),
             read' = From(bytes, first + 1),
             UNCHANGED <<parsetype, headpos, body>>
      PROVE  Good
  <2>1. NoFrame(fed, d + first)
    <3>1. /\ first + 1 \in 1 .. Len(bytes) /\ d + (first + 1) = (d + first) + 1
          /\ (d + first) + HEADLEN <= Len(fed)
      <4>1. /\ d \in Nat /\ Len(bytes) \in Nat /\ Len(input') \in Nat
            /\ d + Len(bytes) + Len(input') = Len(fed) /\ 2 <= Len(bytes) - first
        BY <1>1, <1>8 DEF HEADLEN
      <4> HIDE DEF d
      <4>2. QED
        BY <4>1 DEF HEADLEN
    <3>2. fed[(d + first) + 1] = bytes[first + 1]
      BY <1>1, <3>1
    <3>3. QED
      BY <1>8, <3>1, <3>2 DEF NoFrame
  <2>2. \A i \in 1 .. first : NoFrame(fed, d + i)
    <3> TAKE i \in 1 .. first
    <3>1. i = first \/ i \in 1 .. first - 1
      BY <1>1
    <3>2. QED
      BY <1>6, <1>8, <2>1, <3>1
  <2>3. first \in 0 .. Len(bytes)
    BY <1>1
  <2>4. QED
    BY <1>4, <1>8, <2>2, <2>3
<1>9. ASSUME NEW first \in 1 .. Len(bytes), bytes[first] = HEAD,
             \A i \in 1 .. first - 1 : bytes[i] # HEAD,
             HEADLEN <= Len(bytes) - first, Valid(bytes[first + 1]),
             Number[bytes[first + 2]] < INT_MAX,
             read' = bytes, parsetype' = "head", headpos' = first,
             body' = SubSeq(bytes, first + HEADLEN + 1,
                            IF Enough' THEN first + HEADLEN + BodyLen'
                            ELSE Len(bytes))
      PROVE  Good
  <2>1. first + 2 <= Len(bytes) /\ first + 2 \in 1 .. Len(bytes) /\ first \in Nat \ {0}
    BY <1>1, <1>9 DEF HEADLEN
  <2>2. bytes[first + 2] \in Bytes /\ Number[bytes[first + 2]] \in Nat
    BY <2>1, ByteTypes
  <2> DEFINE L == BodyLen'
             e == IF Enough' THEN first + 2 + L ELSE Len(bytes)
  <2>3. L \in Nat /\ L > 0 /\ (Enough' <=> L <= Len(bytes) - first - 2)
    <3>1. L = Number[bytes[first + 2]] + 1
      BY <1>9 DEF BodyLen
    <3>2. Enough' <=> Len(bytes) - first - 2 >= L
      BY <1>9 DEF Enough, HEADLEN
    <3>3. Len(bytes) \in Nat /\ first \in Nat /\ Number[bytes[first + 2]] \in Nat
      BY <1>1, <2>2
    <3> HIDE DEF L
    <3>4. QED
      BY <3>1, <3>2, <3>3
  <2>4. e \in Nat /\ first + 2 <= e /\ e <= Len(bytes)
    <3>1. L \in Nat /\ Len(bytes) \in Nat /\ first \in Nat /\ first + 2 <= Len(bytes)
      BY <1>1, <2>1, <2>3
    <3>2. Enough' => first + 2 + L <= Len(bytes)
      BY <2>3, <3>1
    <3> HIDE DEF L
    <3>3. CASE Enough'
      BY <3>1, <3>2, <3>3
    <3>4. CASE ~Enough'
      BY <3>1, <3>4
    <3>5. QED
      BY <3>3, <3>4
  <2>5. /\ Enough' => e = first + 2 + L
        /\ ~Enough' => e = Len(bytes)
    OBVIOUS
  <2>6. body' = SubSeq(bytes, first + 3, e)
    <3>1. first + HEADLEN + 1 = first + 3 /\ first + HEADLEN + L = first + 2 + L
      BY <1>1, <2>3 DEF HEADLEN
    <3>2. QED
      BY <1>9, <3>1
  <2> HIDE DEF e, L
  <2>7. /\ body' \in Seq(Bytes) /\ Len(body') = e - (first + 2)
        /\ \A i \in 1 .. e - (first + 2) : body'[i] = bytes[first + 2 + i]
    <3>1. /\ first + 3 \in Nat /\ 1 <= first + 3 /\ first + 3 <= e + 1
          /\ e - (first + 3) + 1 = e - (first + 2)
      BY <1>1, <2>1, <2>4
    <3>2. /\ SubSeq(bytes, first + 3, e) \in Seq(Bytes)
          /\ Len(SubSeq(bytes, first + 3, e)) = e - (first + 3) + 1
          /\ \A i \in 1 .. e - (first + 3) + 1 :
                SubSeq(bytes, first + 3, e)[i] = bytes[(first + 3) + i - 1]
      BY <2>4, <3>1, Part
    <3>3. \A i \in 1 .. e - (first + 2) : (first + 3) + i - 1 = first + 2 + i
      BY <2>1, <2>4
    <3>4. QED
      BY <2>6, <3>1, <3>2, <3>3
  <2>8. Decided' = d + (first - 1)
    <3>1. Decided' = Len(fed) - (Len(input') + (IF Enough' THEN Len(bytes) - first + 1
                                                ELSE 1 + 2 + Len(body')))
      BY <1>9 DEF Decided, Undecided, HEADLEN
    <3>2. Len(body') = e - (first + 2) /\ e \in Nat /\ L \in Nat
      BY <2>3, <2>4, <2>7
    <3>3. /\ d \in Nat /\ Len(bytes) \in Nat /\ Len(input') \in Nat /\ Len(fed) \in Nat
          /\ d + Len(bytes) + Len(input') = Len(fed) /\ first \in Nat
      BY <1>1, <2>1
    <3> HIDE DEF d
    <3>4. CASE Enough'
      <4>1. Decided' = Len(fed) - (Len(input') + (Len(bytes) - first + 1))
        BY <3>1, <3>4
      <4>2. QED
        BY <3>3, <4>1
    <3>5. CASE ~Enough'
      <4>1. Decided' = Len(fed) - (Len(input') + (1 + 2 + (Len(bytes) - (first + 2))))
        BY <2>5, <3>1, <3>2, <3>5
      <4>2. QED
        BY <3>3, <4>1
    <3>6. QED
      BY <3>4, <3>5
  <2>9. Skips
    BY <1>2, <1>6, <1>9, <2>8
  <2>10. ParserOK'
    <3>1. Len(read') <= cap' /\ HEADLEN + 2 <= cap'
      BY <1>1, <1>9
    <3>2. headpos' + HEADLEN <= Len(read') /\ read'[headpos'] = HEAD /\ Valid(read'[headpos' + 1])
      BY <1>9, <2>1 DEF HEADLEN
    <3>3. /\ Len(body') <= L
          /\ Enough' => Len(body') = L
          /\ ~Enough' => Len(read') - headpos' - HEADLEN <= Len(body')
      <4>1. Len(body') = e - (first + 2) /\ read' = bytes /\ headpos' = first
        BY <1>9, <2>7
      <4>2. CASE Enough'
        BY <1>1, <2>1, <2>3, <2>4, <2>5, <4>1, <4>2
      <4>3. CASE ~Enough'
        BY <1>1, <2>1, <2>3, <2>4, <2>5, <4>1, <4>3 DEF HEADLEN
      <4>4. QED
        BY <4>2, <4>3
    <3>4. QED
      BY <1>9, <3>1, <3>2, <3>3 DEF ParserOK, L
  <2>11. \A i \in headpos' .. Len(read') : read'[i] = fed'[Decided' + 1 + i - headpos']
    <3> TAKE i \in headpos' .. Len(read')
    <3>1. i \in 1 .. Len(bytes) /\ Decided' + 1 + i - headpos' = d + i
      BY <1>1, <1>9, <2>1, <2>8
    <3>2. QED
      BY <1>1, <1>9, <3>1
  <2>12. Stands(body, Decided + 1 + HEADLEN)'
    <3>1. \A i \in 1 .. Len(body') : body'[i] = fed[Decided' + 1 + HEADLEN + i]
      <4> TAKE i \in 1 .. Len(body')
      <4>1. /\ i \in 1 .. e - (first + 2) /\ first + 2 + i \in 1 .. Len(bytes)
            /\ Decided' + 1 + 2 + i = d + (first + 2 + i)
        BY <1>1, <2>1, <2>4, <2>7, <2>8
      <4>2. QED
        BY <1>1, <2>7, <4>1 DEF HEADLEN
    <3>2. QED
      BY <3>1 DEF Stands
  <2>13. Stands(input, Len(fed) - Len(input))' /\ Decided' \in Nat
    BY <1>1, <2>1, <2>8 DEF Stands
  <2>14. Window'
    BY <1>9, <2>11, <2>12, <2>13 DEF Window
  <2>15. QED
    BY <1>9, <2>1, <2>7, <2>9, <2>10, <2>14 DEF Good
<1>10. ASSUME NEW first \in 1 .. Len(bytes), bytes[first] = HEAD,
              \A i \in 1 .. first - 1 : bytes[i] # HEAD,
              HEADLEN <= Len(bytes) - first, Valid(bytes[first + 1]),
              Number[bytes[first + 2]] >= INT_MAX,
              read' = bytes, parsetype' = "overrun", headpos' = first,
              UNCHANGED body
       PROVE  Good
  <2>1. first + 2 <= Len(bytes) /\ first \in Nat \ {0}
    BY <1>1, <1>10 DEF HEADLEN
  <2>2. Decided' = d + (first - 1)
    <3>1. Decided' = Len(fed) - (Len(input') + (Len(bytes) - first + 1))
      BY <1>10 DEF Decided, Undecided
    <3>2. /\ d \in Nat /\ Len(bytes) \in Nat /\ Len(input') \in Nat /\ Len(fed) \in Nat
          /\ d + Len(bytes) + Len(input') = Len(fed) /\ first \in Nat
      BY <1>1, <2>1
    <3> HIDE DEF d
    <3>3. QED
      BY <3>1, <3>2
  <2>3. Skips
    BY <1>2, <1>6, <1>10, <2>2
  <2>4. ParserOK'
    <3>1. Len(read') <= cap' /\ HEADLEN + 2 <= cap'
      BY <1>1, <1>10
    <3>2. headpos' + HEADLEN <= Len(read') /\ read'[headpos'] = HEAD /\ Valid(read'[headpos' + 1])
      BY <1>10, <2>1 DEF HEADLEN
    <3>3. Number[read'[headpos' + HEADLEN]] >= INT_MAX
      BY <1>10 DEF HEADLEN
    <3>4. QED
      BY <1>10, <3>1, <3>2, <3>3 DEF ParserOK
  <2>5. \A i \in headpos' .. Len(read') : read'[i] = fed'[Decided' + 1 + i - headpos']
    <3> TAKE i \in headpos' .. Len(read')
    <3>1. i \in 1 .. Len(bytes) /\ Decided' + 1 + i - headpos' = d + i
      BY <1>1, <1>10, <2>1, <2>2
    <3>2. QED
      BY <1>1, <1>10, <3>1
  <2>6. Stands(input, Len(fed) - Len(input))' /\ Decided' \in Nat
    BY <1>1, <2>1, <2>2 DEF Stands
  <2>7. Window'
    BY <1>10, <2>5, <2>6 DEF Window
  <2>8. QED
    BY <1>1, <1>10, <2>1, <2>3, <2>4, <2>7 DEF Good, TypeOK
<1>11. ASSUME NEW first \in 1 .. Len(bytes), bytes[first] = HEAD,
              \A i \in 1 .. first - 1 : bytes[i] # HEAD,
              \/ /\ Len(bytes) - first < HEADLEN
                 /\ read' = From(bytes, first)
                 /\ UNCHANGED <<parsetype, headpos, body>>
              \/ /\ HEADLEN <= Len(bytes) - first
                 /\ ~Valid(bytes[first + 1])
                 /\ read' = From(bytes, first + 1)
                 /\ UNCHANGED <<parsetype, headpos, body>>
              \/ /\ HEADLEN <= Len(bytes) - first
                 /\ Valid(bytes[first + 1]) /\ Number[bytes[first + 2]] < INT_MAX
                 /\ read' = bytes /\ parsetype' = "head" /\ headpos' = first
                 /\ body' = SubSeq(bytes, first + HEADLEN + 1,
                                   IF Enough' THEN first + HEADLEN + BodyLen'
                                   ELSE Len(bytes))
              \/ /\ HEADLEN <= Len(bytes) - first
                 /\ Valid(bytes[first + 1]) /\ Number[bytes[first + 2]] >= INT_MAX
                 /\ read' = bytes /\ parsetype' = "overrun" /\ headpos' = first
                 /\ UNCHANGED body
       PROVE  Good
  BY <1>7, <1>8, <1>9, <1>10, <1>11
<1>12. Good
  BY FindHeadCases, <1>5, <1>11, Zenon
<1>13. QED
  BY <1>12 DEF Good

\* A turn keeps the parser in order and decides on the bytes from Decided on.
Turn ==
    /\ Skips \/ Takes
    /\ ParserOK' /\ Window'
    /\ parsetype' \in {"nothing", "head", "overrun"} /\ headpos' \in Nat \ {0} /\ cap' \in Nat
    /\ read' \in Seq(Bytes) /\ body' \in Seq(Bytes) /\ input' \in Seq(Bytes)
    /\ UNCHANGED <<wire, sent, fed, ends, conns>>

\* Looking for a header skips bytes at which no frame begins.
LEMMA SearchTurn ==
    ASSUME TypeOK, ParserOK, Window, Search
    PROVE  Turn
<1> DEFINE room == cap - Len(read)
           n == IF room \in 0 .. Len(input) THEN room ELSE Len(input)
           bytes == read \o SubSeq(input, 1, n)
<1>1. /\ parsetype = "nothing" /\ FindHead(bytes) /\ input' = From(input, n + 1)
      /\ UNCHANGED <<cap, wire, sent, got, fed, at, ends, conns>>
  BY DEF Search
<1>2. /\ Len(read) \in Nat /\ Len(input) \in Nat /\ Len(fed) \in Nat /\ cap \in Nat
      /\ read \in Seq(Bytes) /\ input \in Seq(Bytes) /\ fed \in Seq(Bytes)
      /\ Len(read) <= cap
  BY DEF TypeOK, ParserOK
<1>3. n \in 0 .. Len(input) /\ Len(read) + n <= cap
  BY <1>2
<1> HIDE DEF n
<1> DEFINE part == SubSeq(input, 1, n)
<1>4. part \in Seq(Bytes) /\ Len(part) = n /\ \A i \in 1 .. n : part[i] = input[i]
  <2>1. /\ part \in Seq(Bytes) /\ Len(part) = n - 1 + 1
        /\ \A i \in 1 .. n - 1 + 1 : part[i] = input[1 + i - 1]
    BY <1>2, <1>3, Part
  <2>2. n - 1 + 1 = n /\ \A i \in 1 .. n : 1 + i - 1 = i
    BY <1>2, <1>3
  <2>3. QED
    BY <2>1, <2>2
<1>5. /\ input' \in Seq(Bytes) /\ Len(input') = Len(input) - n
      /\ \A i \in 1 .. Len(input) - n : input'[i] = input[n + i]
  <2>1. /\ From(input, n + 1) \in Seq(Bytes)
        /\ Len(From(input, n + 1)) = Len(input) - (n + 1) + 1
        /\ \A i \in 1 .. Len(input) - (n + 1) + 1 : From(input, n + 1)[i] = input[(n + 1) + i - 1]
    <3>1. n + 1 \in Nat /\ 1 <= n + 1 /\ n + 1 <= Len(input) + 1 /\ input \in Seq(Bytes)
      BY <1>2, <1>3
    <3>2. QED
      BY <3>1, Rest
  <2>2. /\ Len(input) - (n + 1) + 1 = Len(input) - n
        /\ \A i \in 1 .. Len(input) - n : (n + 1) + i - 1 = n + i
    BY <1>2, <1>3
  <2>3. QED
    BY <1>1, <2>1, <2>2
<1> HIDE DEF part
<1>6. /\ bytes \in Seq(Bytes) /\ Len(bytes) = Len(read) + n
      /\ \A i \in 1 .. Len(read) : bytes[i] = read[i]
      /\ \A i \in 1 .. n : bytes[Len(read) + i] = input[i]
  <2>1. /\ read \o part \in Seq(Bytes) /\ Len(read \o part) = Len(read) + Len(part)
        /\ \A i \in 1 .. Len(read) : (read \o part)[i] = read[i]
        /\ \A i \in 1 .. Len(part) : (read \o part)[Len(read) + i] = part[i]
    <3>1. read \in Seq(Bytes) /\ part \in Seq(Bytes)
      BY <1>2, <1>4
    <3>2. QED
      BY <3>1, Joined
  <2>2. bytes = read \o part
    BY DEF part
  <2>3. QED
    BY <1>4, <2>1, <2>2
<1> HIDE DEF bytes
<1> DEFINE d == Decided
<1>7. /\ d \in Nat /\ d + Len(read) + Len(input) = Len(fed)
      /\ \A i \in 1 .. Len(read) : read[i] = fed[d + i]
      /\ \A i \in 1 .. Len(input) : input[i] = fed[Len(fed) - Len(input) + i]
  BY <1>1, <1>2 DEF Window, Stands, Decided, Undecided
<1>8. d + Len(bytes) + Len(input') = Len(fed)
  <2>1. /\ d \in Nat /\ n \in Nat /\ d + Len(read) + Len(input) = Len(fed)
        /\ Len(bytes) = Len(read) + n /\ Len(input') = Len(input) - n
        /\ Len(read) \in Nat /\ Len(input) \in Nat
    BY <1>2, <1>3, <1>5, <1>6, <1>7
  <2> HIDE DEF d
  <2>2. QED
    BY <2>1
<1>9. Stands(bytes, Decided)
  <2>1. ASSUME NEW i \in 1 .. Len(bytes) PROVE bytes[i] = fed[d + i]
    <3>1. CASE i \in 1 .. Len(read)
      BY <1>6, <1>7, <3>1
    <3>2. CASE i \notin 1 .. Len(read)
      <4>1. /\ i - Len(read) \in 1 .. n /\ i - Len(read) \in 1 .. Len(input)
            /\ Len(read) + (i - Len(read)) = i
            /\ Len(fed) - Len(input) + (i - Len(read)) = d + i
        <5>1. /\ d \in Nat /\ n \in 0 .. Len(input) /\ d + Len(read) + Len(input) = Len(fed)
              /\ Len(read) \in Nat /\ Len(input) \in Nat /\ i \in 1 .. Len(read) + n
          BY <1>2, <1>3, <1>6, <1>7
        <5> HIDE DEF d
        <5>2. QED
          BY <3>2, <5>1
      <4>2. bytes[i] = input[i - Len(read)]
        BY <1>6, <4>1
      <4>3. QED
        BY <1>7, <4>1, <4>2
    <3>3. QED
      BY <3>1, <3>2
  <2>2. QED
    BY <2>1 DEF Stands
<1>10. Stands(input', Len(fed) - Len(input'))
  <2>1. ASSUME NEW i \in 1 .. Len(input') PROVE input'[i] = fed[Len(fed) - Len(input') + i]
    <3>1. /\ i \in 1 .. Len(input) - n /\ n + i \in 1 .. Len(input)
          /\ Len(fed) - Len(input) + (n + i) = Len(fed) - Len(input') + i
      BY <1>2, <1>3, <1>5
    <3>2. QED
      BY <1>5, <1>7, <3>1
  <2>2. QED
    BY <2>1 DEF Stands
<1>11. /\ Skips /\ ParserOK' /\ Window'
       /\ parsetype' \in {"nothing", "head", "overrun"} /\ read' \in Seq(Bytes)
       /\ body' \in Seq(Bytes) /\ headpos' \in Nat \ {0}
  <2>1. Len(bytes) <= cap /\ fed' = fed /\ cap' = cap /\ UNCHANGED <<got, at>>
    BY <1>1, <1>2, <1>3, <1>6
  <2>2. QED
    BY <1>1, <1>5, <1>6, <1>8, <1>9, <1>10, <2>1, FindHeadTurn
<1>12. QED
  BY <1>1, <1>2, <1>5, <1>11 DEF Turn

\* The numbers of a turn with a header.
LEMMA HeadWindow ==
    ASSUME TypeOK, ParserOK, Window, parsetype = "head"
    PROVE  LET n == Number[read[headpos + 2]]
               d == Decided
           IN  /\ n \in Nat /\ BodyLen = n + 1 /\ Missing = n + 1 - Len(body)
               /\ d \in Nat /\ Len(fed) \in Nat /\ Len(input) \in Nat /\ Len(read) \in Nat
               /\ Len(body) \in Nat /\ Len(body) <= n + 1 /\ headpos \in Nat \ {0}
               /\ headpos + 2 <= Len(read) /\ Len(read) <= cap /\ cap \in Nat
               /\ Enough <=> Len(read) - headpos - 2 >= n + 1
               /\ Enough => /\ Len(body) = n + 1
                            /\ d + (Len(read) - headpos + 1) + Len(input) = Len(fed)
               /\ ~Enough => /\ d + 3 + Len(body) + Len(input) = Len(fed)
                             /\ Len(read) - headpos - 2 <= Len(body)
               /\ d + 3 + Len(body) + Len(input) <= Len(fed)
               /\ fed[d + 1] = HEAD /\ Valid(fed[d + 2]) /\ Number[fed[d + 3]] = n
               /\ fed[d + 2] = read[headpos + 1] /\ fed[d + 3] = read[headpos + 2]
               /\ \A i \in 1 .. Len(body) : body[i] = fed[d + 3 + i]
               /\ \A i \in 1 .. Len(input) : input[i] = fed[Len(fed) - Len(input) + i]
               /\ \A i \in headpos .. Len(read) : read[i] = fed[d + 1 + i - headpos]
<1> DEFINE n == Number[read[headpos + 2]]
           d == Decided
<1>1. n \in Nat /\ BodyLen = n + 1 /\ Number[read[headpos + 2]] = n
  BY BodyLenNat
<1> HIDE DEF n
<1>2. Missing = n + 1 - Len(body)
  BY <1>1 DEF Missing
<1>3. /\ d \in Nat /\ Len(fed) \in Nat /\ Len(input) \in Nat /\ Len(read) \in Nat
      /\ Len(body) \in Nat /\ Len(body) <= n + 1 /\ headpos \in Nat \ {0}
      /\ headpos + 2 <= Len(read) /\ Len(read) <= cap /\ cap \in Nat
  <2>1. Len(body) <= BodyLen /\ headpos + 2 <= Len(read) /\ Len(read) <= cap
    BY DEF ParserOK, HEADLEN
  <2>2. /\ d \in Nat /\ Len(fed) \in Nat /\ Len(input) \in Nat /\ Len(read) \in Nat
        /\ Len(body) \in Nat /\ headpos \in Nat \ {0} /\ cap \in Nat
    BY DEF TypeOK, Window
  <2>3. QED
    BY <1>1, <2>1, <2>2
<1>4. Enough <=> Len(read) - headpos - 2 >= n + 1
  BY <1>1 DEF Enough, HEADLEN
<1> USE DEF n
<1>5. Enough => Len(body) = n + 1 /\ d + (Len(read) - headpos + 1) + Len(input) = Len(fed)
  BY <1>1, <1>3 DEF ParserOK, Decided, Undecided
<1>6. ~Enough => /\ d + 3 + Len(body) + Len(input) = Len(fed)
                 /\ Len(read) - headpos - 2 <= Len(body)
  <2>1. SUFFICES ASSUME ~Enough
                 PROVE  /\ d + 3 + Len(body) + Len(input) = Len(fed)
                        /\ Len(read) - headpos - 2 <= Len(body)
    OBVIOUS
  <2>2. d = Len(fed) - (Len(input) + (1 + 2 + Len(body)))
    BY <2>1 DEF Decided, Undecided, HEADLEN
  <2>3. Len(read) - headpos - 2 <= Len(body)
    BY <2>1 DEF ParserOK, HEADLEN
  <2> HIDE DEF d
  <2>4. QED
    BY <1>3, <2>2, <2>3
<1>7. d + 3 + Len(body) + Len(input) <= Len(fed)
  <2> HIDE DEF d, Enough
  <2>1. CASE Enough
    <3>1. Len(read) - headpos + 1 >= 3 + Len(body) \/ Len(body) + 3 <= Len(read) - headpos + 1
      BY <1>1, <1>3, <1>4, <1>5, <2>1
    <3>2. QED
      BY <1>3, <1>5, <2>1, <3>1
  <2>2. CASE ~Enough
    BY <1>3, <1>6, <2>2
  <2>3. QED
    BY <2>1, <2>2
<1>8. /\ \A i \in 1 .. Len(body) : body[i] = fed[d + 3 + i]
      /\ \A i \in 1 .. Len(input) : input[i] = fed[Len(fed) - Len(input) + i]
      /\ \A i \in headpos .. Len(read) : read[i] = fed[d + 1 + i - headpos]
  <2>1. d + 1 + HEADLEN = d + 3
    BY <1>3 DEF HEADLEN
  <2>2. QED
    BY <2>1 DEF Window, Stands
<1>9. /\ fed[d + 1] = HEAD /\ Valid(fed[d + 2]) /\ Number[fed[d + 3]] = n
      /\ fed[d + 2] = read[headpos + 1] /\ fed[d + 3] = read[headpos + 2]
  <2>0. read[headpos] = HEAD /\ Valid(read[headpos + 1])
    BY DEF ParserOK
  <2>1. /\ headpos \in headpos .. Len(read) /\ headpos + 1 \in headpos .. Len(read)
        /\ headpos + 2 \in headpos .. Len(read)
        /\ d + 1 + headpos - headpos = d + 1 /\ d + 1 + (headpos + 1) - headpos = d + 2
        /\ d + 1 + (headpos + 2) - headpos = d + 3
    BY <1>3
  <2>2. QED
    BY <1>1, <1>3, <1>8, <2>0, <2>1
<1>10. QED
  BY <1>1, <1>2, <1>3, <1>4, <1>5, <1>6, <1>7, <1>8, <1>9 DEF n

\* A read that does not complete the payload decides on nothing.
LEMMA CollectTurn ==
    ASSUME TypeOK, ParserOK, Window, Collect
    PROVE  Turn
<1> DEFINE n == Number[read[headpos + 2]]
           d == Decided
<1>1. /\ parsetype = "head" /\ Len(input) < Missing
      /\ body' = body \o input /\ input' = <<>>
      /\ UNCHANGED <<parsetype, read, cap, headpos, wire, sent, got, fed, at, ends, conns>>
  BY DEF Collect
<1>2. /\ n \in Nat /\ BodyLen = n + 1 /\ Missing = n + 1 - Len(body)
      /\ d \in Nat /\ Len(fed) \in Nat /\ Len(input) \in Nat /\ Len(read) \in Nat
      /\ Len(body) \in Nat /\ headpos \in Nat \ {0}
      /\ Enough => Len(body) = n + 1
      /\ ~Enough => /\ d + 3 + Len(body) + Len(input) = Len(fed)
                    /\ Len(read) - headpos - 2 <= Len(body)
      /\ \A i \in 1 .. Len(body) : body[i] = fed[d + 3 + i]
      /\ \A i \in 1 .. Len(input) : input[i] = fed[Len(fed) - Len(input) + i]
      /\ \A i \in headpos .. Len(read) : read[i] = fed[d + 1 + i - headpos]
  BY <1>1, HeadWindow
<1>3. ~Enough
  BY <1>1, <1>2
<1>4. /\ body' \in Seq(Bytes) /\ Len(body') = Len(body) + Len(input)
      /\ \A i \in 1 .. Len(body) : body'[i] = body[i]
      /\ \A i \in 1 .. Len(input) : body'[Len(body) + i] = input[i]
  BY <1>1, Joined DEF TypeOK
<1>5. Enough' = Enough /\ BodyLen' = BodyLen
  BY <1>1 DEF Enough, BodyLen
<1>6. Decided' = d
  <2>1. Decided' = Len(fed) - (0 + (1 + 2 + Len(body')))
    BY <1>1, <1>3, <1>5 DEF Decided, Undecided, HEADLEN
  <2> HIDE DEF d
  <2>2. QED
    BY <1>2, <1>3, <1>4, <2>1
<1> HIDE DEF d, n
<1>7. ParserOK'
  <2>1. Len(body') <= BodyLen'
    BY <1>1, <1>2, <1>4, <1>5
  <2>2. ~Enough' /\ Len(read') - headpos' - HEADLEN <= Len(body')
    BY <1>1, <1>2, <1>3, <1>4, <1>5 DEF HEADLEN
  <2>3. QED
    BY <1>1, <2>1, <2>2 DEF ParserOK
<1>8. ASSUME NEW i \in 1 .. Len(body') PROVE body'[i] = fed[d + 3 + i]
  <2>1. CASE i \in 1 .. Len(body)
    BY <1>2, <1>4, <2>1
  <2>2. CASE i \notin 1 .. Len(body)
    <3>1. /\ i - Len(body) \in 1 .. Len(input) /\ Len(body) + (i - Len(body)) = i
          /\ Len(fed) - Len(input) + (i - Len(body)) = d + 3 + i
      <4>1. /\ d \in Nat /\ d + 3 + Len(body) + Len(input) = Len(fed)
            /\ Len(body) \in Nat /\ Len(input) \in Nat /\ i \in 1 .. Len(body) + Len(input)
        BY <1>2, <1>3, <1>4
      <4>2. QED
        BY <2>2, <4>1
    <3>2. body'[i] = input[i - Len(body)]
      BY <1>4, <3>1
    <3>3. QED
      BY <1>2, <3>1, <3>2
  <2>3. QED
    BY <2>1, <2>2
<1>9. Window'
  <2>1. Decided' + 1 + HEADLEN = d + 3 /\ Decided' \in Nat /\ Decided' + 1 = d + 1
    BY <1>2, <1>6 DEF HEADLEN
  <2>2. Stands(body, Decided + 1 + HEADLEN)'
    BY <1>1, <1>8, <2>1 DEF Stands
  <2>3. Stands(input, Len(fed) - Len(input))'
    BY <1>1 DEF Stands
  <2>4. \A i \in headpos' .. Len(read') : read'[i] = fed'[Decided' + 1 + i - headpos']
    BY <1>1, <1>2, <1>6
  <2>5. QED
    BY <1>1, <2>1, <2>2, <2>3, <2>4 DEF Window
<1>10. Skips
  <2>1. /\ Decided = d /\ Decided' = d /\ d \in Nat /\ d <= Len(fed)
    BY <1>2, <1>3, <1>6 DEF d
  <2>2. QED
    BY <1>1, <2>1 DEF Skips
<1>11. QED
  BY <1>1, <1>4, <1>7, <1>9, <1>10 DEF Turn, TypeOK

\* The payload with its tail, and whether it is that of a frame.
LEMMA CompleteBody ==
    ASSUME TypeOK, ParserOK, Window, parsetype = "head", Missing <= Len(input),
           input' = From(input, Missing + 1)
    PROVE  LET n == Number[read[headpos + 2]]
               d == Decided
               b == body \o SubSeq(input, 1, Missing)
           IN  /\ b \in Seq(Bytes) /\ Len(b) = n + 1
               /\ \A i \in 1 .. n + 1 : b[i] = fed[d + 3 + i]
               /\ Front(b) \in Seq(Bytes) /\ Len(Front(b)) = n
               /\ \A i \in 1 .. n : Front(b)[i] = fed[d + 3 + i]
               /\ Last(b) = fed[d + n + 4]
               /\ input' \in Seq(Bytes) /\ Len(input') = Len(input) - Missing
               /\ Stands(input', Len(fed) - Len(input'))
               /\ d + n + 4 + Len(input') <= Len(fed)
               /\ ~Enough => d + n + 4 + Len(input') = Len(fed)
               /\ Enough => Missing = 0 /\ input' = input
<1> DEFINE n == Number[read[headpos + 2]]
           d == Decided
           m == Missing
           part == SubSeq(input, 1, m)
           b == body \o part
<1>1. /\ n \in Nat /\ m = n + 1 - Len(body)
      /\ d \in Nat /\ Len(fed) \in Nat /\ Len(input) \in Nat
      /\ Len(body) \in Nat /\ Len(body) <= n + 1
      /\ Enough => Len(body) = n + 1
      /\ ~Enough => d + 3 + Len(body) + Len(input) = Len(fed)
      /\ d + 3 + Len(body) + Len(input) <= Len(fed)
      /\ \A i \in 1 .. Len(body) : body[i] = fed[d + 3 + i]
      /\ \A i \in 1 .. Len(input) : input[i] = fed[Len(fed) - Len(input) + i]
  BY HeadWindow
<1>2. m \in 0 .. Len(input) /\ input \in Seq(Bytes) /\ body \in Seq(Bytes) /\ input' = From(input, m + 1)
  <2>1. m \in 0 .. Len(input)
    <3>1. m <= Len(input)
      OBVIOUS
    <3>2. /\ n \in Nat /\ m = n + 1 - Len(body) /\ Len(body) \in Nat /\ Len(body) <= n + 1
          /\ Len(input) \in Nat
      BY <1>1
    <3> HIDE DEF n, m
    <3>3. QED
      BY <3>1, <3>2
  <2>2. QED
    BY <2>1 DEF TypeOK
<1> HIDE DEF n, d, m
<1>3. part \in Seq(Bytes) /\ Len(part) = m /\ \A i \in 1 .. m : part[i] = input[i]
  <2>1. m \in Nat /\ 1 <= m + 1 /\ m <= Len(input) /\ 1 \in Nat /\ 1 <= 1
    BY <1>1, <1>2
  <2>2. /\ part \in Seq(Bytes) /\ Len(part) = m - 1 + 1
        /\ \A i \in 1 .. m - 1 + 1 : part[i] = input[1 + i - 1]
    BY <1>2, <2>1, Part
  <2>3. m - 1 + 1 = m /\ \A i \in 1 .. m : 1 + i - 1 = i
    BY <2>1
  <2>4. QED
    BY <2>2, <2>3
<1>4. /\ input' \in Seq(Bytes) /\ Len(input') = Len(input) - m
      /\ \A i \in 1 .. Len(input) - m : input'[i] = input[m + i]
  <2>1. m + 1 \in Nat /\ 1 <= m + 1 /\ m + 1 <= Len(input) + 1
    BY <1>1, <1>2
  <2>2. /\ From(input, m + 1) \in Seq(Bytes)
        /\ Len(From(input, m + 1)) = Len(input) - (m + 1) + 1
        /\ \A i \in 1 .. Len(input) - (m + 1) + 1 : From(input, m + 1)[i] = input[(m + 1) + i - 1]
    BY <1>2, <2>1, Rest
  <2>3. /\ Len(input) - (m + 1) + 1 = Len(input) - m
        /\ \A i \in 1 .. Len(input) - m : (m + 1) + i - 1 = m + i
    BY <1>1, <1>2
  <2>4. QED
    BY <1>2, <2>2, <2>3
<1> HIDE DEF part
<1>5. /\ b \in Seq(Bytes) /\ Len(b) = Len(body) + m
      /\ \A i \in 1 .. Len(body) : b[i] = body[i]
      /\ \A i \in 1 .. m : b[Len(body) + i] = input[i]
  <2>1. /\ body \o part \in Seq(Bytes) /\ Len(body \o part) = Len(body) + Len(part)
        /\ \A i \in 1 .. Len(body) : (body \o part)[i] = body[i]
        /\ \A i \in 1 .. Len(part) : (body \o part)[Len(body) + i] = part[i]
    <3>1. body \in Seq(Bytes) /\ part \in Seq(Bytes)
      BY <1>2, <1>3
    <3>2. QED
      BY <3>1, Joined
  <2>2. QED
    BY <1>3, <2>1
<1> HIDE DEF b
<1>6. Len(b) = n + 1 /\ ~Enough => Len(body) < n + 1 \/ Len(body) = n + 1
  BY <1>1, <1>5
<1>7. Enough => m = 0 /\ input' = input
  <2>1. ASSUME Enough PROVE m = 0
    BY <1>1, <2>1
  <2>2. From(input, 1) = input
    BY <1>2 DEF From
  <2>3. QED
    BY <1>2, <2>1, <2>2
<1>8. /\ Len(b) = n + 1
      /\ \A i \in 1 .. n + 1 : b[i] = fed[d + 3 + i]
  <2>1. Len(b) = n + 1
    BY <1>1, <1>5
  <2>2. ASSUME NEW i \in 1 .. n + 1 PROVE b[i] = fed[d + 3 + i]
    <3>1. CASE i \in 1 .. Len(body)
      BY <1>1, <1>5, <3>1
    <3>2. CASE i \notin 1 .. Len(body)
      <4>1. ~Enough
        BY <1>1, <3>2
      <4>2. /\ d \in Nat /\ n \in Nat /\ d + 3 + Len(body) + Len(input) = Len(fed)
            /\ m = n + 1 - Len(body) /\ m \in 0 .. Len(input)
            /\ Len(body) \in Nat /\ Len(input) \in Nat
        BY <1>1, <1>2, <4>1
      <4>3. /\ i - Len(body) \in 1 .. m /\ i - Len(body) \in 1 .. Len(input)
            /\ Len(body) + (i - Len(body)) = i
            /\ Len(fed) - Len(input) + (i - Len(body)) = d + 3 + i
        BY <3>2, <4>2
      <4>4. b[i] = input[i - Len(body)]
        BY <1>5, <4>3
      <4>5. QED
        BY <1>1, <4>3, <4>4
    <3>3. QED
      BY <3>1, <3>2
  <2>3. QED
    BY <2>1, <2>2
<1>9. /\ Front(b) \in Seq(Bytes) /\ Len(Front(b)) = n
      /\ \A i \in 1 .. n : Front(b)[i] = b[i]
  <2>1. Front(b) = SubSeq(b, 1, n)
    BY <1>1, <1>8 DEF Front
  <2>2. /\ SubSeq(b, 1, n) \in Seq(Bytes) /\ Len(SubSeq(b, 1, n)) = n - 1 + 1
        /\ \A i \in 1 .. n - 1 + 1 : SubSeq(b, 1, n)[i] = b[1 + i - 1]
    <3>1. n \in Nat /\ 1 <= n + 1 /\ n <= Len(b) /\ 1 \in Nat /\ 1 <= 1
      BY <1>1, <1>8
    <3>2. QED
      BY <1>5, <3>1, Part
  <2>3. n - 1 + 1 = n /\ \A i \in 1 .. n : 1 + i - 1 = i
    BY <1>1
  <2>4. QED
    BY <2>1, <2>2, <2>3
<1>10. Last(b) = fed[d + n + 4]
  <2>1. n + 1 \in 1 .. n + 1 /\ d + 3 + (n + 1) = d + n + 4
    BY <1>1
  <2>2. QED
    BY <1>8, <2>1 DEF Last
<1>11. Stands(input', Len(fed) - Len(input'))
  <2>1. ASSUME NEW i \in 1 .. Len(input') PROVE input'[i] = fed[Len(fed) - Len(input') + i]
    <3>1. /\ i \in 1 .. Len(input) - m /\ m + i \in 1 .. Len(input)
          /\ Len(fed) - Len(input) + (m + i) = Len(fed) - Len(input') + i
      <4>1. /\ Len(fed) \in Nat /\ Len(input) \in Nat /\ m \in 0 .. Len(input)
            /\ Len(input') = Len(input) - m /\ i \in 1 .. Len(input')
        BY <1>1, <1>2, <1>4
      <4>2. QED
        BY <4>1
    <3>2. QED
      BY <1>1, <1>4, <3>1
  <2>2. QED
    BY <2>1 DEF Stands
<1>12. /\ d + n + 4 + Len(input') <= Len(fed)
       /\ ~Enough => d + n + 4 + Len(input') = Len(fed)
  <2>1. /\ n \in Nat /\ m = n + 1 - Len(body) /\ d \in Nat /\ Len(input) \in Nat /\ Len(body) \in Nat
        /\ Len(fed) \in Nat /\ Len(input') = Len(input) - m
        /\ d + 3 + Len(body) + Len(input) <= Len(fed)
        /\ ~Enough => d + 3 + Len(body) + Len(input) = Len(fed)
    BY <1>1, <1>4
  <2>2. QED
    BY <2>1
<1>13. \A i \in 1 .. n : Front(b)[i] = fed[d + 3 + i]
  BY <1>1, <1>8, <1>9
<1>14. QED
  BY <1>4, <1>5, <1>7, <1>8, <1>9, <1>10, <1>11, <1>12, <1>13 DEF b, part, m, n, d

\* A complete payload is taken with its frame, or its header is skipped.
LEMMA CompleteTurn ==
    ASSUME TypeOK, ParserOK, Window, Complete
    PROVE  Turn
<1> DEFINE n == Number[read[headpos + 2]]
           d == Decided
           b == body \o SubSeq(input, 1, Missing)
           good == Last(b) = TAIL /\ read[headpos + 1] = Mark(Front(b))
<1>1. /\ parsetype = "head" /\ Missing <= Len(input)
      /\ good => Deliver(b)
      /\ ~good => Rescan(b)
      /\ body' = b /\ input' = From(input, Missing + 1)
      /\ UNCHANGED <<headpos, wire, sent, fed, ends, conns>>
  BY DEF Complete
<1>2. /\ n \in Nat /\ BodyLen = n + 1
      /\ d \in Nat /\ Len(fed) \in Nat /\ Len(input) \in Nat /\ Len(read) \in Nat
      /\ headpos \in Nat \ {0} /\ headpos + 2 <= Len(read) /\ Len(read) <= cap /\ cap \in Nat
      /\ Enough <=> Len(read) - headpos - 2 >= n + 1
      /\ Enough => d + (Len(read) - headpos + 1) + Len(input) = Len(fed)
      /\ fed[d + 1] = HEAD /\ Valid(fed[d + 2]) /\ Number[fed[d + 3]] = n
      /\ fed[d + 2] = read[headpos + 1]
      /\ \A i \in headpos .. Len(read) : read[i] = fed[d + 1 + i - headpos]
  BY <1>1, HeadWindow
<1>3. /\ b \in Seq(Bytes) /\ Len(b) = n + 1
      /\ \A i \in 1 .. n + 1 : b[i] = fed[d + 3 + i]
      /\ Front(b) \in Seq(Bytes) /\ Len(Front(b)) = n
      /\ \A i \in 1 .. n : Front(b)[i] = fed[d + 3 + i]
      /\ Last(b) = fed[d + n + 4]
      /\ input' \in Seq(Bytes)
      /\ Stands(input', Len(fed) - Len(input'))
      /\ d + n + 4 + Len(input') <= Len(fed)
      /\ ~Enough => d + n + 4 + Len(input') = Len(fed)
      /\ Enough => input' = input
  BY <1>1, CompleteBody
<1>4. read \in Seq(Bytes) /\ fed \in Seq(Bytes) /\ Len(input') \in Nat /\ HEADLEN + 2 <= cap
  BY <1>3 DEF TypeOK, ParserOK
<1> HIDE DEF n, d, b, good
<1>5. /\ n \in Nat /\ d \in Nat /\ Len(fed) \in Nat /\ Len(read) \in Nat /\ Len(input') \in Nat
      /\ headpos \in Nat \ {0} /\ headpos + 2 <= Len(read) /\ Len(read) <= cap /\ cap \in Nat
      /\ Enough <=> Len(read) - headpos - 2 >= n + 1
      /\ Enough => d + (Len(read) - headpos + 1) + Len(input') = Len(fed) /\ input' = input
      /\ ~Enough => d + n + 4 + Len(input') = Len(fed)
      /\ d + n + 4 + Len(input') <= Len(fed)
      /\ Len(b) = n + 1 /\ Len(Front(b)) = n
  BY <1>2, <1>3, <1>4
<1>6. ASSUME NEW m \in Nat, m <= n + 4, Decided' = d + m, parsetype' = "nothing",
             read' \in Seq(Bytes), Len(read') <= cap', cap' \in Nat, cap <= cap',
             \A i \in 1 .. Len(read') : read'[i] = fed[d + m + i]
      PROVE  /\ ParserOK' /\ Window'
             /\ parsetype' \in {"nothing", "head", "overrun"} /\ headpos' \in Nat \ {0} /\ cap' \in Nat
             /\ read' \in Seq(Bytes) /\ body' \in Seq(Bytes) /\ input' \in Seq(Bytes)
             /\ UNCHANGED <<wire, sent, fed, ends, conns>>
  <2>1. ParserOK'
    <3>1. HEADLEN + 2 <= cap'
      BY <1>4, <1>5, <1>6 DEF HEADLEN
    <3>2. QED
      BY <1>6, <3>1 DEF ParserOK
  <2>2. Stands(read, Decided)' /\ Stands(input, Len(fed) - Len(input))' /\ Decided' \in Nat
    <3>1. d \in Nat /\ m \in Nat
      BY <1>1, <1>5
    <3>2. d + m \in Nat
      BY <3>1
    <3>3. fed' = fed
      BY <1>1
    <3>4. QED
      BY <1>3, <1>6, <3>2, <3>3 DEF Stands
  <2>3. Window'
    BY <1>6, <2>2 DEF Window
  <2>4. QED
    BY <1>1, <1>2, <1>3, <1>6, <2>1, <2>3
<1>7. CASE good
  <2>1. /\ parsetype' = "nothing" /\ cap' = cap
        /\ read' = IF Enough THEN From(read, headpos + HEADLEN + BodyLen + 1) ELSE <<>>
        /\ got' = Append(got, Front(b)) /\ at' = Append(at, Decided + 1)
    BY <1>1, <1>7 DEF Deliver
  <2>2. /\ read' \in Seq(Bytes) /\ Decided' = d + (n + 4) /\ Len(read') <= cap
        /\ \A i \in 1 .. Len(read') : read'[i] = fed[d + (n + 4) + i]
    <3>1. CASE Enough
      <4>1. read' = From(read, headpos + n + 4) /\ Decided' = Len(fed) - (Len(input) + Len(read'))
        <5>1. headpos + HEADLEN + BodyLen + 1 = headpos + n + 4
          BY <1>2 DEF HEADLEN
        <5>2. Decided' = Len(fed) - (Len(input) + Len(read'))
          BY <1>1, <1>3, <2>1, <3>1 DEF Decided, Undecided
        <5>3. QED
          BY <2>1, <3>1, <5>1, <5>2
      <4>2. headpos + n + 4 \in Nat /\ 1 <= headpos + n + 4 /\ headpos + n + 4 <= Len(read) + 1
        BY <1>5, <3>1
      <4>3. /\ read' \in Seq(Bytes) /\ Len(read') = Len(read) - (headpos + n + 4) + 1
            /\ \A i \in 1 .. Len(read) - (headpos + n + 4) + 1 :
                  read'[i] = read[(headpos + n + 4) + i - 1]
        BY <1>4, <4>1, <4>2, Rest
      <4>4. /\ Decided' = d + (n + 4) /\ Len(read') <= cap
        <5>1. /\ Len(read') = Len(read) - (headpos + n + 4) + 1
              /\ Decided' = Len(fed) - (Len(input') + Len(read'))
              /\ d + (Len(read) - headpos + 1) + Len(input') = Len(fed)
          BY <1>5, <3>1, <4>1, <4>3
        <5>2. /\ n \in Nat /\ d \in Nat /\ Len(fed) \in Nat /\ Len(read) \in Nat
              /\ Len(input') \in Nat /\ headpos \in Nat \ {0} /\ Len(read) <= cap /\ cap \in Nat
          BY <1>5
        <5>3. QED
          BY <5>1, <5>2
      <4>5. ASSUME NEW i \in 1 .. Len(read') PROVE read'[i] = fed[d + (n + 4) + i]
        <5>1. /\ (headpos + n + 4) + i - 1 \in headpos .. Len(read)
              /\ d + 1 + ((headpos + n + 4) + i - 1) - headpos = d + (n + 4) + i
              /\ i \in 1 .. Len(read) - (headpos + n + 4) + 1
          <6>1. /\ n \in Nat /\ d \in Nat /\ headpos \in Nat \ {0} /\ Len(read) \in Nat
                /\ headpos + n + 4 <= Len(read) + 1
                /\ i \in 1 .. Len(read) - (headpos + n + 4) + 1
            BY <1>5, <4>2, <4>3
          <6>2. QED
            BY <6>1
        <5>2. QED
          BY <1>2, <4>3, <5>1
      <4>6. QED
        BY <4>3, <4>4, <4>5
    <3>2. CASE ~Enough
      <4>1. read' = <<>> /\ Decided' = Len(fed) - Len(input')
        <5>1. read' = <<>> /\ parsetype' = "nothing" /\ fed' = fed
          BY <1>1, <2>1, <3>2
        <5>2. Decided' = Len(fed) - (Len(input') + 0)
          BY <5>1 DEF Decided, Undecided
        <5>3. QED
          BY <1>5, <5>1, <5>2
      <4>2. d + n + 4 + Len(input') = Len(fed)
        BY <1>3, <3>2
      <4>3. Decided' = d + (n + 4)
        <5>1. /\ d \in Nat /\ n \in Nat /\ Len(input') \in Nat /\ Len(fed) \in Nat
          BY <1>2, <1>4, <1>5
        <5>2. QED
          BY <4>1, <4>2, <5>1
      <4>4. QED
        BY <1>2, <4>1, <4>3
    <3>3. QED
      BY <3>1, <3>2
  <2>3. FrameAt(fed, d + 1, Front(b))
    <3>1. /\ fed[d + 1] = HEAD /\ fed[(d + 1) + 1] = Mark(Front(b)) /\ Number[fed[(d + 1) + 2]] = n
          /\ fed[(d + 1) + n + 3] = TAIL
      <4>1. (d + 1) + 1 = d + 2 /\ (d + 1) + 2 = d + 3 /\ (d + 1) + n + 3 = d + n + 4
        BY <1>2
      <4>2. QED
        BY <1>2, <1>3, <1>7, <4>1 DEF good
    <3>2. \A k \in 1 .. n : fed[(d + 1) + 2 + k] = Front(b)[k]
      <4>1. \A k \in 1 .. n : (d + 1) + 2 + k = d + 3 + k
        BY <1>2
      <4>2. QED
        BY <1>3, <4>1
    <3>3. d + 1 \in Nat \ {0} /\ (d + 1) + n + 3 <= Len(fed)
      BY <1>5
    <3>4. QED
      <4> DEFINE i == d + 1
                 x == Front(b)
      <4>1. /\ fed[i] = HEAD /\ fed[i + 1] = Mark(x) /\ Number[fed[i + 2]] = Len(x)
            /\ \A k \in 1 .. Len(x) : fed[i + 2 + k] = x[k]
            /\ fed[i + Len(x) + 3] = TAIL
        BY <1>3, <3>1, <3>2
      <4>2. /\ fed \in Seq(Bytes) /\ i \in Nat \ {0} /\ x \in Seq(Bytes)
            /\ i + Len(x) + 3 <= Len(fed)
        BY <1>3, <1>4, <3>3
      <4> HIDE DEF i, x
      <4>3. FrameAt(fed, i, x)
        BY <4>1, <4>2, FrameThere
      <4>4. QED
        BY <4>3 DEF i, x
  <2>4. Takes
    <3>1. Size(Front(b)) = n + 4 /\ d + (n + 4) <= Len(fed)
      BY <1>5 DEF Size, HEADLEN
    <3>2. QED
      BY <1>3, <1>5, <2>1, <2>2, <2>3, <3>1 DEF Takes, d
  <2>5. n + 4 \in Nat /\ n + 4 <= n + 4 /\ cap <= cap' /\ cap' \in Nat /\ Len(read') <= cap'
    BY <1>2, <2>1, <2>2
  <2>6. QED
    BY <1>6, <2>1, <2>2, <2>4, <2>5 DEF Turn
<1>8. CASE ~good
  <2>1. /\ parsetype' = "nothing" /\ UNCHANGED <<got, at>>
        /\ read' = IF Enough THEN From(read, headpos + 1)
                   ELSE SubSeq(read, headpos + 1, headpos + HEADLEN) \o b
        /\ cap' = IF Enough \/ cap >= HEADLEN + BodyLen THEN cap ELSE HEADLEN + BodyLen
    BY <1>1, <1>8 DEF Rescan
  <2>2. /\ read' \in Seq(Bytes) /\ Decided' = d + 1
        /\ Len(read') <= cap' /\ cap <= cap' /\ cap' \in Nat
        /\ \A i \in 1 .. Len(read') : read'[i] = fed[d + 1 + i]
    <3>1. CASE Enough
      <4>1. read' = From(read, headpos + 1) /\ cap' = cap
        BY <2>1, <3>1
      <4>2. Decided' = Len(fed) - (Len(input) + Len(read'))
        BY <1>1, <1>3, <2>1, <3>1 DEF Decided, Undecided
      <4>3. headpos + 1 \in Nat /\ 1 <= headpos + 1 /\ headpos + 1 <= Len(read) + 1
        BY <1>2
      <4>4. /\ read' \in Seq(Bytes) /\ Len(read') = Len(read) - (headpos + 1) + 1
            /\ \A i \in 1 .. Len(read) - (headpos + 1) + 1 : read'[i] = read[(headpos + 1) + i - 1]
        BY <1>4, <4>1, <4>3, Rest
      <4>5. Decided' = d + 1 /\ Len(read') <= cap
        <5>1. /\ Len(read') = Len(read) - (headpos + 1) + 1
              /\ Decided' = Len(fed) - (Len(input') + Len(read'))
              /\ d + (Len(read) - headpos + 1) + Len(input') = Len(fed)
          BY <1>5, <3>1, <4>2, <4>4
        <5>2. /\ d \in Nat /\ Len(fed) \in Nat /\ Len(read) \in Nat
              /\ Len(input') \in Nat /\ headpos \in Nat \ {0} /\ Len(read) <= cap /\ cap \in Nat
          BY <1>5
        <5>3. QED
          BY <5>1, <5>2
      <4>6. ASSUME NEW i \in 1 .. Len(read') PROVE read'[i] = fed[d + 1 + i]
        <5>1. /\ (headpos + 1) + i - 1 \in headpos .. Len(read)
              /\ d + 1 + ((headpos + 1) + i - 1) - headpos = d + 1 + i
              /\ i \in 1 .. Len(read) - (headpos + 1) + 1
          BY <1>2, <4>3, <4>4
        <5>2. QED
          BY <1>2, <4>4, <5>1
      <4>7. QED
        BY <1>2, <4>1, <4>4, <4>5, <4>6
    <3>2. CASE ~Enough
      <4> DEFINE h == SubSeq(read, headpos + 1, headpos + 2)
      <4>1. read' = h \o b
        BY <2>1, <3>2 DEF HEADLEN
      <4>2. h \in Seq(Bytes) /\ Len(h) = 2 /\ h[1] = read[headpos + 1] /\ h[2] = read[headpos + 2]
        <5>1. /\ headpos + 1 \in Nat /\ headpos + 2 \in Nat /\ 1 <= headpos + 1
              /\ headpos + 1 <= headpos + 2 + 1 /\ headpos + 2 <= Len(read)
              /\ headpos + 2 - (headpos + 1) + 1 = 2
              /\ headpos + 1 + 1 - 1 = headpos + 1 /\ headpos + 1 + 2 - 1 = headpos + 2
          BY <1>2
        <5>2. /\ h \in Seq(Bytes) /\ Len(h) = headpos + 2 - (headpos + 1) + 1
              /\ \A i \in 1 .. headpos + 2 - (headpos + 1) + 1 : h[i] = read[headpos + 1 + i - 1]
          BY <1>4, <5>1, Part
        <5> HIDE DEF h
        <5>3. Len(h) = 2 /\ \A i \in 1 .. 2 : h[i] = read[headpos + 1 + i - 1]
          BY <5>1, <5>2
        <5>4. h[1] = read[headpos + 1 + 1 - 1] /\ h[2] = read[headpos + 1 + 2 - 1]
          BY <5>3
        <5>5. QED
          BY <5>1, <5>2, <5>3, <5>4
      <4> HIDE DEF h
      <4>3. /\ read' \in Seq(Bytes) /\ Len(read') = n + 3
            /\ \A i \in 1 .. 2 : read'[i] = h[i]
            /\ \A i \in 1 .. n + 1 : read'[2 + i] = b[i]
        <5>1. b \in Seq(Bytes) /\ h \in Seq(Bytes)
          BY <1>3, <4>2
        <5>2. /\ h \o b \in Seq(Bytes) /\ Len(h \o b) = Len(h) + Len(b)
              /\ \A i \in 1 .. Len(h) : (h \o b)[i] = h[i]
              /\ \A i \in 1 .. Len(b) : (h \o b)[Len(h) + i] = b[i]
          BY <5>1, Joined
        <5>3. 2 + (n + 1) = n + 3
          BY <1>2
        <5>4. QED
          BY <1>3, <4>1, <4>2, <5>2, <5>3
      <4>4. Len(read') <= cap' /\ cap <= cap' /\ cap' \in Nat
        <5>1. cap' = IF cap >= n + 3 THEN cap ELSE n + 3
          BY <1>2, <2>1, <3>2 DEF HEADLEN
        <5>2. n \in Nat /\ cap \in Nat /\ Len(read') = n + 3
          BY <1>5, <4>3
        <5>3. QED
          BY <5>1, <5>2
      <4>5. Decided' = d + 1
        <5>1. Decided' = Len(fed) - (Len(input') + Len(read'))
          BY <1>1, <2>1 DEF Decided, Undecided
        <5>2. d + n + 4 + Len(input') = Len(fed)
          BY <1>3, <3>2
        <5>3. /\ n \in Nat /\ d \in Nat /\ Len(input') \in Nat /\ Len(fed) \in Nat
              /\ Len(read') = n + 3
          BY <1>5, <4>3
        <5>4. QED
          BY <5>1, <5>2, <5>3
      <4>6. ASSUME NEW i \in 1 .. Len(read') PROVE read'[i] = fed[d + 1 + i]
        <5>1. CASE i \in 1 .. 2
          <6>1. /\ headpos + i \in headpos .. Len(read) /\ d + 1 + (headpos + i) - headpos = d + 1 + i
                /\ i = 1 \/ i = 2
            BY <1>2, <5>1
          <6>2. read'[i] = read[headpos + i]
            BY <4>2, <4>3, <5>1, <6>1
          <6>3. QED
            BY <1>2, <6>1, <6>2
        <5>2. CASE i \notin 1 .. 2
          <6>1. i - 2 \in 1 .. n + 1 /\ 2 + (i - 2) = i /\ d + 3 + (i - 2) = d + 1 + i
            <7>1. i \in 1 .. n + 3 /\ n \in Nat /\ d \in Nat
              BY <1>5, <4>3
            <7>2. QED
              BY <5>2, <7>1
          <6>2. read'[2 + (i - 2)] = b[i - 2] /\ b[i - 2] = fed[d + 3 + (i - 2)]
            BY <1>3, <4>3, <6>1
          <6>3. QED
            BY <6>1, <6>2
        <5>3. QED
          BY <5>1, <5>2
      <4>7. QED
        BY <4>3, <4>4, <4>5, <4>6
    <3>3. QED
      BY <3>1, <3>2
  <2>3. NoFrame(fed, d + 1)
    <3> DEFINE i == d + 1
               x == SubSeq(fed, i + HEADLEN + 1, i + HEADLEN + n)
    <3>1. /\ i + HEADLEN <= Len(fed) /\ n < Len(fed) - i - HEADLEN
          /\ i \in Nat \ {0} /\ i + 1 = d + 2 /\ i + HEADLEN = d + 3 /\ i + n + 3 = d + n + 4
      BY <1>5 DEF HEADLEN
    <3>2. Valid(fed[i + 1]) /\ Number[fed[i + HEADLEN]] = n
      BY <1>2, <3>1
    <3>3. x = Front(b)
      <4>1. x = SubSeq(fed, d + 4, d + 3 + n)
        <5>1. i + HEADLEN + 1 = d + 4 /\ i + HEADLEN + n = d + 3 + n
          BY <1>2 DEF HEADLEN
        <5>2. QED
          BY <5>1
      <4>2. /\ d + 4 \in Nat /\ d + 3 + n \in Nat /\ 1 <= d + 4 /\ d + 4 <= d + 3 + n + 1
            /\ d + 3 + n <= Len(fed) /\ d + 3 + n - (d + 4) + 1 = n
            /\ \A k \in 1 .. n : d + 4 + k - 1 = d + 3 + k
        BY <1>5
      <4>3. x \in Seq(Bytes) /\ Len(x) = n /\ \A k \in 1 .. n : x[k] = fed[d + 3 + k]
        <5>1. d + 4 \in Nat /\ d + 3 + n \in Nat /\ 1 <= d + 4 /\ d + 4 <= d + 3 + n + 1
              /\ d + 3 + n <= Len(fed) /\ fed \in Seq(Bytes)
          BY <1>4, <4>2
        <5> DEFINE a == d + 4
                   e == d + 3 + n
        <5> HIDE DEF a, e
        <5>2. /\ SubSeq(fed, a, e) \in Seq(Bytes) /\ Len(SubSeq(fed, a, e)) = e - a + 1
              /\ \A k \in 1 .. e - a + 1 : SubSeq(fed, a, e)[k] = fed[a + k - 1]
          <6>1. a \in Nat /\ e \in Nat /\ 1 <= a /\ a <= e + 1 /\ e <= Len(fed)
            BY <5>1 DEF a, e
          <6>2. QED
            BY <5>1, <6>1, Part
        <5>3. x = SubSeq(fed, a, e)
          BY <4>1 DEF a, e
        <5> HIDE DEF x
        <5>4. /\ x \in Seq(Bytes) /\ Len(x) = e - a + 1
              /\ \A k \in 1 .. e - a + 1 : x[k] = fed[a + k - 1]
          BY <5>2, <5>3
        <5>5. e - a + 1 = n /\ \A k \in 1 .. n : a + k - 1 = d + 3 + k
          BY <1>5 DEF a, e
        <5>6. QED
          BY <5>4, <5>5
      <4> HIDE DEF x
      <4>4. Len(x) = Len(Front(b)) /\ \A k \in 1 .. Len(x) : x[k] = Front(b)[k]
        <5>1. Len(x) = n /\ \A k \in 1 .. n : x[k] = fed[d + 3 + k]
          BY <4>3
        <5>2. Len(Front(b)) = n /\ \A k \in 1 .. n : Front(b)[k] = fed[d + 3 + k]
          BY <1>3
        <5>3. QED
          BY <5>1, <5>2
      <4>5. QED
        BY <1>3, <4>3, <4>4, SeqEqual
    <3> HIDE DEF x
    <3>4. ~FrameAt(fed, i, x)
      <4>1. SUFFICES ASSUME FrameAt(fed, i, Front(b)) PROVE FALSE
        BY <3>3
      <4>2. i + Len(Front(b)) + 3 <= Len(fed)
        BY <1>5
      <4>3. fed[i + 1] = Mark(Front(b)) /\ fed[i + Len(Front(b)) + 3] = TAIL
        <5>1. i \in Nat \ {0} /\ fed \in Seq(Bytes) /\ Front(b) \in Seq(Bytes)
          BY <1>3, <1>4, <3>1
        <5>2. QED
          BY <4>1, <4>2, <5>1, FrameThere
      <4>4. QED
        BY <1>2, <1>3, <1>8, <3>1, <4>3 DEF good
    <3>5. QED
      BY <3>1, <3>2, <3>4 DEF NoFrame, x
  <2>4. Skips
    <3>1. \A i \in Decided + 1 .. Decided' : i = d + 1
      BY <1>2, <2>2 DEF d
    <3>2. d + 1 <= Len(fed) /\ d <= d + 1 /\ d + 1 \in Nat
      BY <1>5
    <3>3. QED
      BY <1>2, <2>1, <2>2, <2>3, <3>1, <3>2 DEF Skips, d
  <2>5. 1 \in Nat /\ 1 <= n + 4
    BY <1>2
  <2>6. QED
    BY <1>6, <2>1, <2>2, <2>4, <2>5 DEF Turn
<1>9. QED
  BY <1>7, <1>8


-------------------------------------------------------------------------------
(* The frames found.                                                           *)

\* t goes on where s ends.
Extends(t, s) ==
    /\ s \in Seq(Bytes) /\ t \in Seq(Bytes) /\ Len(s) <= Len(t)
    /\ \A i \in 1 .. Len(s) : t[i] = s[i]

\* What comes later leaves a part of the string as it is.
LEMMA ExtendsPart ==
    ASSUME NEW s, NEW t, Extends(t, s), NEW a \in Nat, NEW b \in Nat,
           1 <= a, a <= b + 1, b <= Len(s)
    PROVE  SubSeq(t, a, b) = SubSeq(s, a, b)
<1>1. /\ s \in Seq(Bytes) /\ t \in Seq(Bytes) /\ Len(s) \in Nat /\ Len(t) \in Nat
      /\ Len(s) <= Len(t) /\ b <= Len(t)
      /\ \A i \in 1 .. Len(s) : t[i] = s[i]
  BY DEF Extends
<1> DEFINE x == SubSeq(s, a, b)
           y == SubSeq(t, a, b)
<1>2. /\ x \in Seq(Bytes) /\ Len(x) = b - a + 1
      /\ \A i \in 1 .. b - a + 1 : x[i] = s[a + i - 1]
  BY <1>1, Part
<1>3. /\ y \in Seq(Bytes) /\ Len(y) = b - a + 1
      /\ \A i \in 1 .. b - a + 1 : y[i] = t[a + i - 1]
  BY <1>1, Part
<1> HIDE DEF x, y
<1>4. ASSUME NEW i \in 1 .. Len(x) PROVE y[i] = x[i]
  <2>1. i \in 1 .. b - a + 1 /\ a + i - 1 \in 1 .. Len(s)
    BY <1>1, <1>2
  <2>2. QED
    BY <1>1, <1>2, <1>3, <2>1
<1>5. y = x
  BY <1>2, <1>3, <1>4, SeqEqual
<1>6. QED
  BY <1>5 DEF x, y

\* What is known of a frame, or of a byte that begins none, stays as the stream
\* goes on.
LEMMA FrameStays ==
    ASSUME NEW s, NEW t, Extends(t, s), NEW i \in Nat \ {0}, NEW data \in Seq(Bytes),
           i + Size(data) - 1 <= Len(s)
    PROVE  FrameAt(t, i, data) <=> FrameAt(s, i, data)
<1>1. /\ Len(s) \in Nat /\ Len(t) \in Nat /\ Len(s) <= Len(t)
      /\ \A j \in 1 .. Len(s) : t[j] = s[j]
  BY DEF Extends
<1>2. Len(data) \in Nat /\ Size(data) = Len(data) + 4 /\ DOMAIN data = 1 .. Len(data)
  BY DEF Size, HEADLEN
<1>3. i + Len(data) + 3 <= Len(s) /\ i + Size(data) - 1 <= Len(t)
  BY <1>1, <1>2
<1>4. /\ i \in 1 .. Len(s) /\ i + 1 \in 1 .. Len(s) /\ i + HEADLEN \in 1 .. Len(s)
      /\ i + Size(data) - 1 \in 1 .. Len(s)
  BY <1>1, <1>2, <1>3 DEF HEADLEN
<1>5. \A k \in DOMAIN data : i + HEADLEN + k \in 1 .. Len(s)
  BY <1>1, <1>2, <1>3 DEF HEADLEN
<1>6. QED
  BY <1>1, <1>3, <1>4, <1>5 DEF FrameAt

\* Where no frame can begin, none can when more has been received.
LEMMA NoFrameStays ==
    ASSUME NEW s, NEW t, Extends(t, s), NEW i \in 1 .. Len(s), NoFrame(s, i)
    PROVE  NoFrame(t, i)
<1>1. /\ s \in Seq(Bytes) /\ t \in Seq(Bytes) /\ Len(s) \in Nat /\ Len(t) \in Nat
      /\ Len(s) <= Len(t)
      /\ \A j \in 1 .. Len(s) : t[j] = s[j]
  BY DEF Extends
<1>2. CASE s[i] # HEAD
  BY <1>1, <1>2 DEF NoFrame
<1>3. ASSUME i + HEADLEN <= Len(s)
      PROVE  /\ i + HEADLEN \in 1 .. Len(s) /\ i + HEADLEN <= Len(t)
             /\ t[i + 1] = s[i + 1] /\ t[i + HEADLEN] = s[i + HEADLEN]
  BY <1>1, <1>3 DEF HEADLEN
<1>4. CASE i + HEADLEN <= Len(s) /\ ~Valid(s[i + 1])
  BY <1>3, <1>4 DEF NoFrame
<1> DEFINE n == Number[s[i + HEADLEN]]
           x == SubSeq(s, i + HEADLEN + 1, i + HEADLEN + n)
<1>5. CASE /\ i + HEADLEN <= Len(s) /\ Valid(s[i + 1])
           /\ n < Len(s) - i - HEADLEN
           /\ ~FrameAt(s, i, x)
  <2>1. n \in Nat
    <3>1. s[i + HEADLEN] \in Bytes
      BY <1>1, <1>3, <1>5
    <3>2. QED
      BY <3>1, ByteTypes
  <2> HIDE DEF n
  <2>2. /\ i + HEADLEN + 1 \in Nat /\ i + HEADLEN + n \in Nat /\ 1 <= i + HEADLEN + 1
        /\ i + HEADLEN + 1 <= i + HEADLEN + n + 1 /\ i + HEADLEN + n <= Len(s)
        /\ (i + HEADLEN + n) - (i + HEADLEN + 1) + 1 = n
    <3>1. i \in Nat /\ n \in Nat /\ Len(s) \in Nat /\ n < Len(s) - i - HEADLEN
      BY <1>1, <1>5, <2>1
    <3>2. QED
      BY <3>1 DEF HEADLEN
  <2>3. SubSeq(t, i + HEADLEN + 1, i + HEADLEN + n) = x
    BY <2>2, ExtendsPart
  <2>4. x \in Seq(Bytes) /\ Len(x) = n
    BY <1>1, <2>2, Part
  <2> HIDE DEF x
  <2>5. i + Size(x) - 1 <= Len(s)
    BY <1>1, <1>5, <2>1, <2>4 DEF Size, HEADLEN
  <2>6. ~FrameAt(t, i, x)
    BY <1>5, <2>4, <2>5, FrameStays
  <2>7. n < Len(t) - i - HEADLEN
    BY <1>1, <1>5, <2>1 DEF HEADLEN
  <2>8. Number[t[i + HEADLEN]] = n
    BY <1>3, <1>5 DEF n
  <2>9. QED
    BY <1>3, <1>5, <2>3, <2>6, <2>7, <2>8 DEF NoFrame
<1>6. QED
  BY <1>2, <1>4, <1>5 DEF NoFrame

\* Up to Decided, every byte is in a frame handed out or begins none.
Found ==
    /\ Len(at) = Len(got)
    /\ \A k \in 1 .. Len(got) :
          at[k] + Size(got[k]) - 1 <= Decided /\ FrameAt(fed, at[k], got[k])
    /\ \A k \in 2 .. Len(got) : at[k - 1] + Size(got[k - 1]) <= at[k]
    /\ \A i \in 1 .. Decided :
          \/ \E k \in 1 .. Len(got) : at[k] <= i /\ i < at[k] + Size(got[k])
          \/ NoFrame(fed, i)

\* The messages handed out are strings of bytes, at positions of the stream.
LEMMA MessageTypes ==
    ASSUME TypeOK
    PROVE  \A k \in 1 .. Len(got) :
              /\ got[k] \in Seq(Bytes) /\ Size(got[k]) \in Nat /\ Size(got[k]) > 0
              /\ Len(at) = Len(got) => at[k] \in Nat \ {0}
<1> TAKE k \in 1 .. Len(got)
<1>1. got[k] \in Seq(Bytes) /\ (Len(at) = Len(got) => at[k] \in Nat \ {0})
  BY DEF TypeOK
<1>2. QED
  BY <1>1 DEF Size, HEADLEN

\* Bytes that are skipped keep what was found.
LEMMA FoundSkips ==
    ASSUME TypeOK, Found, Skips, fed' = fed
    PROVE  Found'
<1>1. /\ Decided \in Nat /\ Decided' \in Nat /\ Decided <= Decided'
      /\ \A i \in Decided + 1 .. Decided' : NoFrame(fed, i)
      /\ got' = got /\ at' = at
  BY DEF Skips
<1>2. ASSUME NEW k \in 1 .. Len(got) PROVE at[k] + Size(got[k]) - 1 <= Decided'
  <2>1. at[k] + Size(got[k]) - 1 <= Decided /\ at[k] \in Nat /\ Size(got[k]) \in Nat
    BY MessageTypes DEF Found
  <2>2. QED
    BY <1>1, <2>1
<1>3. ASSUME NEW i \in 1 .. Decided'
      PROVE  \/ \E k \in 1 .. Len(got) : at[k] <= i /\ i < at[k] + Size(got[k])
             \/ NoFrame(fed, i)
  <2>1. i \in 1 .. Decided \/ i \in Decided + 1 .. Decided'
    BY <1>1
  <2>2. QED
    BY <1>1, <2>1 DEF Found
<1>4. QED
  BY <1>1, <1>2, <1>3 DEF Found

\* A frame that is taken is found next.
LEMMA FoundTakes ==
    ASSUME TypeOK, Found, Takes, fed' = fed
    PROVE  Found'
<1>1. PICK data \in Seq(Bytes) :
         /\ Decided \in Nat /\ Decided' = Decided + Size(data)
         /\ FrameAt(fed, Decided + 1, data)
         /\ got' = Append(got, data) /\ at' = Append(at, Decided + 1)
  BY DEF Takes
<1> DEFINE N == Len(got)
<1>2. /\ N \in Nat /\ Len(at) = N /\ got \in Seq(Seq(Bytes)) /\ at \in Seq(Nat \ {0})
      /\ Size(data) \in Nat /\ Size(data) > 0
  BY DEF Found, TypeOK, Size, HEADLEN
<1>3. /\ Len(got') = N + 1 /\ got'[N + 1] = data
      /\ \A k \in 1 .. N : got'[k] = got[k]
  BY <1>1, <1>2
<1>4. /\ Len(at') = N + 1 /\ at'[N + 1] = Decided + 1
      /\ \A k \in 1 .. N : at'[k] = at[k]
  BY <1>1, <1>2
<1>5. ASSUME NEW k \in 1 .. Len(got')
      PROVE  at'[k] + Size(got'[k]) - 1 <= Decided' /\ FrameAt(fed, at'[k], got'[k])
  <2>1. CASE k = N + 1
    BY <1>1, <1>2, <1>3, <1>4, <2>1
  <2>2. CASE k # N + 1
    <3>1. k \in 1 .. N
      BY <1>2, <1>3, <2>2
    <3>2. /\ at[k] + Size(got[k]) - 1 <= Decided /\ FrameAt(fed, at[k], got[k])
          /\ at[k] \in Nat /\ Size(got[k]) \in Nat
      BY <3>1, MessageTypes DEF Found
    <3>3. at'[k] = at[k] /\ got'[k] = got[k]
      BY <1>3, <1>4, <3>1
    <3>4. Decided \in Nat /\ Decided' = Decided + Size(data) /\ Size(data) \in Nat
      BY <1>1, <1>2
    <3>5. QED
      BY <3>2, <3>3, <3>4
  <2>3. QED
    BY <2>1, <2>2
<1>6. ASSUME NEW k \in 2 .. Len(got') PROVE at'[k - 1] + Size(got'[k - 1]) <= at'[k]
  <2>1. k - 1 \in 1 .. N /\ (k = N + 1 \/ (k \in 2 .. N /\ k \in 1 .. N))
    <3>1. k \in 2 .. N + 1 /\ N \in Nat
      BY <1>2, <1>3
    <3> HIDE DEF N
    <3>2. QED
      BY <3>1
  <2>2. /\ at[k - 1] + Size(got[k - 1]) - 1 <= Decided
        /\ at[k - 1] \in Nat /\ Size(got[k - 1]) \in Nat
    BY <2>1, MessageTypes DEF Found
  <2>3. CASE k = N + 1
    BY <1>1, <1>3, <1>4, <2>1, <2>2, <2>3
  <2>4. CASE k \in 2 .. N /\ k \in 1 .. N
    BY <1>3, <1>4, <2>1, <2>4 DEF Found
  <2>5. QED
    BY <2>1, <2>3, <2>4
<1>7. ASSUME NEW i \in 1 .. Decided'
      PROVE  \/ \E k \in 1 .. Len(got') : at'[k] <= i /\ i < at'[k] + Size(got'[k])
             \/ NoFrame(fed, i)
  <2>1. CASE i \in 1 .. Decided
    <3>1. \A k \in 1 .. N : k \in 1 .. Len(got') /\ at'[k] = at[k] /\ got'[k] = got[k]
      BY <1>2, <1>3, <1>4
    <3>2. QED
      BY <2>1, <3>1 DEF Found
  <2>2. CASE i \notin 1 .. Decided
    <3>1. N + 1 \in 1 .. Len(got') /\ Decided + 1 <= i /\ i < Decided + 1 + Size(data)
      BY <1>1, <1>2, <1>3, <2>2
    <3>2. QED
      BY <1>3, <1>4, <3>1
  <2>3. QED
    BY <2>1, <2>2
<1>8. QED
  BY <1>3, <1>4, <1>5, <1>6, <1>7 DEF Found

\* What is received later keeps what was found.
LEMMA FoundGrows ==
    ASSUME TypeOK, Found, Extends(fed', fed), Decided \in 0 .. Len(fed),
           Decided' = Decided, got' = got, at' = at
    PROVE  Found'
<1>1. ASSUME NEW k \in 1 .. Len(got) PROVE FrameAt(fed', at[k], got[k])
  <2>1. /\ at[k] + Size(got[k]) - 1 <= Decided /\ FrameAt(fed, at[k], got[k])
        /\ at[k] \in Nat \ {0} /\ Size(got[k]) \in Nat /\ got[k] \in Seq(Bytes)
    BY MessageTypes DEF Found
  <2>2. Len(fed) \in Nat
    BY DEF TypeOK
  <2>3. at[k] + Size(got[k]) - 1 <= Len(fed)
    BY <2>1, <2>2
  <2>4. QED
    BY <2>1, <2>3, FrameStays
<1>2. ASSUME NEW i \in 1 .. Decided, NoFrame(fed, i) PROVE NoFrame(fed', i)
  <2>1. i \in 1 .. Len(fed)
    BY DEF TypeOK
  <2>2. QED
    BY <1>2, <2>1, NoFrameStays
<1>3. QED
  BY <1>1, <1>2 DEF Found


-------------------------------------------------------------------------------
(* The steps.                                                                  *)

IInv == TypeOK /\ ParserOK /\ Window /\ Found

\* What is undecided has been received.
LEMMA DecidedInFed ==
    ASSUME TypeOK, ParserOK, Window
    PROVE  Decided \in 0 .. Len(fed)
<1>1. Decided \in Nat /\ Len(fed) \in Nat
  BY DEF Window, TypeOK
<1>2. CASE parsetype = "nothing"
  <2>1. Decided = Len(fed) - (Len(input) + Len(read)) /\ Len(input) \in Nat /\ Len(read) \in Nat
    BY <1>2 DEF Decided, Undecided, TypeOK
  <2>2. QED
    BY <1>1, <2>1
<1>3. CASE parsetype = "head"
  <2>1. /\ Decided + 3 + Len(body) + Len(input) <= Len(fed)
        /\ Len(body) \in Nat /\ Len(input) \in Nat
    BY <1>3, HeadWindow
  <2>2. QED
    BY <1>1, <2>1
<1>4. CASE parsetype = "overrun"
  <2>1. /\ Decided = Len(fed) - (Len(input) + (Len(read) - headpos + 1))
        /\ Len(input) \in Nat /\ Len(read) \in Nat /\ headpos \in Nat
        /\ headpos + 2 <= Len(read)
    <3>1. Decided = Len(fed) - (Len(input) + (Len(read) - headpos + 1))
      BY <1>4 DEF Decided, Undecided
    <3>2. Len(input) \in Nat /\ Len(read) \in Nat /\ headpos \in Nat
      BY DEF TypeOK
    <3>3. headpos + 2 <= Len(read)
      BY <1>4 DEF ParserOK, HEADLEN
    <3>4. QED
      BY <3>1, <3>2, <3>3
  <2>2. QED
    BY <1>1, <2>1
<1>5. QED
  BY <1>2, <1>3, <1>4 DEF TypeOK

\* What a frame is made of are bytes.
LEMMA FrameTypes ==
    ASSUME NEW data \in Payloads
    PROVE  PacketData2(data) \in Seq(Bytes) /\ Size(data) \in Nat /\ Size(data) > 0
<1>1. data \in Seq(Bytes) /\ Mark(data) \in Bytes /\ Length(data) \in Bytes
  BY ByteTypes
<1>2. <<HEAD, Mark(data), Length(data)>> \in Seq(Bytes) /\ <<TAIL>> \in Seq(Bytes)
  BY <1>1, ByteTypes
<1>3. QED
  BY <1>1, <1>2 DEF PacketData2, Size, HEADLEN

\* A turn of recvdata preserves the invariant.
LEMMA TurnKeeps ==
    ASSUME IInv, Turn
    PROVE  IInv'
<1>1. /\ TypeOK /\ Found
      /\ Skips \/ Takes
      /\ UNCHANGED <<wire, sent, fed, ends, conns>>
  BY DEF IInv, Turn
<1>2. Found'
  BY <1>1, FoundSkips, FoundTakes
<1>3. got' \in Seq(Seq(Bytes)) /\ at' \in Seq(Nat \ {0})
  <2>1. CASE Skips
    BY <1>1, <2>1 DEF Skips, TypeOK
  <2>2. CASE Takes
    <3>1. PICK data \in Seq(Bytes) :
             got' = Append(got, data) /\ at' = Append(at, Decided + 1) /\ Decided \in Nat
      BY <2>2 DEF Takes
    <3>2. Decided + 1 \in Nat \ {0} /\ got \in Seq(Seq(Bytes)) /\ at \in Seq(Nat \ {0})
      BY <1>1, <3>1 DEF TypeOK
    <3>3. QED
      BY <3>1, <3>2
  <2>3. QED
    BY <1>1, <2>1, <2>2
<1>4. TypeOK'
  BY <1>1, <1>3 DEF Turn, TypeOK
<1>5. QED
  BY <1>2, <1>4 DEF IInv, Turn

\* Each turn of the loop is of one of the two kinds.
LEMMA recvdataTurn ==
    ASSUME IInv, recvdata
    PROVE  Turn
BY SearchTurn, CollectTurn, CompleteTurn DEF IInv, recvdata

\* A step that leaves the parser and the stream alone.
LEMMA ParserAlone ==
    ASSUME IInv, UNCHANGED <<parser, input, got, fed, at>>,
           wire' \in Seq(Bytes), sent' \in Seq(Payloads), ends' \in Seq(Nat),
           conns' \in Seq([fed : Nat, clean : BOOLEAN]), conns' # <<>>
    PROVE  IInv' /\ Decided' = Decided
<1>1. UNCHANGED <<parsetype, read, cap, headpos, body, input, got, fed, at>>
  BY DEF parser
<1>2. TypeOK'
  BY <1>1 DEF IInv, TypeOK
<1>3. BodyLen' = BodyLen
  BY <1>1 DEF BodyLen
<1>4. Enough' = Enough
  BY <1>1, <1>3 DEF Enough
<1>5. Decided' = Decided
  BY <1>1, <1>4 DEF Decided, Undecided
<1>6. ParserOK'
  BY <1>1, <1>3, <1>4 DEF IInv, ParserOK
<1>7. Window'
  BY <1>1, <1>5 DEF IInv, Window, Stands
<1>8. Found'
  BY <1>1, <1>5 DEF IInv, Found
<1>9. QED
  BY <1>2, <1>5, <1>6, <1>7, <1>8 DEF IInv

\* Send preserves the invariant and decides on nothing.
LEMMA SendKeeps ==
    ASSUME IInv, NEW data \in Payloads, Send(data)
    PROVE  IInv' /\ Decided' = Decided
<1>1. /\ wire' = wire \o PacketData2(data) /\ sent' = Append(sent, data)
      /\ ends' = Append(ends, Size(data) + IF ends = <<>> THEN 0 ELSE Last(ends))
      /\ UNCHANGED <<parser, input, got, fed, at, conns>>
  BY DEF Send
<1>2. TypeOK
  BY DEF IInv
<1>3. wire' \in Seq(Bytes) /\ sent' \in Seq(Payloads)
  BY <1>1, <1>2, FrameTypes DEF TypeOK
<1>4. (IF ends = <<>> THEN 0 ELSE Last(ends)) \in Nat
  <2>1. ends \in Seq(Nat)
    BY <1>2 DEF TypeOK
  <2>2. ASSUME ends # <<>> PROVE Last(ends) \in Nat
    <3>1. Len(ends) \in 1 .. Len(ends)
      BY <2>1, <2>2
    <3>2. QED
      BY <2>1, <3>1 DEF Last
  <2>3. QED
    BY <2>2
<1>5. ends' \in Seq(Nat)
  <2>1. Size(data) + (IF ends = <<>> THEN 0 ELSE Last(ends)) \in Nat
    BY <1>4, FrameTypes
  <2>2. QED
    BY <1>1, <1>2, <2>1 DEF TypeOK
<1>6. QED
  BY <1>1, <1>2, <1>3, <1>5, ParserAlone DEF TypeOK

\* Reconnect preserves the invariant: it leaves the parser as it is.
LEMMA ReconnectKeeps ==
    ASSUME IInv, Reconnect
    PROVE  IInv' /\ Decided' = Decided
<1>1. /\ wire' = <<>> /\ sent' = <<>> /\ ends' = <<>>
      /\ conns' = Append(conns, [fed |-> Len(fed), clean |-> Undecided = 0])
      /\ UNCHANGED <<parser, input, got, fed, at>>
  BY DEF Reconnect
<1>2. conns \in Seq([fed : Nat, clean : BOOLEAN]) /\ Len(fed) \in Nat
  BY DEF IInv, TypeOK
<1>3. [fed |-> Len(fed), clean |-> Undecided = 0] \in [fed : Nat, clean : BOOLEAN]
  BY <1>2
<1>4. conns' \in Seq([fed : Nat, clean : BOOLEAN]) /\ conns' # <<>>
  BY <1>1, <1>2, <1>3
<1>5. QED
  BY <1>1, <1>4, ParserAlone

\* recvdata has nothing left of an earlier read when it is called again.
LEMMA AfterRecvKeeps ==
    ASSUME IInv, NEW n \in 1 .. Len(wire), AfterRecv(n)
    PROVE  IInv' /\ Decided' = Decided /\ Extends(fed', fed) /\ Len(fed') = Len(fed) + n
<1> DEFINE part == SubSeq(wire, 1, n)
<1>1. /\ input = <<>> /\ input' = part /\ fed' = fed \o part /\ wire' = From(wire, n + 1)
      /\ parsetype \in {"nothing", "head"}
      /\ UNCHANGED <<parsetype, read, cap, headpos, body, sent, got, at, ends, conns>>
  BY DEF AfterRecv, Idle, parser
<1>2. TypeOK /\ ParserOK /\ Window /\ Found
  BY DEF IInv
<1>3. wire \in Seq(Bytes) /\ fed \in Seq(Bytes) /\ Len(wire) \in Nat /\ Len(fed) \in Nat
  BY <1>2 DEF TypeOK
<1>4. part \in Seq(Bytes) /\ Len(part) = n
  <2>1. part \in Seq(Bytes) /\ Len(part) = n - 1 + 1
    BY <1>3, Part
  <2>2. QED
    BY <2>1
<1> HIDE DEF part
<1>5. /\ fed' \in Seq(Bytes) /\ Len(fed') = Len(fed) + n
      /\ \A i \in 1 .. Len(fed) : fed'[i] = fed[i]
      /\ \A i \in 1 .. n : fed'[Len(fed) + i] = part[i]
  <2>1. /\ fed \o part \in Seq(Bytes) /\ Len(fed \o part) = Len(fed) + Len(part)
        /\ \A i \in 1 .. Len(fed) : (fed \o part)[i] = fed[i]
        /\ \A i \in 1 .. Len(part) : (fed \o part)[Len(fed) + i] = part[i]
    <3>1. fed \in Seq(Bytes) /\ part \in Seq(Bytes)
      BY <1>3, <1>4
    <3>2. QED
      BY <3>1, Joined
  <2>2. QED
    BY <1>1, <1>4, <2>1
<1>6. Extends(fed', fed)
  BY <1>3, <1>5 DEF Extends
<1>7. wire' \in Seq(Bytes)
  <2>1. n + 1 \in Nat /\ 1 <= n + 1 /\ n + 1 <= Len(wire) + 1
    BY <1>3
  <2>2. QED
    BY <1>1, <1>3, <2>1, Rest
<1>8. TypeOK'
  BY <1>1, <1>2, <1>4, <1>5, <1>7 DEF TypeOK
<1>9. BodyLen' = BodyLen
  BY <1>1 DEF BodyLen
<1>10. Enough' = Enough
  BY <1>1, <1>9 DEF Enough
<1> DEFINE u == IF parsetype = "nothing" THEN Len(read)
                ELSE IF parsetype = "overrun" \/ Enough THEN Len(read) - headpos + 1
                ELSE 1 + HEADLEN + Len(body)
<1>11. u \in Int
  BY <1>2 DEF TypeOK, HEADLEN
<1>12. Undecided = 0 + u /\ Undecided' = n + u
  BY <1>1, <1>4, <1>10 DEF Undecided
<1> HIDE DEF u
<1>13. Decided' = Decided
  BY <1>3, <1>5, <1>11, <1>12 DEF Decided
<1>14. ParserOK'
  BY <1>1, <1>2, <1>9, <1>10 DEF ParserOK
<1>15. Decided \in 0 .. Len(fed)
  BY <1>2, DecidedInFed
<1> DEFINE d == Decided
<1>16. Stands(input, Len(fed) - Len(input))'
  <2>1. Len(fed') - Len(input') = Len(fed)
    BY <1>1, <1>3, <1>4, <1>5
  <2>2. QED
    BY <1>1, <1>4, <1>5, <2>1 DEF Stands
<1>17. CASE parsetype = "nothing"
  <2>1. d + Len(read) = Len(fed) /\ d \in Nat /\ Len(read) \in Nat
    <3>1. Len(read) \in Nat /\ d = Len(fed) - (Len(input) + Len(read)) /\ Len(input) = 0
      BY <1>1, <1>2, <1>17 DEF Decided, Undecided, TypeOK
    <3>2. d \in Nat
      BY <1>15
    <3> HIDE DEF d
    <3>3. QED
      BY <1>3, <3>1, <3>2
  <2> HIDE DEF d
  <2>2. ASSUME NEW i \in 1 .. Len(read) PROVE read[i] = fed'[d + i]
    <3>1. d + i \in 1 .. Len(fed)
      BY <2>1
    <3>2. read[i] = fed[d + i]
      BY <1>2, <1>17 DEF Window, Stands, d
    <3>3. QED
      BY <1>5, <3>1, <3>2
  <2>3. Stands(read, Decided)'
    BY <1>1, <1>13, <2>2 DEF Stands, d
  <2>4. Window'
    BY <1>1, <1>13, <1>15, <1>16, <1>17, <2>3 DEF Window
  <2>5. QED
    BY <1>2, <1>6, <1>8, <1>13, <1>14, <1>15, <1>1, <1>5, <2>4, FoundGrows DEF IInv
<1>18. CASE parsetype = "head"
  <2>1. /\ d \in Nat /\ Len(body) \in Nat /\ Len(read) \in Nat /\ headpos \in Nat \ {0}
        /\ d + 3 + Len(body) <= Len(fed)
        /\ Enough => d + (Len(read) - headpos + 1) + 0 = Len(fed)
        /\ ~Enough => Len(read) - headpos - 2 <= Len(body)
        /\ \A i \in 1 .. Len(body) : body[i] = fed[d + 3 + i]
        /\ \A i \in headpos .. Len(read) : read[i] = fed[d + 1 + i - headpos]
    <3>1. Len(input) = 0
      BY <1>1
    <3>2. /\ d \in Nat /\ Len(body) \in Nat /\ Len(read) \in Nat /\ headpos \in Nat \ {0}
          /\ d + 3 + Len(body) + Len(input) <= Len(fed)
          /\ Enough => d + (Len(read) - headpos + 1) + Len(input) = Len(fed)
          /\ ~Enough => Len(read) - headpos - 2 <= Len(body)
          /\ \A i \in 1 .. Len(body) : body[i] = fed[d + 3 + i]
          /\ \A i \in headpos .. Len(read) : read[i] = fed[d + 1 + i - headpos]
      BY <1>2, <1>18, HeadWindow
    <3> HIDE DEF d
    <3>3. d + 3 + Len(body) <= Len(fed)
      BY <1>3, <3>1, <3>2
    <3>4. QED
      BY <3>1, <3>2, <3>3
  <2> HIDE DEF d
  <2>2. ASSUME NEW i \in 1 .. Len(body) PROVE body[i] = fed'[d + 3 + i]
    <3>1. d + 3 + i \in 1 .. Len(fed)
      BY <1>3, <2>1
    <3>2. QED
      BY <1>5, <2>1, <3>1
  <2>3. ASSUME NEW i \in headpos .. Len(read) PROVE read[i] = fed'[d + 1 + i - headpos]
    <3>1. d + 1 + i - headpos \in 1 .. Len(fed)
      <4>1. CASE Enough
        BY <1>3, <2>1, <4>1
      <4>2. CASE ~Enough
        BY <1>3, <2>1, <4>2
      <4>3. QED
        BY <4>1, <4>2
    <3>2. QED
      BY <1>5, <2>1, <3>1
  <2>4. Decided' = d /\ d + 1 + HEADLEN = d + 3
    BY <1>13, <2>1 DEF d, HEADLEN
  <2>5. Stands(body, Decided + 1 + HEADLEN)'
    BY <1>1, <2>2, <2>4 DEF Stands
  <2>6. Window'
    BY <1>1, <1>16, <1>18, <2>1, <2>3, <2>4, <2>5 DEF Window
  <2>7. QED
    BY <1>2, <1>6, <1>8, <1>13, <1>14, <1>15, <1>1, <1>5, <2>6, FoundGrows DEF IInv
<1>19. QED
  BY <1>1, <1>17, <1>18


-------------------------------------------------------------------------------
(* The theorems.                                                               *)

\* The invariant holds of an empty parser.
LEMMA InitIInv ==
    ASSUME Init
    PROVE  IInv /\ Decided = 0
<1>1. /\ parsetype = "nothing" /\ read = <<>> /\ cap = ReadLen
      /\ headpos = 1 /\ body = <<>>
      /\ input = <<>> /\ wire = <<>> /\ sent = <<>> /\ got = <<>>
      /\ fed = <<>> /\ at = <<>> /\ ends = <<>>
      /\ conns = <<[fed |-> 0, clean |-> TRUE]>>
  BY DEF Init
<1>2. TypeOK
  <2>1. <<[fed |-> 0, clean |-> TRUE]>> \in Seq([fed : Nat, clean : BOOLEAN])
    <3>1. [fed |-> 0, clean |-> TRUE] \in [fed : Nat, clean : BOOLEAN]
      OBVIOUS
    <3>2. QED
      BY <3>1
  <2>2. <<[fed |-> 0, clean |-> TRUE]>> # <<>>
    OBVIOUS
  <2>3. QED
    BY <1>1, <2>1, <2>2, PacketSyncAssumption DEF TypeOK
<1>3. ParserOK
  BY <1>1, PacketSyncAssumption DEF ParserOK, HEADLEN
<1>4. Decided = 0
  <2>1. Undecided = 0 + 0
    BY <1>1 DEF Undecided
  <2>2. QED
    BY <1>1, <2>1 DEF Decided
<1>5. Window
  BY <1>1, <1>4 DEF Window, Stands
<1>6. Found
  BY <1>1, <1>4 DEF Found
<1>7. QED
  BY <1>2, <1>3, <1>4, <1>5, <1>6 DEF IInv

\* Every step preserves the invariant.
LEMMA NextIInv ==
    ASSUME IInv, [Next]_vars
    PROVE  IInv'
<1>1. CASE \E data \in Payloads : Send(data)
  BY <1>1, SendKeeps
<1>2. CASE \E n \in 1 .. Len(wire) : AfterRecv(n)
  BY <1>2, AfterRecvKeeps
<1>3. CASE recvdata
  BY <1>3, recvdataTurn, TurnKeeps
<1>4. CASE Reconnect
  BY <1>4, ReconnectKeeps
<1>5. CASE UNCHANGED vars
  <2>1. UNCHANGED <<parser, input, got, fed, at>> /\ UNCHANGED <<wire, sent, ends, conns>>
    BY <1>5 DEF vars
  <2>2. TypeOK
    BY DEF IInv
  <2>3. QED
    BY <2>1, <2>2, ParserAlone DEF TypeOK
<1>6. QED
  BY <1>1, <1>2, <1>3, <1>4, <1>5 DEF Next

\* The parser always holds the end of what was received, and has found every
\* frame before it (recvdata).
THEOREM SpecIInv == Spec => []IInv
<1>1. Init => IInv
  BY InitIInv
<1>2. IInv /\ [Next]_vars => IInv'
  BY NextIInv
<1>3. QED
  BY <1>1, <1>2, PTL DEF Spec

\* What has not been decided on when recvdata returns may be the beginning of a
\* frame, and is not all of it.
LEMMA RestIsPartial ==
    ASSUME TypeOK, ParserOK, Window, Idle
    PROVE  Partial(fed, Decided + 1)
<1> DEFINE d == Decided
<1>1. input = <<>> /\ Len(fed) \in Nat /\ Len(input) = 0
  BY DEF Idle, TypeOK
<1>2. CASE parsetype = "nothing"
  <2>1. d = Len(fed) - (Len(input) + Len(read)) /\ Len(read) < 4 /\ Len(read) \in Nat
    BY <1>2 DEF Idle, TypeOK, Decided, Undecided, HEADLEN
  <2> HIDE DEF d
  <2>2. Len(fed) <= d + 1 + 2
    BY <1>1, <2>1
  <2>3. QED
    BY <2>2 DEF Partial, HEADLEN, d
<1>3. CASE parsetype = "head"
  <2> DEFINE n == Number[read[headpos + 2]]
  <2>1. /\ n \in Nat /\ Missing = n + 1 - Len(body) /\ Missing > 0
        /\ d \in Nat /\ Len(body) \in Nat
        /\ Enough => Len(body) = n + 1
        /\ ~Enough => d + 3 + Len(body) + Len(input) = Len(fed)
        /\ fed[d + 1] = HEAD /\ Valid(fed[d + 2]) /\ Number[fed[d + 3]] = n
    BY <1>3, HeadWindow DEF Idle
  <2> HIDE DEF n, d
  <2>2. ~Enough
    BY <2>1
  <2>3. n >= Len(fed) - (d + 1) - 2
    <3>1. /\ n \in Nat /\ n + 1 - Len(body) > 0 /\ d \in Nat /\ Len(body) \in Nat
          /\ d + 3 + Len(body) + 0 = Len(fed)
      BY <1>1, <2>1, <2>2
    <3>2. QED
      BY <3>1
  <2>4. d + 1 + 1 = d + 2 /\ d + 1 + 2 = d + 3
    BY <2>1
  <2>5. fed[d + 1] = HEAD /\ Valid(fed[d + 1 + 1]) /\ Number[fed[d + 1 + 2]] = n
    BY <2>1, <2>4
  <2>6. QED
    BY <2>3, <2>5 DEF Partial, HEADLEN, d
<1>4. QED
  BY <1>2, <1>3 DEF Idle

\* The messages handed out are the frames of the stream as a whole, each found
\* once and in order, however the stream is cut into reads and whatever payload
\* bytes look like heads, headers or tails.
THEOREM FramesFound == Spec => []CutsDoNotMatter
<1>1. ASSUME IInv PROVE CutsDoNotMatter
  <2> DEFINE u == Decided + 1
             end(k) == at[k] + Size(got[k])
  <2>1. TypeOK /\ ParserOK /\ Window /\ Found
    BY <1>1 DEF IInv
  <2>2. Decided \in 0 .. Len(fed) /\ Len(fed) \in Nat /\ got \in Seq(Seq(Bytes))
    BY <2>1, DecidedInFed DEF TypeOK
  <2>3. DOMAIN got = 1 .. Len(got)
    BY <2>2
  <2>4. /\ Len(at) = Len(got)
        /\ \A k \in DOMAIN got : FrameAt(fed, at[k], got[k])
        /\ \A k \in 2 .. Len(got) : end(k - 1) <= at[k]
    BY <2>1, <2>3 DEF Found
  <2>5. \A k \in DOMAIN got : end(k) <= u
    <3> TAKE k \in DOMAIN got
    <3>1. /\ at[k] + Size(got[k]) - 1 <= Decided
          /\ at[k] \in Nat /\ Size(got[k]) \in Nat
      BY <2>1, <2>3, MessageTypes DEF Found
    <3>2. QED
      BY <2>2, <3>1
  <2>6. \A i \in 1 .. u - 1 :
           \/ \E k \in DOMAIN got : at[k] <= i /\ i < end(k)
           \/ NoFrame(fed, i)
    <3>1. u - 1 = Decided
      BY <2>2
    <3>2. QED
      BY <2>1, <2>3, <3>1 DEF Found
  <2>7. Idle => Partial(fed, u)
    BY <2>1, RestIsPartial
  <2>8. u \in 1 .. Len(fed) + 1
    BY <2>2
  <2> HIDE DEF u
  <2>9. QED
    BY <2>4, <2>5, <2>6, <2>7, <2>8 DEF CutsDoNotMatter
<1>2. QED
  BY <1>1, SpecIInv, PTL


-------------------------------------------------------------------------------
(* The frames sent on the connection of the moment.                            *)

\* What the other side has sent, all connections together, and where in it the
\* frames of this connection begin; how far g of them reach.
Stream == fed \o wire
Start(k) == Here + ends[k] - Size(sent[k])
Behind(g) == IF g = 0 THEN 0 ELSE ends[g]

\* The frames of sent stand one behind the other from Here on, to the end.
Layout ==
    /\ Here \in 0 .. Len(fed)
    /\ Len(ends) = Len(sent)
    /\ \A k \in 1 .. Len(sent) :
          /\ Here <= Start(k) /\ Here + ends[k] <= Len(Stream)
          /\ FrameAt(Stream, Start(k) + 1, sent[k])
          /\ \A i \in 1 .. k - 1 : Here + ends[i] <= Start(k)
    /\ Len(Stream) = Here + Behind(Len(sent))
    /\ \A i \in Here + 1 .. Len(Stream) :
          \E k \in 1 .. Len(sent) : Start(k) < i /\ i <= Here + ends[k]
    /\ \A g \in 0 .. Len(sent) - 1 : Start(g + 1) = Here + Behind(g)

\* The position at which the connection of the moment begins.
LEMMA HereNat ==
    ASSUME TypeOK
    PROVE  Here \in Nat /\ Last(conns) = conns[Len(conns)] /\ Len(conns) \in Nat \ {0}
<1> DEFINE R == [fed : Nat, clean : BOOLEAN]
<1>1. conns \in Seq(R) /\ conns # <<>>
  BY DEF TypeOK
<1> HIDE DEF R
<1>2. Len(conns) \in 1 .. Len(conns)
  BY <1>1
<1>3. conns[Len(conns)] \in R
  BY <1>1, <1>2
<1>4. conns[Len(conns)].fed \in Nat
  BY <1>3 DEF R
<1>5. QED
  BY <1>2, <1>4 DEF Here, Last

\* The numbers of a frame that was sent.
LEMMA SentTypes ==
    ASSUME TypeOK, NEW k \in 1 .. Len(sent)
    PROVE  /\ sent[k] \in Payloads /\ sent[k] \in Seq(Bytes)
           /\ Len(sent[k]) \in Nat /\ Size(sent[k]) = Len(sent[k]) + 4
           /\ Here \in Nat
           /\ Len(ends) = Len(sent) =>
                 /\ ends[k] \in Nat /\ Start(k) \in Int
                 /\ Start(k) = Here + ends[k] - (Len(sent[k]) + 4)
<1>1. sent[k] \in Payloads /\ (Len(ends) = Len(sent) => ends[k] \in Nat)
  BY DEF TypeOK
<1>2. sent[k] \in Seq(Bytes) /\ Len(sent[k]) \in Nat
  BY <1>1, ByteTypes
<1>3. Size(sent[k]) = Len(sent[k]) + 4 /\ Here \in Nat
  BY <1>2, HereNat DEF Size, HEADLEN
<1>4. Start(k) = Here + ends[k] - (Len(sent[k]) + 4)
  BY <1>3 DEF Start
<1>5. ASSUME ends[k] \in Nat PROVE Start(k) \in Int
  BY <1>2, <1>3, <1>4, <1>5
<1>6. QED
  BY <1>1, <1>2, <1>3, <1>4, <1>5

\* What was received is the beginning of what will be.
LEMMA StreamExtends ==
    ASSUME TypeOK
    PROVE  Extends(Stream, fed) /\ Len(Stream) = Len(fed) + Len(wire)
<1>1. fed \in Seq(Bytes) /\ wire \in Seq(Bytes)
  BY DEF TypeOK
<1>2. /\ fed \o wire \in Seq(Bytes) /\ Len(fed \o wire) = Len(fed) + Len(wire)
      /\ \A i \in 1 .. Len(fed) : (fed \o wire)[i] = fed[i]
  BY <1>1, Joined
<1>3. QED
  BY <1>1, <1>2 DEF Stream, Extends

\* The bytes of a frame sent on this connection.
LEMMA SentFrame ==
    ASSUME TypeOK, Layout, NEW k \in 1 .. Len(sent)
    PROVE  LET i == Start(k) + 1
               n == Len(sent[k])
           IN  /\ i \in Nat \ {0} /\ n \in Nat /\ i + n + 3 = Here + ends[k]
               /\ i + n + 3 <= Len(Stream)
               /\ Stream[i] = HEAD /\ Stream[i + 1] = Mark(sent[k]) /\ Number[Stream[i + 2]] = n
               /\ \A j \in 1 .. n : Stream[i + 2 + j] = sent[k][j]
               /\ Stream[i + n + 3] = TAIL
<1> DEFINE i == Start(k) + 1
           n == Len(sent[k])
<1>1. /\ sent[k] \in Seq(Bytes) /\ n \in Nat /\ ends[k] \in Nat /\ Here \in Nat
      /\ Start(k) = Here + ends[k] - (n + 4) /\ Start(k) \in Int
      /\ Here <= Start(k) /\ Here + ends[k] <= Len(Stream)
      /\ FrameAt(Stream, i, sent[k])
  BY SentTypes DEF Layout
<1>2. i \in Nat \ {0} /\ i + n + 3 = Here + ends[k]
  <2>1. /\ n \in Nat /\ ends[k] \in Nat /\ Here \in Nat /\ Here <= Start(k)
        /\ Start(k) = Here + ends[k] - (n + 4) /\ Start(k) \in Int
    BY <1>1
  <2> HIDE DEF n
  <2>2. PICK h \in Nat, e \in Nat, st \in Int : h = Here /\ e = ends[k] /\ st = Start(k)
    BY <2>1
  <2>3. i \in Nat \ {0} /\ i + n + 3 = Here + ends[k]
    <3>1. n \in Nat /\ h <= st /\ st = h + e - (n + 4) /\ i = st + 1
      BY <2>1, <2>2
    <3> HIDE DEF i
    <3>2. h \in Nat /\ e \in Nat /\ st \in Int
      BY <2>2
    <3>3. i \in Nat \ {0}
      BY <3>1, <3>2
    <3>4. i + n + 3 = h + e
      BY <3>1, <3>2
    <3>5. QED
      BY <2>2, <3>3, <3>4
  <2>4. QED
    BY <2>3
<1>3. Stream \in Seq(Bytes)
  BY StreamExtends DEF Extends
<1> HIDE DEF i
<1>4. i + Len(sent[k]) + 3 <= Len(Stream)
  BY <1>1, <1>2
<1>5. /\ Stream[i] = HEAD /\ Stream[i + 1] = Mark(sent[k]) /\ Number[Stream[i + 2]] = n
      /\ \A j \in 1 .. n : Stream[i + 2 + j] = sent[k][j]
      /\ Stream[i + n + 3] = TAIL
  <2>1. i \in Nat \ {0} /\ sent[k] \in Seq(Bytes) /\ FrameAt(Stream, i, sent[k])
    BY <1>1, <1>2 DEF i
  <2>2. /\ Stream \in Seq(Bytes) /\ i \in Nat \ {0} /\ sent[k] \in Seq(Bytes)
        /\ i + Len(sent[k]) + 3 <= Len(Stream) /\ FrameAt(Stream, i, sent[k])
    BY <1>3, <1>4, <2>1
  <2> HIDE DEF n
  <2>3. /\ Stream[i] = HEAD /\ Stream[i + 1] = Mark(sent[k])
        /\ Number[Stream[i + 2]] = Len(sent[k])
        /\ \A j \in 1 .. Len(sent[k]) : Stream[i + 2 + j] = sent[k][j]
        /\ Stream[i + Len(sent[k]) + 3] = TAIL
    BY <2>2, FrameThere
  <2>4. QED
    BY <2>3 DEF n
<1>6. QED
  BY <1>1, <1>2, <1>4, <1>5 DEF i

\* No frame sent on this connection is passed over once it has begun to arrive.
LEMMA StartIsFrame ==
    ASSUME TypeOK, Layout, NEW k \in 1 .. Len(sent), Start(k) + 1 <= Len(fed)
    PROVE  ~NoFrame(fed, Start(k) + 1)
<1> DEFINE i == Start(k) + 1
           n == Len(sent[k])
           x == SubSeq(fed, i + HEADLEN + 1, i + HEADLEN + n)
<1>1. /\ i \in Nat \ {0} /\ n \in Nat
      /\ Stream[i] = HEAD /\ Stream[i + 1] = Mark(sent[k]) /\ Number[Stream[i + 2]] = n
      /\ \A j \in 1 .. n : Stream[i + 2 + j] = sent[k][j]
  BY SentFrame
<1>2. /\ Len(fed) \in Nat /\ fed \in Seq(Bytes) /\ Extends(Stream, fed)
      /\ \A j \in 1 .. Len(fed) : Stream[j] = fed[j]
      /\ sent[k] \in Seq(Bytes) /\ Size(sent[k]) = n + 4
      /\ FrameAt(Stream, i, sent[k])
  <2>1. fed \in Seq(Bytes)
    BY DEF TypeOK
  <2>2. Len(fed) \in Nat
    BY <2>1
  <2>3. Extends(Stream, fed) /\ \A j \in 1 .. Len(fed) : Stream[j] = fed[j]
    BY StreamExtends DEF Extends
  <2>4. QED
    BY <2>1, <2>2, <2>3, SentTypes DEF Layout
<1>3. i <= Len(fed)
  OBVIOUS
<1> HIDE DEF i, n, x
<1>4. fed[i] = HEAD
  BY <1>1, <1>2, <1>3
<1>5. ASSUME i + HEADLEN <= Len(fed)
      PROVE  fed[i + 1] = Mark(sent[k]) /\ Number[fed[i + HEADLEN]] = n
  <2>1. i + 1 \in 1 .. Len(fed) /\ i + HEADLEN \in 1 .. Len(fed) /\ i + HEADLEN = i + 2
    BY <1>1, <1>2, <1>5 DEF HEADLEN
  <2>2. QED
    BY <1>1, <1>2, <2>1
<1>6. ASSUME n < Len(fed) - i - HEADLEN PROVE FrameAt(fed, i, x)
  <2>1. FrameAt(fed, i, sent[k])
    <3>1. i + Size(sent[k]) - 1 <= Len(fed)
      BY <1>1, <1>2, <1>6 DEF HEADLEN
    <3>2. QED
      BY <1>1, <1>2, <3>1, FrameStays
  <2>2. x = sent[k]
    <3> DEFINE p == i + HEADLEN + 1
               e == i + HEADLEN + n
    <3>1. /\ p \in Nat /\ e \in Nat /\ 1 <= p /\ p <= e + 1 /\ e <= Len(fed) /\ e - p + 1 = n
          /\ \A j \in 1 .. n : p + j - 1 = i + 2 + j /\ i + 2 + j \in 1 .. Len(fed)
      BY <1>1, <1>2, <1>6 DEF HEADLEN
    <3> HIDE DEF p, e
    <3>2. /\ SubSeq(fed, p, e) \in Seq(Bytes) /\ Len(SubSeq(fed, p, e)) = e - p + 1
          /\ \A j \in 1 .. e - p + 1 : SubSeq(fed, p, e)[j] = fed[p + j - 1]
      BY <1>2, <3>1, Part
    <3>3. x = SubSeq(fed, p, e)
      BY DEF x, p, e
    <3>4. Len(x) = n /\ \A j \in 1 .. n : x[j] = sent[k][j]
      <4>1. Len(x) = n /\ \A j \in 1 .. n : x[j] = fed[p + j - 1]
        BY <3>1, <3>2, <3>3
      <4>2. \A j \in 1 .. n : x[j] = fed[i + 2 + j] /\ i + 2 + j \in 1 .. Len(fed)
        BY <3>1, <4>1
      <4>3. QED
        BY <1>1, <1>2, <4>1, <4>2
    <3>5. x \in Seq(Bytes) /\ Len(sent[k]) = n
      BY <3>2, <3>3 DEF n
    <3>6. QED
      BY <1>2, <3>4, <3>5, SeqEqual
  <2>3. QED
    BY <2>1, <2>2
<1>7. ASSUME NoFrame(fed, i) PROVE FALSE
  <2>1. i + HEADLEN <= Len(fed) /\ Valid(fed[i + 1]) /\ Number[fed[i + HEADLEN]] = n
    BY <1>4, <1>5, <1>7, ByteKinds DEF NoFrame
  <2>2. n < Len(fed) - i - HEADLEN /\ ~FrameAt(fed, i, x)
    BY <1>4, <1>7, <2>1 DEF NoFrame, x
  <2>3. QED
    BY <1>6, <2>2
<1>8. QED
  BY <1>7 DEF i

\* A frame found where one was sent is that one.
LEMMA StartIsSent ==
    ASSUME TypeOK, Layout, NEW k \in 1 .. Len(sent), NEW data \in Seq(Bytes),
           Start(k) + Size(data) <= Len(fed), FrameAt(fed, Start(k) + 1, data)
    PROVE  data = sent[k]
<1> DEFINE i == Start(k) + 1
<1>1. i \in Nat \ {0} /\ Stream[i + 1] = Mark(sent[k])
  BY SentFrame
<1>2. /\ Len(fed) \in Nat /\ fed \in Seq(Bytes)
      /\ \A j \in 1 .. Len(fed) : Stream[j] = fed[j]
      /\ Len(data) \in Nat /\ Size(data) = Len(data) + 4
  BY StreamExtends DEF Extends, TypeOK, Size, HEADLEN
<1>3. Start(k) \in Int /\ Start(k) + Size(data) <= Len(fed)
  BY SentTypes DEF Layout
<1>4. i + Len(data) + 3 <= Len(fed) /\ i + 1 \in 1 .. Len(fed)
  BY <1>1, <1>2, <1>3
<1>5. FrameAt(fed, i, data)
  OBVIOUS
<1> HIDE DEF i
<1>6. fed[i + 1] = Mark(data)
  <2>1. /\ fed \in Seq(Bytes) /\ i \in Nat \ {0} /\ data \in Seq(Bytes)
        /\ i + Len(data) + 3 <= Len(fed) /\ FrameAt(fed, i, data)
    BY <1>1, <1>2, <1>4, <1>5
  <2>2. QED
    BY <2>1, FrameThere
<1>7. QED
  BY <1>1, <1>2, <1>4, <1>6, ByteKinds


\* What comes next, the first g frames behind it, is the frame after them.
LEMMA NextStart ==
    ASSUME TypeOK, Layout, NEW g \in 0 .. Len(sent), Here + Behind(g) < Len(Stream)
    PROVE  g + 1 \in 1 .. Len(sent) /\ Start(g + 1) = Here + Behind(g)
<1>1. Len(sent) \in Nat /\ Len(Stream) \in Nat
  BY StreamExtends DEF TypeOK
<1>2. Len(Stream) = Here + Behind(Len(sent))
  BY DEF Layout
<1>3. g # Len(sent)
  BY <1>1, <1>2
<1>4. g \in 0 .. Len(sent) - 1 /\ g + 1 \in 1 .. Len(sent)
  BY <1>1, <1>3
<1>5. QED
  BY <1>4 DEF Layout

\* The stream of a connection begins with a header.
LEMMA FirstIsHeader ==
    ASSUME TypeOK, Layout, Here < Len(Stream)
    PROVE  /\ HeaderAt(Stream, Here + 1)
           /\ \A i \in Here + 1 .. Here + 2 : Stream[i] # TAIL
<1>1. Here \in Nat /\ Len(sent) \in Nat
  BY HereNat DEF TypeOK
<1>2. 0 \in 0 .. Len(sent) /\ Behind(0) = 0 /\ Here + 0 = Here /\ 0 + 1 = 1
  BY <1>1 DEF Behind
<1>3. 1 \in 1 .. Len(sent) /\ Start(1) = Here
  BY <1>2, NextStart
<1>4. Stream[Here + 1] = HEAD /\ Stream[Here + 1 + 1] = Mark(sent[1])
  BY <1>3, SentFrame
<1>5. HeaderAt(Stream, Here + 1)
  BY <1>4, ByteKinds DEF HeaderAt
<1>6. ASSUME NEW i \in Here + 1 .. Here + 2 PROVE Stream[i] # TAIL
  <2>1. i = Here + 1 \/ i = Here + 1 + 1
    BY <1>1
  <2>2. QED
    BY <1>4, <2>1, ByteKinds
<1>7. QED
  BY <1>5, <1>6

-------------------------------------------------------------------------------
(* The frames of all connections.                                              *)

\* After each beginning of a connection, a header comes before any tail.
Boundaries ==
    \A c \in 1 .. Len(conns) :
        /\ conns[c].fed \in 0 .. Here
        /\ \A e \in conns[c].fed + 1 .. Len(fed) :
              fed[e] = TAIL => \E b \in conns[c].fed + 1 .. e - 2 : HeaderAt(fed, b)

\* Therefore no frame spans the beginning of a connection: the header that comes
\* there would be part of the payload.
LEMMA NoneSpans ==
    ASSUME TypeOK, Boundaries, PlainPayloads,
           NEW p \in Nat \ {0}, NEW data \in Seq(Bytes),
           p + Size(data) - 1 <= Len(fed), FrameAt(fed, p, data),
           NEW c \in 1 .. Len(conns)
    PROVE  p > conns[c].fed \/ p + Size(data) - 1 <= conns[c].fed
<1> DEFINE n == Len(data)
           B == conns[c].fed
<1>1. n \in Nat /\ Size(data) = n + 4 /\ fed \in Seq(Bytes) /\ Len(fed) \in Nat /\ Here \in Nat
  <2>1. n \in Nat /\ Size(data) = n + 4
    BY DEF Size, HEADLEN
  <2>2. fed \in Seq(Bytes)
    BY DEF TypeOK
  <2>3. Len(fed) \in Nat
    BY <2>2
  <2>4. QED
    BY <2>1, <2>2, <2>3, HereNat
<1>2. B \in Nat
  BY <1>1 DEF Boundaries
<1>3. p + n + 3 <= Len(fed)
  BY <1>1
<1>4. /\ fed[p] = HEAD /\ fed[p + 1] = Mark(data)
      /\ \A k \in 1 .. n : fed[p + 2 + k] = data[k]
      /\ fed[p + n + 3] = TAIL
  BY <1>1, <1>3, FrameThere
<1>5. data \in Payloads
  <2>1. p + 1 \in 1 .. Len(fed)
    BY <1>1, <1>3
  <2>2. Mark(data) \in Bytes
    BY <1>1, <1>4, <2>1
  <2>3. Mark(data) \notin PayloadBytes
    BY ByteKinds DEF PlainPayloads
  <2>4. PICK m \in Payloads : Mark(data) = Mark(m) \/ Mark(data) = Length(m)
    BY <2>2, <2>3, ByteKinds DEF Bytes
  <2>5. Mark(data) # Length(m)
    BY ByteKinds
  <2>6. QED
    BY <2>4, <2>5, ByteKinds
<1>6. SUFFICES ASSUME p <= B, B < p + n + 3 PROVE FALSE
  BY <1>1, <1>2
<1>7. PICK b \in B + 1 .. p + n + 3 - 2 : HeaderAt(fed, b)
  <2>1. p + n + 3 \in B + 1 .. Len(fed)
    <3> HIDE DEF n, B
    <3>1. p + n + 3 \in Nat /\ B \in Nat /\ Len(fed) \in Nat
      BY <1>1, <1>2
    <3>2. QED
      BY <1>3, <1>6, <3>1
  <2>2. \A e \in B + 1 .. Len(fed) :
           fed[e] = TAIL => \E b \in B + 1 .. e - 2 : HeaderAt(fed, b)
    BY DEF Boundaries
  <2>3. fed[p + n + 3] = TAIL
    BY <1>4
  <2> HIDE DEF n, B
  <2>4. PICK e \in B + 1 .. Len(fed) : e = p + n + 3
    BY <2>1
  <2>5. PICK b \in B + 1 .. e - 2 : HeaderAt(fed, b)
    BY <2>2, <2>3, <2>4
  <2>6. e - 2 = p + n + 3 - 2
    BY <1>1, <1>2, <2>4
  <2>7. QED
    BY <2>5, <2>6, Zenon
<1> HIDE DEF n, B
<1>8. b \in Nat /\ p < b /\ b <= p + n + 1
  BY <1>1, <1>2, <1>6
<1>9. b # p + 1
  BY <1>4, <1>7, ByteKinds DEF HeaderAt
<1> DEFINE j == b - p - 1
<1>10. j \in 1 .. n /\ p + 2 + j = b + 1
  BY <1>1, <1>8, <1>9
<1> HIDE DEF j
<1>11. Valid(data[j]) /\ data[j] # Unmatched
  BY <1>4, <1>7, <1>10 DEF HeaderAt
<1>12. data[j] \in PayloadBytes
  <2>1. data \in Payloads /\ data \in Seq(PayloadBytes) /\ j \in 1 .. Len(data)
    BY <1>5, <1>10, PacketSyncAssumption DEF n
  <2>2. QED
    BY <2>1
<1>13. QED
  BY <1>11, <1>12 DEF PlainPayloads

\* The messages of the connection of the moment are the first ones sent on it,
\* and what has been decided on is the frames of these.
InStep ==
    /\ \E late \in 0 .. Len(got), g \in 0 .. Len(sent) :
          /\ Len(got) = late + g
          /\ \A k \in 1 .. Len(got) : at[k] <= Here <=> k <= late
          /\ \A j \in 1 .. g : got[late + j] = sent[j]
          /\ IF g = 0 THEN Decided <= Here ELSE Decided = Here + ends[g]
    /\ Last(conns).clean => Here <= Decided

\* So it is on a connection that found the parser empty, and on every one if the
\* payloads are plain.
Caught == PlainPayloads \/ Last(conns).clean => InStep

RInv == Layout /\ Boundaries /\ Caught


\* A turn changes nothing of the stream.
LEMMA SameStream ==
    ASSUME UNCHANGED <<wire, sent, fed, ends, conns>>
    PROVE  /\ Here' = Here /\ Stream' = Stream
           /\ Layout => Layout'
           /\ Boundaries => Boundaries'
<1>1. Here' = Here /\ Stream' = Stream
  BY DEF Here, Stream
<1>2. \A k : Start(k)' = Start(k) /\ Behind(k)' = Behind(k)
  BY <1>1 DEF Start, Behind
<1>3. Layout => Layout'
  BY <1>1, <1>2 DEF Layout
<1>4. QED
  BY <1>1, <1>3 DEF Boundaries

\* A turn of recvdata hands out the next frame of the connection, or none.
LEMMA CaughtTurn ==
    ASSUME IInv, Layout, Boundaries, InStep, PlainPayloads \/ Last(conns).clean, Turn
    PROVE  InStep'
<1>1. /\ TypeOK /\ ParserOK /\ Window
      /\ Skips \/ Takes
      /\ UNCHANGED <<wire, sent, fed, ends, conns>> /\ Here' = Here
  BY SameStream DEF IInv, Turn
<1>2. PICK late \in 0 .. Len(got), g \in 0 .. Len(sent) :
          /\ Len(got) = late + g
          /\ \A k \in 1 .. Len(got) : at[k] <= Here <=> k <= late
          /\ \A j \in 1 .. g : got[late + j] = sent[j]
          /\ IF g = 0 THEN Decided <= Here ELSE Decided = Here + ends[g]
  BY DEF InStep
<1>3. Last(conns).clean => Here <= Decided
  BY DEF InStep
<1> DEFINE e == Here + Behind(g)
<1>4. /\ Here \in Nat /\ Decided \in Nat /\ Len(fed) \in Nat /\ Len(sent) \in Nat
      /\ Len(got) \in Nat /\ g \in Nat /\ late \in Nat
      /\ Len(fed) <= Len(Stream) /\ Len(Stream) \in Nat
  <2>1. Here \in Nat /\ Decided \in Nat
    BY <1>1, HereNat, DecidedInFed
  <2>2. Len(fed) \in Nat /\ Len(sent) \in Nat /\ Len(got) \in Nat
    BY <1>1 DEF TypeOK
  <2>3. Len(fed) <= Len(Stream) /\ Len(Stream) \in Nat
    BY <1>1, StreamExtends DEF Extends
  <2>4. QED
    BY <1>2, <2>1, <2>2, <2>3
<1>5. /\ Behind(g) \in Nat /\ Decided <= e /\ (g # 0 => Decided = e) /\ (g = 0 => e = Here)
  <2>1. CASE g = 0
    BY <1>2, <1>4, <2>1 DEF Behind
  <2>2. CASE g # 0
    <3>1. g \in 1 .. Len(sent)
      BY <1>4, <2>2
    <3>2. ends[g] \in Nat
      BY <1>1, <3>1, SentTypes DEF Layout
    <3>3. QED
      BY <1>2, <1>4, <2>2, <3>2 DEF Behind
  <2>3. QED
    BY <2>1, <2>2
<1>6. e \in Nat
  BY <1>4, <1>5
<1>7. ASSUME e < Len(fed) PROVE g + 1 \in 1 .. Len(sent) /\ Start(g + 1) = e
  <2>1. e < Len(Stream)
    BY <1>4, <1>6, <1>7
  <2>2. QED
    BY <1>1, <2>1, NextStart
<1> HIDE DEF e
<1>8. CASE Skips
  <2>1. /\ Decided' \in Nat /\ Decided <= Decided' /\ Decided' <= Len(fed)
        /\ \A i \in Decided + 1 .. Decided' : NoFrame(fed, i)
        /\ UNCHANGED <<got, at>>
    BY <1>8 DEF Skips
  <2>2. Decided' <= e
    <3>1. SUFFICES ASSUME e < Decided' PROVE FALSE
      BY <1>6, <2>1
    <3>2. e + 1 \in Decided + 1 .. Decided' /\ e < Len(fed) /\ e + 1 <= Len(fed)
      BY <1>4, <1>5, <1>6, <2>1, <3>1
    <3>3. g + 1 \in 1 .. Len(sent) /\ Start(g + 1) = e
      BY <1>7, <3>2
    <3>4. ~NoFrame(fed, e + 1)
      BY <1>1, <3>2, <3>3, StartIsFrame
    <3>5. QED
      BY <2>1, <3>2, <3>4
  <2>3. IF g = 0 THEN Decided' <= Here ELSE Decided' = Here + ends[g]
    <3>1. g # 0 => Decided' = Decided
      BY <1>4, <1>5, <1>6, <2>1, <2>2
    <3>2. QED
      BY <1>2, <1>5, <2>2, <3>1
  <2>4. Last(conns).clean => Here <= Decided'
    BY <1>3, <1>4, <2>1
  <2>5. QED
    BY <1>1, <1>2, <2>1, <2>3, <2>4 DEF InStep
<1>9. CASE Takes
  <2>1. PICK data \in Seq(Bytes) :
           /\ Decided' = Decided + Size(data) /\ Decided' <= Len(fed)
           /\ FrameAt(fed, Decided + 1, data)
           /\ got' = Append(got, data) /\ at' = Append(at, Decided + 1)
    BY <1>9 DEF Takes
  <2>2. Size(data) \in Nat /\ Size(data) > 0
    BY <2>1 DEF Size, HEADLEN
  <2>3. Len(at) = Len(got) /\ got \in Seq(Seq(Bytes)) /\ at \in Seq(Nat \ {0})
    BY DEF IInv, Found, TypeOK
  <2> DEFINE N == Len(got)
  <2>4. /\ Len(got') = N + 1 /\ got'[N + 1] = data /\ \A k \in 1 .. N : got'[k] = got[k]
    BY <2>1, <2>3
  <2>5. at'[N + 1] = Decided + 1 /\ \A k \in 1 .. N : at'[k] = at[k]
    <3>1. Decided + 1 \in Nat \ {0} /\ at \in Seq(Nat \ {0}) /\ Len(at) = N
      BY <1>4, <2>3
    <3>2. /\ Append(at, Decided + 1)[Len(at) + 1] = Decided + 1
          /\ \A k \in 1 .. Len(at) : Append(at, Decided + 1)[k] = at[k]
      BY <3>1
    <3>3. QED
      BY <2>1, <3>1, <3>2
  <2>6. CASE Decided < Here
    <3>1. g = 0 /\ late = N
      <4>1. e = Here + Behind(g)
        BY DEF e
      <4>2. g = 0
        BY <1>4, <1>5, <2>6, <4>1
      <4>3. QED
        BY <1>2, <1>4, <4>2
    <3>2. Decided' <= Here
      <4>1. Len(conns) \in 1 .. Len(conns) /\ conns[Len(conns)].fed = Here
        BY <1>1, HereNat DEF Here
      <4>2. Decided + 1 \in Nat \ {0} /\ Decided + 1 + Size(data) - 1 = Decided'
        BY <1>4, <2>1, <2>2
      <4>3. Decided + 1 > Here \/ Decided' <= Here
        <5>1. PlainPayloads
          BY <1>3, <1>4, <2>6
        <5>2. QED
          BY <1>1, <2>1, <4>1, <4>2, <5>1, NoneSpans
      <4>4. QED
        BY <1>4, <2>6, <4>3
    <3>3. ASSUME NEW k \in 1 .. N + 1 PROVE at'[k] <= Here <=> k <= N + 1
      <4>1. CASE k = N + 1
        BY <1>4, <2>5, <2>6, <4>1
      <4>2. CASE k # N + 1
        <5>1. k \in 1 .. N /\ k <= late
          BY <1>4, <3>1, <4>2
        <5>2. at[k] <= Here
          BY <1>2, <5>1
        <5>3. QED
          BY <1>4, <2>5, <5>1, <5>2
      <4>3. QED
        BY <4>1, <4>2
    <3>4. ~Last(conns).clean
      BY <1>3, <1>4, <2>6
    <3>5. N + 1 \in 0 .. Len(got') /\ 0 \in 0 .. Len(sent) /\ N + 1 = N + 1 + 0
      BY <1>4, <2>4
    <3>6. \A j \in 1 .. 0 : FALSE
      OBVIOUS
    <3> HIDE DEF N
    <3>7. \E l \in 0 .. Len(got'), h \in 0 .. Len(sent) :
             /\ Len(got') = l + h
             /\ \A k \in 1 .. Len(got') : at'[k] <= Here <=> k <= l
             /\ \A j \in 1 .. h : got'[l + j] = sent[j]
             /\ IF h = 0 THEN Decided' <= Here ELSE Decided' = Here + ends[h]
      <4> USE <3>5
      <4> WITNESS N + 1 \in 0 .. Len(got'), 0 \in 0 .. Len(sent)
      <4>1. QED
        BY <2>4, <3>2, <3>3, <3>5, <3>6
    <3>8. QED
      BY <1>1, <3>4, <3>7 DEF InStep
  <2>7. CASE ~(Decided < Here)
    <3>1. Decided = e
      BY <1>4, <1>5, <1>6, <2>7
    <3>2. e < Len(fed)
      BY <1>4, <1>6, <2>1, <2>2, <3>1
    <3>3. g + 1 \in 1 .. Len(sent) /\ Start(g + 1) = e
      BY <1>7, <3>2
    <3>4. data = sent[g + 1]
      <4>1. Start(g + 1) + Size(data) <= Len(fed) /\ FrameAt(fed, Start(g + 1) + 1, data)
        BY <2>1, <3>1, <3>3
      <4>2. QED
        BY <1>1, <3>3, <4>1, StartIsSent
    <3>5. Decided' = Here + ends[g + 1]
      <4>1. /\ Start(g + 1) = Here + ends[g + 1] - (Len(sent[g + 1]) + 4)
            /\ Size(sent[g + 1]) = Len(sent[g + 1]) + 4 /\ ends[g + 1] \in Nat
            /\ Len(sent[g + 1]) \in Nat
        BY <1>1, <3>3, SentTypes DEF Layout
      <4>2. Decided' = Start(g + 1) + Size(sent[g + 1])
        BY <2>1, <3>1, <3>3, <3>4
      <4>3. PICK z \in Nat : z = Size(sent[g + 1])
        BY <4>1
      <4>4. Start(g + 1) = Here + ends[g + 1] - z
        BY <4>1, <4>3
      <4>5. Here \in Nat /\ ends[g + 1] \in Nat
        BY <1>4, <4>1
      <4>6. QED
        BY <4>2, <4>3, <4>4, <4>5
    <3>6. ASSUME NEW k \in 1 .. N + 1 PROVE at'[k] <= Here <=> k <= late
      <4>1. CASE k = N + 1
        BY <1>2, <1>4, <2>5, <2>7, <4>1
      <4>2. CASE k # N + 1
        <5>1. k \in 1 .. N
          BY <1>4, <4>2
        <5>2. QED
          BY <1>2, <2>5, <5>1
      <4>3. QED
        BY <4>1, <4>2
    <3>7. ASSUME NEW j \in 1 .. g + 1 PROVE got'[late + j] = sent[j]
      <4>1. CASE j = g + 1
        <5>1. late + j = N + 1
          BY <1>2, <1>4, <4>1
        <5>2. QED
          BY <2>4, <3>4, <4>1, <5>1
      <4>2. CASE j # g + 1
        <5>1. j \in 1 .. g /\ late + j \in 1 .. N
          BY <1>2, <1>4, <4>2
        <5>2. QED
          BY <1>2, <2>4, <5>1
      <4>3. QED
        BY <4>1, <4>2
    <3>8. Last(conns).clean => Here <= Decided'
      BY <1>3, <1>4, <2>1, <2>2
    <3>9. /\ late \in 0 .. Len(got') /\ g + 1 \in 0 .. Len(sent) /\ Len(got') = late + (g + 1)
          /\ g + 1 # 0
      BY <1>2, <1>4, <2>4, <3>3
    <3> HIDE DEF N
    <3>10. \E l \in 0 .. Len(got'), h \in 0 .. Len(sent) :
             /\ Len(got') = l + h
             /\ \A k \in 1 .. Len(got') : at'[k] <= Here <=> k <= l
             /\ \A j \in 1 .. h : got'[l + j] = sent[j]
             /\ IF h = 0 THEN Decided' <= Here ELSE Decided' = Here + ends[h]
      <4> USE <3>9
      <4> WITNESS late \in 0 .. Len(got'), g + 1 \in 0 .. Len(sent)
      <4>1. QED
        BY <2>4, <3>5, <3>6, <3>7, <3>9
    <3>11. QED
      BY <1>1, <3>8, <3>10 DEF InStep
  <2>8. QED
    BY <2>6, <2>7
<1>10. QED
  BY <1>1, <1>8, <1>9


\* A turn of recvdata keeps in step with the connection.
LEMMA TurnKeepsR ==
    ASSUME IInv, RInv, Turn
    PROVE  RInv'
<1>1. UNCHANGED <<wire, sent, fed, ends, conns>>
  BY DEF Turn
<1>2. Layout /\ Boundaries /\ Caught
  BY DEF RInv
<1>3. ASSUME PlainPayloads \/ Last(conns).clean PROVE InStep'
  <2>1. InStep
    BY <1>2, <1>3 DEF Caught
  <2>2. QED
    BY <1>2, <1>3, <2>1, CaughtTurn
<1>4. Caught'
  BY <1>1, <1>3 DEF Caught
<1>5. Layout' /\ Boundaries'
  BY <1>1, <1>2, SameStream
<1>6. QED
  BY <1>4, <1>5 DEF RInv

\* A string with its first bytes moved to the end of another.
LEMMA Moved ==
    ASSUME NEW s \in Seq(Bytes), NEW t \in Seq(Bytes), NEW n \in 1 .. Len(t)
    PROVE  (s \o SubSeq(t, 1, n)) \o From(t, n + 1) = s \o t
<1> DEFINE p == SubSeq(t, 1, n)
           q == From(t, n + 1)
<1>1. Len(t) \in Nat /\ n \in Nat /\ n + 1 \in Nat /\ 1 <= n + 1 /\ n + 1 <= Len(t) + 1
      /\ 1 \in Nat /\ 1 <= 1 /\ n <= Len(t)
  OBVIOUS
<1>2. p \in Seq(Bytes) /\ Len(p) = n /\ \A i \in 1 .. n : p[i] = t[i]
  <2>1. /\ p \in Seq(Bytes) /\ Len(p) = n - 1 + 1
        /\ \A i \in 1 .. n - 1 + 1 : p[i] = t[1 + i - 1]
    BY <1>1, Part
  <2>2. n - 1 + 1 = n /\ \A i \in 1 .. n : 1 + i - 1 = i
    BY <1>1
  <2>3. QED
    BY <2>1, <2>2
<1>3. q \in Seq(Bytes) /\ Len(q) = Len(t) - n /\ \A i \in 1 .. Len(t) - n : q[i] = t[n + i]
  <2>1. /\ q \in Seq(Bytes) /\ Len(q) = Len(t) - (n + 1) + 1
        /\ \A i \in 1 .. Len(t) - (n + 1) + 1 : q[i] = t[(n + 1) + i - 1]
    BY <1>1, Rest
  <2>2. /\ Len(t) - (n + 1) + 1 = Len(t) - n
        /\ \A i \in 1 .. Len(t) - n : (n + 1) + i - 1 = n + i
    BY <1>1
  <2>3. QED
    BY <2>1, <2>2
<1> HIDE DEF p, q
<1>4. p \o q = t
  <2>1. /\ p \o q \in Seq(Bytes) /\ Len(p \o q) = Len(p) + Len(q)
        /\ \A i \in 1 .. Len(p) : (p \o q)[i] = p[i]
        /\ \A i \in 1 .. Len(q) : (p \o q)[Len(p) + i] = q[i]
    <3>1. p \in Seq(Bytes) /\ q \in Seq(Bytes)
      BY <1>2, <1>3
    <3>2. QED
      BY <3>1, Joined
  <2>2. Len(p \o q) = Len(t)
    BY <1>1, <1>2, <1>3, <2>1
  <2>3. ASSUME NEW i \in 1 .. Len(t) PROVE (p \o q)[i] = t[i]
    <3>1. CASE i \in 1 .. n
      BY <1>2, <2>1, <3>1
    <3>2. CASE i \notin 1 .. n
      <4>1. i - n \in 1 .. Len(t) - n /\ n + (i - n) = i
        BY <1>1, <3>2
      <4>2. (p \o q)[n + (i - n)] = q[i - n] /\ q[i - n] = t[n + (i - n)]
        BY <1>2, <1>3, <2>1, <4>1
      <4>3. QED
        BY <4>1, <4>2
    <3>3. QED
      BY <3>1, <3>2
  <2>4. QED
    BY <2>1, <2>2, <2>3, SeqEqual
<1>5. (s \o p) \o q = s \o (p \o q)
  <2>0. p \in Seq(Bytes) /\ q \in Seq(Bytes)
    BY <1>2, <1>3
  <2> HIDE DEF p, q
  <2>1. s \in Seq(Bytes) /\ p \in Seq(Bytes) /\ q \in Seq(Bytes)
    BY <2>0
  <2>2. QED
    BY <2>1, Associative
<1>6. QED
  BY <1>4, <1>5 DEF p, q

\* A read changes nothing of the stream, and may bring headers and tails.
LEMMA AfterRecvKeepsR ==
    ASSUME IInv, RInv, NEW n \in 1 .. Len(wire), AfterRecv(n)
    PROVE  RInv'
<1>1. /\ TypeOK /\ ParserOK /\ Window /\ Layout /\ Boundaries /\ Caught
      /\ fed' = fed \o SubSeq(wire, 1, n) /\ wire' = From(wire, n + 1)
      /\ UNCHANGED <<sent, got, at, ends, conns>>
  BY DEF IInv, RInv, AfterRecv, parser
<1>2. /\ TypeOK' /\ Decided' = Decided /\ Extends(fed', fed)
  BY AfterRecvKeeps DEF IInv
<1>3. /\ fed \in Seq(Bytes) /\ wire \in Seq(Bytes) /\ fed' \in Seq(Bytes) /\ wire' \in Seq(Bytes)
      /\ Len(fed) \in Nat /\ Len(fed') \in Nat /\ Len(fed) <= Len(fed')
      /\ \A i \in 1 .. Len(fed) : fed'[i] = fed[i]
  <2>1. fed \in Seq(Bytes) /\ wire \in Seq(Bytes)
    BY <1>1 DEF TypeOK
  <2>2. fed' \in Seq(Bytes) /\ wire' \in Seq(Bytes)
    BY <1>2 DEF TypeOK
  <2>3. Len(fed) \in Nat /\ Len(fed') \in Nat
    BY <2>1, <2>2
  <2>4. Len(fed) <= Len(fed') /\ \A i \in 1 .. Len(fed) : fed'[i] = fed[i]
    BY <1>2 DEF Extends
  <2>5. QED
    BY <2>1, <2>2, <2>3, <2>4
<1>4. Stream' = Stream /\ Here' = Here
  <2>1. Stream' = Stream
    BY <1>1, <1>3, Moved DEF Stream
  <2>2. QED
    BY <1>1, <2>1 DEF Here
<1>5. /\ Extends(Stream, fed') /\ Len(fed') <= Len(Stream) /\ Len(Stream) \in Nat
      /\ \A i \in 1 .. Len(fed') : fed'[i] = Stream[i]
  <2>1. Stream = fed' \o wire'
    BY <1>4 DEF Stream
  <2>2. /\ fed' \o wire' \in Seq(Bytes) /\ Len(fed' \o wire') = Len(fed') + Len(wire')
        /\ \A i \in 1 .. Len(fed') : (fed' \o wire')[i] = fed'[i]
    BY <1>3, Joined
  <2>3. Len(wire') \in Nat
    BY <1>3
  <2>4. QED
    BY <1>3, <2>1, <2>2, <2>3 DEF Extends
<1>6. Here \in 0 .. Len(fed) /\ Here \in Nat /\ Here \in 0 .. Len(fed')
  BY <1>1, <1>3 DEF Layout
<1>7. \A k : Start(k)' = Start(k) /\ Behind(k)' = Behind(k)
  BY <1>1, <1>4 DEF Start, Behind
<1>8. Layout'
  BY <1>1, <1>4, <1>6, <1>7 DEF Layout
<1>9. Boundaries'
  <2>1. ASSUME NEW c \in 1 .. Len(conns), NEW e \in conns[c].fed + 1 .. Len(fed'),
               fed'[e] = TAIL
        PROVE  \E b \in conns[c].fed + 1 .. e - 2 : HeaderAt(fed', b)
    <3> DEFINE B == conns[c].fed
    <3>1. B \in 0 .. Here
      BY <1>1 DEF Boundaries
    <3>2. e \in B + 1 .. Len(fed')
      OBVIOUS
    <3> HIDE DEF B
    <3>3. CASE e <= Len(fed)
      <4>1. e \in B + 1 .. Len(fed) /\ e \in 1 .. Len(fed)
        BY <1>3, <1>6, <3>1, <3>2, <3>3
      <4>2. fed[e] = TAIL
        BY <1>3, <2>1, <4>1
      <4>3. PICK b \in B + 1 .. e - 2 : HeaderAt(fed, b)
        BY <1>1, <4>1, <4>2 DEF Boundaries, B
      <4>4. b \in 1 .. Len(fed) /\ b + 1 \in 1 .. Len(fed)
        BY <1>3, <1>6, <3>1, <4>1
      <4>5. HeaderAt(fed', b)
        BY <1>3, <4>3, <4>4 DEF HeaderAt
      <4>6. QED
        BY <4>5 DEF B
    <3>4. CASE e > Len(fed)
      <4>1. /\ e \in Nat /\ Here < e /\ Here < Len(Stream) /\ e \in 1 .. Len(fed')
        BY <1>3, <1>5, <1>6, <3>1, <3>2, <3>4
      <4>2. /\ HeaderAt(Stream, Here + 1)
            /\ \A i \in Here + 1 .. Here + 2 : Stream[i] # TAIL
        BY <1>1, <4>1, FirstIsHeader
      <4>3. Stream[e] = TAIL
        BY <1>5, <2>1, <4>1
      <4>4. e > Here + 2
        BY <1>6, <4>1, <4>2, <4>3
      <4>5. /\ Here + 1 \in 1 .. Len(fed') /\ Here + 1 + 1 \in 1 .. Len(fed')
            /\ Here + 1 \in B + 1 .. e - 2
        BY <1>3, <1>6, <3>1, <4>1, <4>4
      <4>6. HeaderAt(fed', Here + 1)
        BY <1>5, <4>2, <4>5 DEF HeaderAt
      <4>7. QED
        BY <4>5, <4>6 DEF B
    <3>5. QED
      BY <1>3, <1>6, <3>1, <3>2, <3>3, <3>4
  <2>2. ASSUME NEW c \in 1 .. Len(conns) PROVE conns[c].fed \in 0 .. Here
    BY <1>1 DEF Boundaries
  <2>3. QED
    BY <1>1, <1>4, <2>1, <2>2 DEF Boundaries
<1>10. Caught'
  BY <1>1, <1>2, <1>4 DEF Caught, InStep
<1>11. QED
  BY <1>8, <1>9, <1>10 DEF RInv


\* Send puts one more frame at the end of the stream.
LEMMA SendKeepsR ==
    ASSUME IInv, RInv, NEW data \in Payloads, Send(data)
    PROVE  RInv'
<1> DEFINE f == PacketData2(data)
           z == Len(f)
<1>0. PICK N : N = Len(sent)
  OBVIOUS
<1>1. /\ TypeOK /\ Layout /\ Boundaries /\ Caught
      /\ wire' = wire \o f /\ sent' = Append(sent, data)
      /\ ends' = Append(ends, Size(data) + IF ends = <<>> THEN 0 ELSE Last(ends))
      /\ UNCHANGED <<got, fed, at, conns>>
  BY DEF IInv, RInv, Send
<1>2. Decided' = Decided
  BY SendKeeps
<1>3. /\ f \in Seq(Bytes) /\ z = Size(data) /\ z \in Nat /\ z > 0 /\ data \in Seq(Bytes)
  BY ByteTypes, FrameTypes, FrameBytes
<1>4. /\ N \in Nat /\ Len(ends) = N /\ sent \in Seq(Payloads) /\ ends \in Seq(Nat)
      /\ fed \in Seq(Bytes) /\ wire \in Seq(Bytes) /\ Stream \in Seq(Bytes)
      /\ Len(Stream) \in Nat /\ Here \in Nat /\ Here' = Here
      /\ Here \in 0 .. Len(fed) /\ Len(Stream) = Here + Behind(N)
  <2>1. Stream \in Seq(Bytes) /\ Here \in Nat /\ Here' = Here
    BY <1>1, StreamExtends, HereNat DEF Extends, Here
  <2>2. N \in Nat /\ Len(Stream) \in Nat
    BY <1>0, <1>1, <2>1 DEF TypeOK
  <2>3. QED
    BY <1>0, <1>1, <2>1, <2>2 DEF Layout, TypeOK
<1>5. Behind(N) \in Nat /\ ends' = Append(ends, z + Behind(N))
  <2>1. (IF ends = <<>> THEN 0 ELSE Last(ends)) = Behind(N)
    BY <1>4 DEF Behind, Last
  <2>2. Behind(N) \in Nat
    <3>1. CASE N = 0
      BY <3>1 DEF Behind
    <3>2. CASE N # 0
      <4>1. N \in 1 .. Len(ends)
        BY <1>4, <3>2
      <4>2. QED
        BY <1>4, <3>2, <4>1 DEF Behind
    <3>3. QED
      BY <3>1, <3>2
  <2>3. QED
    BY <1>1, <1>3, <2>1, <2>2
<1> HIDE DEF z, f
<1>6. /\ Len(sent') = N + 1 /\ sent'[N + 1] = data
      /\ \A k \in 1 .. N : sent'[k] = sent[k]
  BY <1>0, <1>1, <1>4
<1>7. /\ Len(ends') = N + 1 /\ ends'[N + 1] = z + Behind(N)
      /\ \A k \in 1 .. N : ends'[k] = ends[k]
  <2>1. z + Behind(N) \in Nat
    BY <1>3, <1>5
  <2>2. /\ Len(Append(ends, z + Behind(N))) = Len(ends) + 1
        /\ Append(ends, z + Behind(N))[Len(ends) + 1] = z + Behind(N)
        /\ \A k \in 1 .. Len(ends) : Append(ends, z + Behind(N))[k] = ends[k]
    BY <1>4, <2>1
  <2>3. QED
    BY <1>4, <1>5, <2>2
<1>8. Stream' = Stream \o f
  <2>1. fed \in Seq(Bytes) /\ wire \in Seq(Bytes) /\ f \in Seq(Bytes)
    BY <1>3, <1>4
  <2>2. (fed \o wire) \o f = fed \o (wire \o f)
    BY <2>1, Associative
  <2>3. QED
    BY <1>1, <2>2 DEF Stream
<1>9. /\ Extends(Stream', Stream) /\ Len(Stream') = Len(Stream) + z
      /\ \A i \in 1 .. z : Stream'[Len(Stream) + i] = f[i]
  <2>1. /\ Stream \o f \in Seq(Bytes) /\ Len(Stream \o f) = Len(Stream) + Len(f)
        /\ \A i \in 1 .. Len(Stream) : (Stream \o f)[i] = Stream[i]
        /\ \A i \in 1 .. Len(f) : (Stream \o f)[Len(Stream) + i] = f[i]
    <3>1. Stream \in Seq(Bytes) /\ f \in Seq(Bytes)
      BY <1>3, <1>4
    <3>2. QED
      BY <3>1, Joined
  <2>2. Len(Stream) \in Nat /\ z \in Nat /\ z = Len(f)
    BY <1>3, <1>4 DEF z
  <2>3. QED
    BY <1>4, <1>8, <2>1, <2>2 DEF Extends
<1>10. \A k \in 1 .. N : Start(k)' = Start(k)
  BY <1>4, <1>6, <1>7 DEF Start
<1>11. \A g \in 0 .. N : Behind(g)' = Behind(g)
  BY <1>4, <1>7 DEF Behind
<1>12. Start(N + 1)' = Len(Stream) /\ Here + ends'[N + 1] = Len(Stream) + z
  <2>1. Start(N + 1)' = Here + (z + Behind(N)) - z
    BY <1>3, <1>4, <1>6, <1>7 DEF Start
  <2>2. /\ Here \in Nat /\ z \in Nat /\ Behind(N) \in Nat /\ Len(Stream) = Here + Behind(N)
        /\ ends'[N + 1] = z + Behind(N)
    BY <1>3, <1>4, <1>5, <1>7
  <2>3. QED
    BY <2>1, <2>2
<1>13. ASSUME NEW k \in 1 .. N + 1
       PROVE  /\ Here <= Start(k)' /\ Here + ends'[k] <= Len(Stream')
              /\ FrameAt(Stream', Start(k)' + 1, sent'[k])
              /\ \A i \in 1 .. k - 1 : Here + ends'[i] <= Start(k)'
  <2>1. CASE k = N + 1
    <3>1. FrameAt(Stream', Start(k)' + 1, sent'[k])
      <4> DEFINE m == Len(data)
                 a == Len(Stream) + 1
      <4>1. /\ z = m + 4 /\ m \in Nat /\ f[1] = HEAD /\ f[2] = Mark(data) /\ f[3] = Length(data)
            /\ \A i \in 1 .. m : f[3 + i] = data[i]
            /\ f[4 + m] = TAIL /\ Number[Length(data)] = m
        BY <1>3, ByteTypes, FrameBytes DEF f, Size, HEADLEN
      <4>2. /\ Stream'[Len(Stream) + 1] = HEAD /\ Stream'[Len(Stream) + 2] = Mark(data)
            /\ Stream'[Len(Stream) + 3] = Length(data)
            /\ \A i \in 1 .. m : Stream'[Len(Stream) + (3 + i)] = data[i]
            /\ Stream'[Len(Stream) + (4 + m)] = TAIL
        <5>1. /\ 1 \in 1 .. z /\ 2 \in 1 .. z /\ 3 \in 1 .. z /\ 4 + m \in 1 .. z
              /\ \A i \in 1 .. m : 3 + i \in 1 .. z
          BY <4>1
        <5>2. QED
          BY <1>9, <4>1, <5>1
      <4>3. /\ Len(Stream) + 2 = a + 1 /\ Len(Stream) + 3 = a + 2 /\ a \in Nat \ {0}
            /\ \A i \in 1 .. m : Len(Stream) + (3 + i) = a + 2 + i
            /\ Len(Stream) + (4 + m) = a + m + 3 /\ a + m + 3 <= Len(Stream')
        <5>1. /\ Len(Stream) \in Nat /\ m \in Nat /\ Len(Stream') = Len(Stream) + (m + 4)
              /\ a = Len(Stream) + 1
          BY <1>4, <1>9, <4>1
        <5> HIDE DEF a, m
        <5>2. QED
          BY <5>1
      <4>4. Stream' \in Seq(Bytes)
        BY <1>9 DEF Extends
      <4> HIDE DEF a
      <4>5. FrameAt(Stream', a, data)
        <5>1. /\ Stream'[a] = HEAD /\ Stream'[a + 1] = Mark(data) /\ Number[Stream'[a + 2]] = m
              /\ \A i \in 1 .. m : Stream'[a + 2 + i] = data[i]
              /\ Stream'[a + m + 3] = TAIL
          BY <4>1, <4>2, <4>3 DEF a
        <5>2. QED
          BY <1>3, <4>3, <4>4, <5>1, FrameThere
      <4>6. QED
        BY <1>6, <1>12, <2>1, <4>5 DEF a
    <3>2. ASSUME NEW i \in 1 .. k - 1 PROVE Here + ends'[i] <= Start(k)'
      <4>1. i \in 1 .. N
        BY <1>4, <2>1
      <4>2. ends'[i] = ends[i] /\ Here + ends[i] <= Len(Stream)
        BY <1>0, <1>1, <1>7, <4>1 DEF Layout
      <4>3. QED
        BY <1>12, <2>1, <4>2
    <3>3. Here <= Start(k)' /\ Here + ends'[k] <= Len(Stream')
      <4>1. /\ Start(k)' = Len(Stream) /\ Here + ends'[k] = Len(Stream) + z
            /\ Len(Stream') = Len(Stream) + z
        BY <1>9, <1>12, <2>1
      <4>2. Here <= Len(Stream) /\ Len(Stream) + z <= Len(Stream) + z
        BY <1>3, <1>4, <1>5
      <4>3. QED
        BY <4>1, <4>2
    <3>4. QED
      BY <3>1, <3>2, <3>3
  <2>2. CASE k # N + 1
    <3>1. k \in 1 .. N /\ \A i \in 1 .. k - 1 : i \in 1 .. N
      BY <1>4, <2>2
    <3>2. /\ Here <= Start(k) /\ Here + ends[k] <= Len(Stream)
          /\ FrameAt(Stream, Start(k) + 1, sent[k])
          /\ \A i \in 1 .. k - 1 : Here + ends[i] <= Start(k)
      BY <1>0, <1>1, <3>1 DEF Layout
    <3>3. FrameAt(Stream', Start(k) + 1, sent[k])
      <4>1. /\ Start(k) + 1 \in Nat \ {0} /\ sent[k] \in Seq(Bytes)
            /\ Start(k) + 1 + Size(sent[k]) - 1 <= Len(Stream)
        <5>1. /\ Start(k) \in Int /\ Start(k) = Here + ends[k] - (Len(sent[k]) + 4)
              /\ Size(sent[k]) = Len(sent[k]) + 4 /\ Len(sent[k]) \in Nat /\ ends[k] \in Nat
              /\ sent[k] \in Seq(Bytes)
          BY <1>0, <1>1, <1>4, <3>1, SentTypes
        <5>2. Here \in Nat /\ Len(Stream) \in Nat /\ Here <= Start(k) /\ Here + ends[k] <= Len(Stream)
          BY <1>4, <3>2
        <5>3. PICK st \in Int : st = Start(k)
          BY <5>1
        <5>4. st + 1 \in Nat \ {0} /\ st + 1 + Size(sent[k]) - 1 <= Len(Stream)
          <6>1. Here <= st /\ st = Here + ends[k] - (Len(sent[k]) + 4)
            BY <5>1, <5>2, <5>3
          <6>2. PICK e \in Nat, m \in Nat, h \in Nat, l \in Nat :
                   e = ends[k] /\ m = Len(sent[k]) /\ h = Here /\ l = Len(Stream)
            BY <5>1, <5>2
          <6>3. /\ h <= st /\ st = h + e - (m + 4) /\ h + e <= l
            BY <5>2, <6>1, <6>2
          <6>4. st \in Int /\ h \in Nat /\ e \in Nat /\ m \in Nat /\ l \in Nat
            BY <5>3, <6>2
          <6>5. st \in Nat
            BY <6>3, <6>4
          <6>6. st + (m + 4) = h + e
            BY <6>3, <6>4
          <6>7. st + 1 \in Nat \ {0} /\ st + 1 + (m + 4) - 1 <= l
            BY <6>3, <6>4, <6>5, <6>6
          <6>8. QED
            BY <5>1, <6>2, <6>7
        <5>5. QED
          BY <5>1, <5>3, <5>4
      <4>2. QED
        BY <1>9, <3>2, <4>1, FrameStays
    <3>4. ends[k] \in Nat
      BY <1>4, <3>1
    <3>5. Here + ends[k] <= Len(Stream')
      <4>1. /\ Here + ends[k] <= Len(Stream) /\ Len(Stream') = Len(Stream) + z
            /\ z \in Nat /\ Len(Stream) \in Nat /\ Here \in Nat /\ ends[k] \in Nat
        BY <1>3, <1>4, <1>9, <3>2, <3>4
      <4>2. QED
        BY <4>1
    <3>6. QED
      BY <1>6, <1>7, <1>10, <3>1, <3>2, <3>3, <3>5
  <2>3. QED
    BY <2>1, <2>2
<1>14. Len(Stream') = Here + Behind(N + 1)'
  <2>1. N + 1 # 0
    BY <1>4
  <2>2. Behind(N + 1)' = ends'[N + 1]
    BY <2>1 DEF Behind
  <2>3. QED
    BY <1>9, <1>12, <2>2
<1>15. ASSUME NEW i \in Here + 1 .. Len(Stream')
       PROVE  \E k \in 1 .. N + 1 : Start(k)' < i /\ i <= Here + ends'[k]
  <2>1. CASE i <= Len(Stream)
    <3>1. i \in Here + 1 .. Len(Stream)
      BY <1>4, <2>1
    <3>2. PICK k \in 1 .. N : Start(k) < i /\ i <= Here + ends[k]
      BY <1>0, <1>1, <3>1 DEF Layout
    <3>3. k \in 1 .. N + 1
      BY <1>4
    <3>4. QED
      BY <1>7, <1>10, <3>2, <3>3
  <2>2. CASE i > Len(Stream)
    <3>1. N + 1 \in 1 .. N + 1 /\ Len(Stream) < i /\ i <= Len(Stream) + z
      BY <1>3, <1>4, <1>9, <2>2
    <3>2. QED
      BY <1>12, <3>1
  <2>3. QED
    BY <1>3, <1>4, <1>9, <2>1, <2>2
<1>16. ASSUME NEW g \in 0 .. N PROVE Start(g + 1)' = Here + Behind(g)'
  <2>1. CASE g = N
    BY <1>4, <1>11, <1>12, <2>1
  <2>2. CASE g # N
    <3>1. g \in 0 .. N - 1 /\ g + 1 \in 1 .. N
      BY <1>4, <2>2
    <3>2. Start(g + 1) = Here + Behind(g)
      BY <1>0, <1>1, <3>1 DEF Layout
    <3>3. QED
      BY <1>10, <1>11, <3>1, <3>2
  <2>3. QED
    BY <2>1, <2>2
<1>17. Layout'
  <2>1. 0 .. Len(sent') - 1 = 0 .. N /\ fed' = fed
    BY <1>1, <1>4, <1>6
  <2>2. QED
    BY <1>4, <1>6, <1>7, <1>13, <1>14, <1>15, <1>16, <2>1 DEF Layout
<1>18. Boundaries'
  BY <1>1, <1>4 DEF Boundaries
<1>19. ASSUME InStep PROVE InStep'
  <2>1. PICK late \in 0 .. Len(got), g \in 0 .. N :
           /\ Len(got) = late + g
           /\ \A k \in 1 .. Len(got) : at[k] <= Here <=> k <= late
           /\ \A j \in 1 .. g : got[late + j] = sent[j]
           /\ IF g = 0 THEN Decided <= Here ELSE Decided = Here + ends[g]
    BY <1>0, <1>19 DEF InStep
  <2>2. g \in 0 .. N + 1 /\ (g # 0 => g \in 1 .. N) /\ \A j \in 1 .. g : j \in 1 .. N
    BY <1>4
  <2>3. /\ \A j \in 1 .. g : got[late + j] = sent'[j]
        /\ IF g = 0 THEN Decided <= Here ELSE Decided = Here + ends'[g]
    BY <1>6, <1>7, <2>1, <2>2
  <2>4. Last(conns).clean => Here <= Decided
    BY <1>19 DEF InStep
  <2>5. \E l \in 0 .. Len(got), h \in 0 .. Len(sent') :
             /\ Len(got) = l + h
             /\ \A k \in 1 .. Len(got) : at[k] <= Here <=> k <= l
             /\ \A j \in 1 .. h : got[l + j] = sent'[j]
             /\ IF h = 0 THEN Decided <= Here ELSE Decided = Here + ends'[h]
    BY <1>6, <2>1, <2>2, <2>3
  <2>6. QED
    BY <1>1, <1>2, <1>4, <2>4, <2>5 DEF InStep
<1>20. Caught'
  BY <1>1, <1>19 DEF Caught
<1>21. QED
  BY <1>17, <1>18, <1>20 DEF RInv

\* Reconnect begins a connection without frames at the end of what was received.
LEMMA ReconnectKeepsR ==
    ASSUME IInv, RInv, Reconnect
    PROVE  RInv'
<1> DEFINE r == [fed |-> Len(fed), clean |-> Undecided = 0]
           M == Len(conns)
<1>1. /\ TypeOK /\ ParserOK /\ Window /\ Layout /\ Boundaries
      /\ wire' = <<>> /\ sent' = <<>> /\ ends' = <<>> /\ conns' = Append(conns, r)
      /\ UNCHANGED <<got, fed, at>>
  BY DEF IInv, RInv, Reconnect
<1>2. Decided' = Decided
  BY ReconnectKeeps
<1>3. /\ M \in Nat \ {0} /\ Len(fed) \in Nat /\ Here \in 0 .. Len(fed) /\ fed \in Seq(Bytes)
      /\ Decided \in 0 .. Len(fed) /\ Len(got) \in Nat /\ Len(at) = Len(got)
  BY <1>1, HereNat, DecidedInFed DEF Layout, TypeOK, IInv, Found
<1>4. Len(conns') = M + 1 /\ conns'[M + 1] = r /\ \A c \in 1 .. M : conns'[c] = conns[c]
  <2> DEFINE R == [fed : Nat, clean : BOOLEAN]
  <2>1. conns \in Seq(R) /\ r \in R
    BY <1>1, <1>3 DEF TypeOK
  <2> HIDE DEF R, r
  <2>2. QED
    BY <1>1, <2>1
<1>5. r.fed = Len(fed) /\ r.clean = (Undecided = 0)
  OBVIOUS
<1> HIDE DEF r, M
<1>6. Last(conns') = r /\ Here' = Len(fed)
  BY <1>4, <1>5 DEF Last, Here
<1>7. Stream' = fed
  BY <1>1, <1>3, ConcatEmptySeq DEF Stream
<1>8. Len(sent') = 0 /\ Len(ends') = 0 /\ Behind(0)' = 0
  BY <1>1 DEF Behind
<1>9. Layout'
  <2>1. /\ Len(fed) \in 0 .. Len(fed) /\ Len(fed) = Len(fed) + 0
        /\ 1 .. 0 = {} /\ 0 .. 0 - 1 = {} /\ Len(fed) + 1 .. Len(fed) = {}
    BY <1>3
  <2>2. QED
    BY <1>1, <1>6, <1>7, <1>8, <2>1 DEF Layout
<1>10. Boundaries'
  <2>1. ASSUME NEW c \in 1 .. M + 1
        PROVE  /\ conns'[c].fed \in 0 .. Len(fed)
               /\ \A e \in conns'[c].fed + 1 .. Len(fed) :
                     fed[e] = TAIL => \E b \in conns'[c].fed + 1 .. e - 2 : HeaderAt(fed, b)
    <3>1. CASE c = M + 1
      BY <1>3, <1>4, <1>5, <3>1
    <3>2. CASE c # M + 1
      <4>1. c \in 1 .. M /\ conns'[c] = conns[c]
        BY <1>3, <1>4, <3>2
      <4>2. conns[c].fed \in 0 .. Here
        BY <1>1, <4>1 DEF Boundaries, M
      <4>3. conns[c].fed \in 0 .. Len(fed)
        BY <1>3, <4>2
      <4>4. QED
        BY <1>1, <4>1, <4>3 DEF Boundaries, M
    <3>3. QED
      BY <3>1, <3>2
  <2>2. QED
    BY <1>1, <1>4, <1>6, <2>1 DEF Boundaries
<1>11. InStep'
  <2>1. ASSUME NEW k \in 1 .. Len(got) PROVE at[k] <= Len(fed) <=> k <= Len(got)
    <3>1. at[k] + Size(got[k]) - 1 <= Decided /\ at[k] \in Nat /\ Size(got[k]) \in Nat
          /\ Size(got[k]) > 0
      BY <1>1, <1>3, MessageTypes DEF IInv, Found
    <3>2. QED
      BY <1>3, <3>1
  <2>2. Undecided = 0 => Len(fed) <= Decided
    BY <1>3 DEF Decided
  <2>3. Last(conns').clean => Here' <= Decided'
    BY <1>2, <1>5, <1>6, <2>2
  <2>4. /\ Len(got) \in 0 .. Len(got) /\ 0 \in 0 .. Len(sent') /\ Len(got) = Len(got) + 0
        /\ Decided <= Len(fed) /\ 1 .. 0 = {}
    BY <1>3, <1>8
  <2>5. \E l \in 0 .. Len(got), h \in 0 .. Len(sent') :
             /\ Len(got) = l + h
             /\ \A k \in 1 .. Len(got) : at[k] <= Len(fed) <=> k <= l
             /\ \A j \in 1 .. h : got[l + j] = sent'[j]
             /\ IF h = 0 THEN Decided <= Len(fed) ELSE Decided = Len(fed) + ends'[h]
    BY <2>1, <2>4
  <2>6. QED
    BY <1>1, <1>2, <1>6, <2>3, <2>5 DEF InStep
<1>12. QED
  BY <1>9, <1>10, <1>11 DEF RInv, Caught


\* The first connection has no frames yet.
LEMMA InitRInv ==
    ASSUME Init
    PROVE  RInv
<1>1. /\ wire = <<>> /\ sent = <<>> /\ got = <<>> /\ fed = <<>> /\ ends = <<>>
      /\ conns = <<[fed |-> 0, clean |-> TRUE]>>
  BY DEF Init
<1>2. TypeOK /\ Decided = 0
  BY InitIInv DEF IInv
<1>3. Len(conns) = 1 /\ conns[1] = [fed |-> 0, clean |-> TRUE]
  BY <1>1
<1>4. conns[1].fed = 0 /\ Last(conns) = conns[1] /\ Here = 0
  BY <1>3 DEF Last, Here
<1>5. Len(fed) = 0 /\ Len(sent) = 0 /\ Len(ends) = 0 /\ Len(got) = 0 /\ Len(wire) = 0
  BY <1>1
<1>6. Len(Stream) = 0 /\ Behind(0) = 0
  BY <1>2, <1>5, StreamExtends DEF Behind
<1>7. 1 .. 0 = {} /\ 0 .. 0 - 1 = {} /\ 0 + 1 .. 0 = {} /\ 0 \in 0 .. 0 /\ 0 = 0 + 0
  OBVIOUS
<1>8. Layout
  BY <1>4, <1>5, <1>6, <1>7 DEF Layout
<1>9. Boundaries
  BY <1>3, <1>4, <1>5, <1>7 DEF Boundaries
<1>10. InStep
  <2>1. \E l \in 0 .. 0, h \in 0 .. 0 :
           /\ 0 = l + h
           /\ \A k \in 1 .. 0 : at[k] <= Here <=> k <= l
           /\ \A j \in 1 .. h : got[l + j] = sent[j]
           /\ IF h = 0 THEN Decided <= Here ELSE Decided = Here + ends[h]
    BY <1>2, <1>4, <1>7
  <2>2. QED
    BY <1>2, <1>4, <1>5, <2>1 DEF InStep
<1>11. QED
  BY <1>8, <1>9, <1>10 DEF RInv, Caught

\* Every step keeps in step with the connection.
LEMMA NextRInv ==
    ASSUME IInv, RInv, [Next]_vars
    PROVE  RInv'
<1>1. CASE \E data \in Payloads : Send(data)
  BY <1>1, SendKeepsR
<1>2. CASE \E n \in 1 .. Len(wire) : AfterRecv(n)
  BY <1>2, AfterRecvKeepsR
<1>3. CASE recvdata
  BY <1>3, recvdataTurn, TurnKeepsR
<1>4. CASE Reconnect
  BY <1>4, ReconnectKeepsR
<1>5. CASE UNCHANGED vars
  <2>1. /\ UNCHANGED <<wire, sent, fed, ends, conns>> /\ UNCHANGED <<got, at>>
        /\ UNCHANGED <<parser, input, got, fed, at>>
    BY <1>5 DEF vars
  <2>2. TypeOK
    BY DEF IInv
  <2>3. Decided' = Decided
    BY <2>1, <2>2, ParserAlone DEF TypeOK
  <2>4. Here' = Here /\ Layout' /\ Boundaries'
    BY <2>1, SameStream DEF RInv
  <2>5. Caught'
    BY <2>1, <2>3, <2>4 DEF RInv, Caught, InStep
  <2>6. QED
    BY <2>4, <2>5 DEF RInv
<1>6. QED
  BY <1>1, <1>2, <1>3, <1>4, <1>5 DEF Next

\* The frames decided on since a connection began are the first that were sent
\* on it, if it found the parser empty or the payloads are plain (recvdata on a
\* parser that Start leaves as it is).
THEOREM SpecRInv == Spec => [](IInv /\ RInv)
<1>1. Init => IInv /\ RInv
  BY InitIInv, InitRInv
<1>2. IInv /\ RInv /\ [Next]_vars => (IInv /\ RInv)'
  BY NextIInv, NextRInv
<1>3. QED
  BY <1>1, <1>2, PTL DEF Spec

\* A datalen that is too large for an int is not one that was sent on the connection
\* of the moment, if what has been decided on reaches it.
LEMMA OverrunBehind ==
    ASSUME TypeOK, ParserOK, Window, Layout, InStep, parsetype = "overrun"
    PROVE  Decided < Here
<1>1. /\ Len(fed) \in Nat /\ Here \in Nat /\ Decided \in Nat /\ Len(read) \in Nat
      /\ Len(input) \in Nat /\ headpos \in Nat \ {0} /\ headpos + 2 <= Len(read)
      /\ Decided = Len(fed) - (Len(input) + (Len(read) - headpos + 1))
  <2>1. Here \in Nat /\ Decided \in Nat /\ headpos + 2 <= Len(read)
    BY HereNat DEF ParserOK, Window, HEADLEN
  <2>2. Len(fed) \in Nat /\ Len(read) \in Nat /\ Len(input) \in Nat /\ headpos \in Nat \ {0}
    BY DEF TypeOK
  <2>3. Decided = Len(fed) - (Len(input) + (Len(read) - headpos + 1))
    BY DEF Decided, Undecided
  <2>4. QED
    BY <2>1, <2>2, <2>3
<1>2. Number[fed[Decided + 3]] >= INT_MAX
  <2>1. headpos + 2 \in headpos .. Len(read) /\ Decided + 1 + (headpos + 2) - headpos = Decided + 3
    BY <1>1
  <2>2. read[headpos + 2] = fed[Decided + 3]
    BY <2>1 DEF Window
  <2>3. QED
    BY <2>2 DEF ParserOK, HEADLEN
<1>3. Decided + 3 <= Len(fed)
  BY <1>1
<1>4. SUFFICES ASSUME ~(Decided < Here) PROVE FALSE
  OBVIOUS
<1>5. PICK g \in 0 .. Len(sent) : IF g = 0 THEN Decided <= Here ELSE Decided = Here + ends[g]
  BY DEF InStep
<1>6. Decided = Here + Behind(g)
  BY <1>1, <1>4, <1>5 DEF Behind
<1>7. Len(fed) <= Len(Stream) /\ \A i \in 1 .. Len(fed) : Stream[i] = fed[i]
  BY StreamExtends DEF Extends
<1>8. Here + Behind(g) < Len(Stream)
  <2>1. Len(Stream) \in Nat
    BY StreamExtends DEF TypeOK
  <2>2. QED
    BY <1>1, <1>3, <1>6, <1>7, <2>1
<1>9. g + 1 \in 1 .. Len(sent) /\ Start(g + 1) = Decided
  BY <1>6, <1>8, NextStart
<1>10. Number[Stream[(Decided + 1) + 2]] = Len(sent[g + 1])
  BY <1>9, SentFrame
<1>11. Number[fed[Decided + 3]] = Len(sent[g + 1])
  <2>1. (Decided + 1) + 2 = Decided + 3 /\ Decided + 3 \in 1 .. Len(fed)
    BY <1>1, <1>3
  <2>2. QED
    BY <1>7, <1>10, <2>1
<1>12. Len(sent[g + 1]) < INT_MAX /\ Len(sent[g + 1]) \in Nat
  BY <1>9, SentTypes, ByteTypes
<1>13. QED
  BY <1>2, <1>11, <1>12 DEF INT_MAX

\* What is copied fits: the bytes kept of a read fit into thread_readdata, a
\* header in use is in it, and the payload is never longer than its header says,
\* for any datalen that any byte may read as and however long the messages are;
\* and the cast of datalen + 1 to an int makes the memcpy overrun only on a
\* connection that was given a parser with the rest of another in it.
THEOREM BuffersSafe == Spec => []BuffersHold
<1>1. ASSUME IInv, RInv PROVE BuffersHold
  <2>1. TypeOK /\ ParserOK /\ Window /\ Layout /\ Caught
    BY <1>1 DEF IInv, RInv
  <2>2. ASSUME parsetype = "overrun", Last(conns).clean PROVE FALSE
    <3>1. InStep
      BY <2>1, <2>2 DEF Caught
    <3>2. Decided < Here
      BY <2>1, <2>2, <3>1, OverrunBehind
    <3>3. Here <= Decided
      BY <2>2, <3>1 DEF InStep
    <3>4. Here \in Nat /\ Decided \in Nat
      BY <2>1, HereNat DEF Window
    <3>5. QED
      BY <3>2, <3>3, <3>4
  <2>3. QED
    BY <2>1, <2>2 DEF ParserOK, BuffersHold
<1>2. QED
  BY <1>1, SpecRInv, PTL

\* When recvdata returns and what has been decided on reaches the connection of
\* the moment, every frame that has arrived in full has been handed out.
LEMMA AllArrived ==
    ASSUME TypeOK, ParserOK, Window, Layout, Idle,
           NEW g \in 0 .. Len(sent), Decided = Here + Behind(g),
           NEW k \in Arrived
    PROVE  k <= g
<1>1. k \in 1 .. Len(sent) /\ ends[k] <= Len(fed) - Here
  <2>1. k \in DOMAIN sent /\ ends[k] <= Len(fed) - Here
    BY DEF Arrived, FedHere
  <2>2. sent \in Seq(Payloads)
    BY DEF TypeOK
  <2>3. QED
    BY <2>1, <2>2
<1>2. /\ Len(fed) \in Nat /\ Here \in Nat /\ Len(sent) \in Nat /\ Decided \in Nat
      /\ fed \in Seq(Bytes) /\ Len(fed) <= Len(Stream)
      /\ \A i \in 1 .. Len(fed) : Stream[i] = fed[i]
  <2>1. fed \in Seq(Bytes) /\ Len(fed) \in Nat /\ Len(sent) \in Nat
    BY DEF TypeOK
  <2>2. Here \in Nat /\ Decided \in Nat
    BY HereNat, DecidedInFed
  <2>3. Len(fed) <= Len(Stream) /\ \A i \in 1 .. Len(fed) : Stream[i] = fed[i]
    BY <2>1, StreamExtends DEF Extends
  <2>4. QED
    BY <2>1, <2>2, <2>3
<1>3. /\ ends[k] \in Nat /\ Start(k) = Here + ends[k] - (Len(sent[k]) + 4)
      /\ Len(sent[k]) \in Nat /\ Here + ends[k] <= Len(fed)
  BY <1>1, <1>2, SentTypes DEF Layout
<1>4. SUFFICES ASSUME g < k PROVE FALSE
  BY <1>1, <1>2
<1> DEFINE m == g + 1
<1>5. m \in 1 .. Len(sent) /\ Start(m) = Here + Behind(g)
  <2>1. g \in 0 .. Len(sent) - 1 /\ m \in 1 .. Len(sent)
    BY <1>1, <1>2, <1>4
  <2>2. QED
    BY <2>1 DEF Layout
<1> HIDE DEF m
<1>6. Here + ends[m] <= Len(fed)
  <2>1. CASE m = k
    BY <1>3, <2>1
  <2>2. CASE m # k
    <3>1. m \in 1 .. k - 1
      BY <1>1, <1>2, <1>4, <2>2 DEF m
    <3>2. Here + ends[m] <= Start(k) /\ ends[m] \in Nat
      BY <1>1, <1>5, <3>1, SentTypes DEF Layout
    <3>3. PICK a \in Nat, st \in Int : a = Here + ends[m] /\ st = Start(k)
      <4>1. Here + ends[m] \in Nat
        BY <1>2, <3>2
      <4>2. Start(k) \in Int
        BY <1>2, <1>3
      <4>3. QED
        BY <4>1, <4>2
    <3>4. st <= Len(fed) /\ a <= st
      <4>1. PICK e \in Nat, l \in Nat : e = Here + ends[k] /\ l = Len(sent[k])
        BY <1>2, <1>3
      <4>2. st = e - (l + 4) /\ e <= Len(fed)
        <5>1. Start(k) = Here + ends[k] - (Len(sent[k]) + 4) /\ Here + ends[k] <= Len(fed)
          BY <1>3
        <5>2. e = Here + ends[k] /\ l = Len(sent[k]) /\ st = Start(k)
          BY <3>3, <4>1
        <5>3. st = e - (l + 4)
          <6>1. st \in Int /\ e \in Nat /\ l \in Nat
            BY <1>3, <5>2
          <6>2. e = Here + ends[k] /\ Here \in Nat /\ ends[k] \in Nat
            BY <1>2, <1>3, <5>2
          <6>3. QED
            BY <5>1, <5>2, <6>1, <6>2
        <5>4. e <= Len(fed)
          BY <5>1, <5>2
        <5>5. QED
          BY <5>3, <5>4
      <4>3. QED
        BY <1>2, <3>2, <3>3, <4>1, <4>2
    <3>5. QED
      BY <1>2, <3>3, <3>4
  <2>3. QED
    BY <2>1, <2>2
<1> DEFINE n == Len(sent[m])
           u == Decided + 1
<1>7. /\ n \in Nat /\ u + n + 3 = Here + ends[m]
      /\ Number[Stream[u + 2]] = n
  <2>1. u = Start(m) + 1
    BY <1>5
  <2>2. QED
    BY <1>5, <2>1, SentFrame
<1>8. u + n + 3 <= Len(fed) /\ u \in Nat
  BY <1>2, <1>6, <1>7
<1>9. Partial(fed, u)
  BY RestIsPartial
<1> HIDE DEF n, u
<1>10. Number[fed[u + 2]] = n
  <2>1. u + 2 \in 1 .. Len(fed)
    BY <1>2, <1>7, <1>8
  <2>2. QED
    BY <1>2, <1>7, <2>1
<1>11. Len(fed) <= u + 2 \/ n >= Len(fed) - u - 2
  BY <1>9, <1>10 DEF Partial, HEADLEN
<1>12. QED
  BY <1>2, <1>7, <1>8, <1>11

\* A header left behind by an earlier connection is decided on when as many bytes
\* have come as it asks for.
LEMMA NoLongerWaits ==
    ASSUME TypeOK, ParserOK, Window, Idle, FedHere >= Wanted
    PROVE  Here <= Decided
<1>1. /\ Len(fed) \in Nat /\ Here \in Nat /\ Decided \in Nat /\ Len(input) = 0
      /\ Len(fed) - Here >= Wanted
  BY HereNat DEF TypeOK, Window, Idle, FedHere
<1>2. CASE parsetype = "nothing"
  <2>1. /\ Decided = Len(fed) - (Len(input) + Len(read)) /\ Len(read) < 4 /\ Len(read) \in Nat
        /\ Wanted = 3
    BY <1>2 DEF Idle, TypeOK, Decided, Undecided, Wanted, HEADLEN
  <2>2. QED
    BY <1>1, <2>1
<1>3. CASE parsetype = "head"
  <2> DEFINE n == Number[read[headpos + 2]]
  <2>1. /\ n \in Nat /\ BodyLen = n + 1 /\ Missing = n + 1 - Len(body) /\ Missing > 0
        /\ Len(body) \in Nat
        /\ Enough => Len(body) = n + 1
        /\ ~Enough => Decided + 3 + Len(body) + Len(input) = Len(fed)
    BY <1>3, HeadWindow DEF Idle
  <2>2. Wanted = 2 + (n + 1)
    BY <1>3, <2>1 DEF Wanted, HEADLEN
  <2> HIDE DEF n
  <2>3. ~Enough
    BY <2>1
  <2>4. Len(body) <= n /\ Decided + 3 + Len(body) + 0 = Len(fed)
    BY <1>1, <2>1, <2>3
  <2>5. QED
    BY <1>1, <2>1, <2>2, <2>4
<1>4. QED
  BY <1>2, <1>3 DEF Idle


\* With payloads that hold no mark of a message, none is put together from bytes
\* of two connections, and those of the connection of the moment are the first ones
\* sent on it, without a gap.  When recvdata returns, all that have arrived are
\* there, at the latest when as much has come as the header in use asks for, of
\* which the datalen may be any that an int holds.
THEOREM Resync == PlainPayloads => (Spec => []Resynchronises)
<1>1. ASSUME IInv, RInv, PlainPayloads PROVE Resynchronises
  <2>1. /\ TypeOK /\ ParserOK /\ Window /\ Found
        /\ Layout /\ Boundaries /\ InStep
    BY <1>1 DEF IInv, RInv, Caught
  <2>2. /\ DOMAIN got = 1 .. Len(got) /\ DOMAIN conns = 1 .. Len(conns)
        /\ DOMAIN sent = 1 .. Len(sent)
        /\ Len(got) \in Nat /\ Len(sent) \in Nat /\ Len(fed) \in Nat
        /\ got \in Seq(Seq(Bytes)) /\ sent \in Seq(Payloads) /\ Len(at) = Len(got)
    BY <2>1 DEF TypeOK, Found
  <2>3. Here \in Nat /\ Decided \in 0 .. Len(fed)
    BY <2>1, HereNat, DecidedInFed
  <2>4. ASSUME NEW k \in DOMAIN got, NEW c \in DOMAIN conns
        PROVE  at[k] > conns[c].fed \/ at[k] + Size(got[k]) - 1 <= conns[c].fed
    <3>1. /\ k \in 1 .. Len(got) /\ c \in 1 .. Len(conns)
          /\ at[k] \in Nat \ {0} /\ got[k] \in Seq(Bytes) /\ Size(got[k]) \in Nat
          /\ at[k] + Size(got[k]) - 1 <= Decided /\ FrameAt(fed, at[k], got[k])
      BY <2>1, <2>2, MessageTypes DEF Found
    <3>2. at[k] + Size(got[k]) - 1 <= Len(fed)
      BY <2>2, <2>3, <3>1
    <3>3. QED
      BY <1>1, <2>1, <3>1, <3>2, NoneSpans
  <2>5. PICK late \in 0 .. Len(got), g \in 0 .. Len(sent) :
           /\ Len(got) = late + g
           /\ \A k \in 1 .. Len(got) : at[k] <= Here <=> k <= late
           /\ \A j \in 1 .. g : got[late + j] = sent[j]
           /\ IF g = 0 THEN Decided <= Here ELSE Decided = Here + ends[g]
    BY <2>1 DEF InStep
  <2>6. IsPrefix(From(got, late + 1), sent)
    <3> DEFINE x == From(got, late + 1)
               y == SubSeq(sent, 1, g)
    <3>1. x \in Seq(Seq(Bytes)) /\ Len(x) = g /\ \A i \in 1 .. g : x[i] = got[late + i]
      <4>1. late + 1 \in Nat /\ 1 <= late + 1 /\ late + 1 <= Len(got) + 1
        BY <2>2
      <4>2. /\ x \in Seq(Seq(Bytes)) /\ Len(x) = Len(got) - (late + 1) + 1
            /\ \A i \in 1 .. Len(got) - (late + 1) + 1 : x[i] = got[(late + 1) + i - 1]
        BY <2>2, <4>1, Rest
      <4>3. /\ Len(got) - (late + 1) + 1 = g
            /\ \A i \in 1 .. g : (late + 1) + i - 1 = late + i
        BY <2>2, <2>5
      <4>4. QED
        BY <4>2, <4>3
    <3>2. y \in Seq(Payloads) /\ Len(y) = g /\ \A i \in 1 .. g : y[i] = sent[i]
      <4>1. 1 \in Nat /\ g \in Nat /\ 1 <= 1 /\ 1 <= g + 1 /\ g <= Len(sent)
        BY <2>2
      <4>2. /\ y \in Seq(Payloads) /\ Len(y) = g - 1 + 1
            /\ \A i \in 1 .. g - 1 + 1 : y[i] = sent[1 + i - 1]
        BY <2>2, <4>1, Part
      <4>3. g - 1 + 1 = g /\ \A i \in 1 .. g : 1 + i - 1 = i
        BY <2>2
      <4>4. QED
        BY <4>2, <4>3
    <3> HIDE DEF x, y
    <3>3. x = y
      <4>1. y \in Seq(Seq(Bytes))
        <5>1. \A i \in 1 .. g : y[i] \in Seq(Bytes)
          BY <2>5, <3>1, <3>2
        <5>2. QED
          BY <3>2, ByteTypes
      <4>2. x \in Seq(Seq(Bytes)) /\ Len(x) = Len(y)
        BY <3>1, <3>2
      <4>3. \A i \in 1 .. Len(x) : x[i] = y[i]
        BY <2>5, <3>1, <3>2
      <4>4. QED
        BY <4>1, <4>2, <4>3, SeqEqual
    <3>4. Len(x) <= Len(sent) /\ x = SubSeq(sent, 1, Len(x))
      BY <2>2, <3>1, <3>3 DEF y
    <3>5. QED
      BY <3>4 DEF IsPrefix, x
  <2>7. ASSUME Idle,
               Last(conns).clean \/ FedHere >= Wanted,
               NEW k \in Arrived
        PROVE  late + k <= Len(got)
    <3>1. k \in 1 .. Len(sent)
      BY <2>2 DEF Arrived
    <3>2. Here <= Decided
      BY <2>1, <2>7, NoLongerWaits DEF InStep
    <3>3. Decided = Here + Behind(g)
      BY <2>3, <2>5, <3>2 DEF Behind
    <3>4. k <= g
      BY <2>1, <2>7, <3>3, AllArrived
    <3>5. QED
      BY <2>2, <2>5, <3>1, <3>4
  <2>8. QED
    BY <2>2, <2>4, <2>5, <2>6, <2>7 DEF Resynchronises
<1> SUFFICES ASSUME PlainPayloads PROVE Spec => []Resynchronises
  OBVIOUS
<1>2. Spec => [](IInv /\ RInv)
  BY SpecRInv
<1>3. IInv /\ RInv => Resynchronises
  BY <1>1
<1>4. QED
  BY <1>2, <1>3, PTL

===============================================================================
