------------------------------ MODULE PacketSync ------------------------------
(***************************************************************************)
(* The framing of the TCP streams: PacketData2 makes a frame of a message, *)
(* recvdata finds the frames in a stream that arrives cut anywhere.        *)
(*                                                                         *)
(* A byte is a tuple, so that payload bytes may equal HEAD, TAIL or parts  *)
(* of a header.  The 34 bytes of the header are two here: one for the      *)
(* first 26, with header, tail and check, the MD5 of the payload taken to  *)
(* be injective; and one for the last 8, with datalen.  Between the two a  *)
(* lost connection can leave a header whose datalen is read from whatever  *)
(* the next one sends; Number says what length any byte reads as there.    *)
(*                                                                         *)
(* The parser belongs to a context, and outlives the connection: the       *)
(* server recycles contexts and the client reconnects on its own, and      *)
(* Start resets nothing.  What a lost connection leaves in the parser is   *)
(* read together with the first bytes of the next.                         *)
(*                                                                         *)
(* recvdata is a loop; an action is one turn of it, up to the next change  *)
(* of parsetype.  The connection is not touched while it runs.             *)
(***************************************************************************)
EXTENDS Integers, FiniteSetsExt, SequencesExt

CONSTANTS
    Payloads,   \* the messages sent
    MaxFrames,  \* bounds the frames of a connection
    MaxConn,    \* bounds the connections of a context
    ReadLen,    \* bytes of thread_readdata: BUFFER_SIZE in the code
    Number      \* the datalen that a byte reads as in its place

HEAD == <<"head">>
TAIL == <<"tail">>
Mark(data) == <<"mark", data>>
Length(data) == <<"length", Len(data)>>
HEADLEN == 2
INT_MAX == 2147483647

PacketData2(data) ==
    <<HEAD, Mark(data), Length(data)>> \o data \o <<TAIL>>
Size(data) == HEADLEN + 2 + Len(data)

\* Bytes of a payload may look like header and tail, with a check that fits nothing.
Valid(b) == b[1] = "mark"
Unmatched == <<"mark">>

PayloadBytes == UNION {Range(data) : data \in Payloads}
Bytes == {HEAD, TAIL} \cup PayloadBytes
         \cup {Mark(data) : data \in Payloads} \cup {Length(data) : data \in Payloads}

ASSUME PacketSyncAssumption ==
    /\ Payloads \subseteq Seq(PayloadBytes)
    /\ Number \in [Bytes -> Nat]
    /\ \A data \in Payloads : Number[Length(data)] = Len(data) /\ Len(data) < INT_MAX
    /\ ReadLen \in Nat /\ ReadLen >= HEADLEN + 2

VARIABLES
    parsetype,  \* "nothing" or "head": looking for a header, or for its payload;
                \* "overrun" after a memcpy past the end of a buffer
    read,       \* the first truepacketlen bytes of thread_readdata
    cap,        \* the length of thread_readdata
    headpos,    \* where the head is in read, from 1
    body,       \* the first getdatalen bytes of thread_packetdata
    input,      \* the bytes recvdata was called with and has not taken
    wire,       \* bytes sent on the connection and not yet received
    sent,       \* the messages sent on the connection
    got,        \* the messages handed to packet_cb_, of all connections
    \* History, for the properties only.
    fed,        \* the bytes received, of all connections
    at,         \* where the frames of got begin in fed
    ends,       \* where the frames of sent end in the stream of the connection
    conns       \* for each connection, how much of fed came before it, and
                \* whether it found the parser empty

parser == <<parsetype, read, cap, headpos, body>>
vars == <<parser, input, wire, sent, got, fed, at, ends, conns>>

-------------------------------------------------------------------------------
\* A string of bytes from position i on.
From(s, i) == SubSeq(s, i, Len(s))

\* theNexPacket.datalen + 1, the payload and the tail, and what is missing of it.
BodyLen == Number[read[headpos + 2]] + 1
Missing == BodyLen - Len(body)

\* thread_readdata alone holds the frame.
Enough == Len(read) - headpos - HEADLEN >= BodyLen

\* recvdata has returned: it goes on while there is input, or bytes in
\* thread_readdata that may be a frame, or the payload is complete.
Idle ==
    /\ input = <<>>
    /\ \/ parsetype = "nothing" /\ Len(read) < HEADLEN + 2
       \/ parsetype = "head" /\ Missing > 0

\* The bytes of fed that make up no frame yet and may still be part of one.
Undecided ==
    Len(input) + IF parsetype = "nothing" THEN Len(read)
                 ELSE IF parsetype = "overrun" \/ Enough THEN Len(read) - headpos + 1
                 ELSE 1 + HEADLEN + Len(body)
Decided == Len(fed) - Undecided

\* thread_readdata is searched for HEAD and a header after it.  Too few bytes
\* are kept from HEAD on, and after a false header the search goes on behind
\* that HEAD.  datalen + 1 is cast to int: from INT_MAX on the lesser of what is
\* there and what is wanted comes out below zero, and is copied as a size_t.
FindHead(bytes) ==
    LET heads == {i \in DOMAIN bytes : bytes[i] = HEAD}
        first == CHOOSE i \in heads : \A j \in heads : i <= j
        short == Len(bytes) - first < HEADLEN
        found == heads # {} /\ ~short /\ Valid(bytes[first + 1])
    IN  /\ read' = IF heads = {} THEN <<>>
                   ELSE IF found THEN bytes
                   ELSE From(bytes, IF short THEN first ELSE first + 1)
        /\ IF found
           THEN /\ headpos' = first
                /\ \/ /\ Number[bytes[first + 2]] < INT_MAX
                      /\ parsetype' = "head"
                      /\ body' = SubSeq(bytes, first + HEADLEN + 1,
                                        IF Enough' THEN first + HEADLEN + BodyLen'
                                        ELSE Len(bytes))
                   \/ /\ Number[bytes[first + 2]] >= INT_MAX
                      /\ parsetype' = "overrun"
                      /\ UNCHANGED body
           ELSE UNCHANGED <<parsetype, headpos, body>>

\* As much of the input as there is room for goes to thread_readdata.
Search ==
    LET room == cap - Len(read)                  \* size_t: huge below zero
        n == IF room \in 0 .. Len(input) THEN room ELSE Len(input)
    IN  /\ parsetype = "nothing"
        /\ input # <<>> \/ Len(read) >= HEADLEN + 2
        /\ FindHead(read \o SubSeq(input, 1, n))
        /\ input' = From(input, n + 1)
        /\ UNCHANGED <<cap, wire, sent, got, fed, at, ends, conns>>

\* The payload is not complete with this read.
Collect ==
    /\ parsetype = "head"
    /\ input # <<>> /\ Len(input) < Missing
    /\ body' = body \o input
    /\ input' = <<>>
    /\ UNCHANGED <<parsetype, read, cap, headpos, wire, sent, got, fed, at, ends, conns>>

\* Slips.
RescanForgets(b) ==
    /\ parsetype' = "nothing"
    /\ read' = From(read, headpos + 1)
    /\ UNCHANGED <<cap, got, at>>
RescanNoRealloc(b) ==
    /\ parsetype' = "nothing"
    /\ read' = IF Enough THEN From(read, headpos + 1)
               ELSE SubSeq(read, headpos + 1, headpos + HEADLEN) \o b
    /\ UNCHANGED <<cap, got, at>>
DropsRest(b) ==
    /\ parsetype' = "nothing"
    /\ read' = <<>>
    /\ got' = Append(got, Front(b))
    /\ at' = Append(at, Decided + 1)
    /\ UNCHANGED cap

\* A bad tail or check: what follows HEAD is looked at again, rebuilt from the
\* header and the body where it has not been kept.
Rescan(b) ==
    /\ parsetype' = "nothing"
    /\ read' = IF Enough THEN From(read, headpos + 1)
               ELSE SubSeq(read, headpos + 1, headpos + HEADLEN) \o b
    /\ cap' = IF Enough \/ cap >= HEADLEN + BodyLen THEN cap
              ELSE HEADLEN + BodyLen
    /\ UNCHANGED <<got, at>>

\* A good frame goes to packet_cb_.
Deliver(b) ==
    /\ parsetype' = "nothing"
    /\ read' = IF Enough THEN From(read, headpos + HEADLEN + BodyLen + 1)
               ELSE <<>>
    /\ got' = Append(got, Front(b))
    /\ at' = Append(at, Decided + 1)
    /\ UNCHANGED cap

\* The payload and the tail are there.
Complete ==
    LET b == body \o SubSeq(input, 1, Missing)
    IN  /\ parsetype = "head"
        /\ Missing <= Len(input)
        /\ IF Last(b) = TAIL /\ read[headpos + 1] = Mark(Front(b))
           THEN Deliver(b) ELSE Rescan(b)
        /\ body' = b
        /\ input' = From(input, Missing + 1)
        /\ UNCHANGED <<headpos, wire, sent, fed, ends, conns>>

-------------------------------------------------------------------------------
Init ==
    /\ parsetype = "nothing" /\ read = <<>> /\ cap = ReadLen
    /\ headpos = 1 /\ body = <<>>
    /\ input = <<>> /\ wire = <<>> /\ sent = <<>> /\ got = <<>>
    /\ fed = <<>> /\ at = <<>> /\ ends = <<>>
    /\ conns = <<[fed |-> 0, clean |-> TRUE]>>

\* The other side sends a message.
Send(data) ==
    /\ Len(sent) < MaxFrames
    /\ wire' = wire \o PacketData2(data)
    /\ sent' = Append(sent, data)
    /\ ends' = Append(ends, Size(data) + IF ends = <<>> THEN 0 ELSE Last(ends))
    /\ UNCHANGED <<parser, input, got, fed, at, conns>>

\* AfterRecv: a read returns the next n bytes, and recvdata is called with them.
AfterRecv(n) ==
    /\ Idle
    /\ input' = SubSeq(wire, 1, n)
    /\ fed' = fed \o SubSeq(wire, 1, n)
    /\ wire' = From(wire, n + 1)
    /\ UNCHANGED <<parser, sent, got, at, ends, conns>>

\* The connection is lost with what was on its way, and the next one is given
\* the same context.
Reconnect ==
    /\ Idle
    /\ Len(conns) < MaxConn
    /\ wire' = <<>>
    /\ sent' = <<>>
    /\ ends' = <<>>
    /\ conns' = Append(conns, [fed |-> Len(fed), clean |-> Undecided = 0])
    /\ UNCHANGED <<parser, input, got, fed, at>>

recvdata == Search \/ Collect \/ Complete

Next ==
    \/ \E data \in Payloads : Send(data)
    \/ \E n \in 1 .. Len(wire) : AfterRecv(n)
    \/ recvdata
    \/ Reconnect

Spec == Init /\ [][Next]_vars

-------------------------------------------------------------------------------
\* The frame of a message stands at position i of a string of bytes.
FrameAt(s, i, data) ==
    /\ i + Size(data) - 1 <= Len(s)
    /\ s[i] = HEAD /\ s[i + 1] = Mark(data) /\ Number[s[i + HEADLEN]] = Len(data)
    /\ \A k \in DOMAIN data : s[i + HEADLEN + k] = data[k]
    /\ s[i + Size(data) - 1] = TAIL

\* No frame can begin at i, however the string goes on.
NoFrame(s, i) ==
    \/ s[i] # HEAD
    \/ i + HEADLEN <= Len(s) /\ ~Valid(s[i + 1])
    \/ /\ i + HEADLEN <= Len(s) /\ Valid(s[i + 1])
       /\ LET n == Number[s[i + HEADLEN]]
          IN  /\ n < Len(s) - i - HEADLEN
              /\ ~FrameAt(s, i, SubSeq(s, i + HEADLEN + 1, i + HEADLEN + n))

\* What there is from i on may be the beginning of a frame, and is not all of it.
Partial(s, i) ==
    \/ Len(s) <= i + HEADLEN
    \/ s[i] = HEAD /\ Valid(s[i + 1]) /\ Number[s[i + HEADLEN]] >= Len(s) - i - HEADLEN

\* However the stream is cut into reads, and whatever an earlier connection
\* left in the parser, the messages are the frames of the stream as a whole,
\* found from its beginning on: up to some byte every byte belongs to a frame
\* that was handed out or is one that no frame can begin with, and there the
\* stream ends, or a frame has begun that is not complete (recvdata, which keeps
\* the rest of a read in two buffers and rebuilds one from the other).
CutsDoNotMatter ==
    LET end(k) == at[k] + Size(got[k])
    IN  /\ Len(at) = Len(got)
        /\ \A k \in DOMAIN got : FrameAt(fed, at[k], got[k])
        /\ \A k \in 2 .. Len(got) : end(k - 1) <= at[k]
        /\ \E u \in 1 .. Len(fed) + 1 :
              /\ \A k \in DOMAIN got : end(k) <= u
              /\ \A i \in 1 .. u - 1 :
                    \/ \E k \in DOMAIN got : at[k] <= i /\ i < end(k)
                    \/ NoFrame(fed, i)
              /\ Idle => Partial(fed, u)

-------------------------------------------------------------------------------
\* A header whose check fits a payload, and payloads without such checks.
HeaderAt(s, i) == s[i] = HEAD /\ Valid(s[i + 1]) /\ s[i + 1] # Unmatched
PlainPayloads == \A b \in PayloadBytes : Valid(b) => b = Unmatched

\* The connection of the moment: the bytes received before it and on it, and
\* the frames of sent that have arrived in full.
Here == Last(conns).fed
FedHere == Len(fed) - Here
Arrived == {k \in DOMAIN sent : ends[k] <= FedHere}

\* The bytes the header in use asks for behind HEAD, or a header alone.
Wanted == HEADLEN + IF parsetype = "head" THEN BodyLen ELSE 1

\* A connection takes the parser over as the one before has left it
\* (tcpserver.cpp:199, tcpclient.cpp:439).  No message is put together from bytes
\* of two connections.  Of those whose frames came on the connection of the
\* moment, none is missing or out of order; and all that have arrived are there
\* if the parser was empty, or else once the connection has brought as much as the
\* header in use asks for, which is up to 2^31 bytes if its datalen came from
\* another connection than its mark.
Resynchronises ==
    /\ \A k \in DOMAIN got, c \in DOMAIN conns :
          at[k] > conns[c].fed \/ at[k] + Size(got[k]) - 1 <= conns[c].fed
    /\ \E late \in 0 .. Len(got) :
          /\ \A k \in DOMAIN got : at[k] <= Here <=> k <= late
          /\ IsPrefix(From(got, late + 1), sent)
          /\ Idle /\ (Last(conns).clean \/ FedHere >= Wanted)
             => \A k \in Arrived : late + k <= Len(got)

\* The buffers are long enough for what is copied into them, and the header in
\* use is still in thread_readdata (the memcpy and memmove of recvdata, and its
\* realloc); only a connection that did not find the parser empty overruns them.
BuffersHold ==
    /\ Len(read) <= cap
    /\ parsetype = "head" =>
          /\ headpos + HEADLEN <= Len(read)
          /\ read[headpos] = HEAD /\ Valid(read[headpos + 1])
          /\ Len(body) <= BodyLen
    /\ parsetype = "overrun" => ~Last(conns).clean

===============================================================================
