---------------------------- MODULE MCPacketSync ----------------------------
(* Messages for TLC: an empty one, and one in which two headers stand, of      *)
(* which one has a datalen that is too large for an int.  HEAD read as a       *)
(* datalen, in the other or across the end of a connection, asks for more than *)
(* an empty frame.                                                             *)
EXTENDS PacketSync

MCPayloads == {<<>>, <<HEAD, Unmatched, HEAD, Unmatched, TAIL>>}

MCNumber ==
    [b \in Bytes |-> IF b = HEAD THEN 4 ELSE IF b = TAIL THEN INT_MAX
                     ELSE IF b \in {Length(data) : data \in Payloads} THEN b[2] ELSE 0]

\* The hypothesis under which Resynchronises is proved for every set of messages.
ASSUME MCPlainPayloads == PlainPayloads

=============================================================================
