--------------------------- MODULE ThreadMsgProofs ---------------------------
(***************************************************************************)
(* Proof that messages are handled once and in order.  The nodes that are  *)
(* allocated are those of the batch the loop thread walks, up to BatchEnd, *)
(* and after them those of the ring.                                       *)
(***************************************************************************)
EXTENDS ThreadMsg, TLAPS

Done == Len(handled)
Pushed == Len(from)
Walking == pc = "walks" /\ at # NULL
BatchEnd == IF tail = NULL THEN Pushed ELSE next[tail] - 1

TypeInv ==
    /\ from \in Seq(Threads)
    /\ handled \in Seq(Nat)
    /\ next \in [DOMAIN next -> Nat]
    /\ tail \in Nat /\ first \in Nat /\ at \in Nat

\* The nodes of the ring follow each other, and the last leads to the first.
RingInv ==
    tail # NULL =>
        /\ next[tail] \in Done + 1 .. Pushed
        /\ \A i \in next[tail] .. Pushed - 1 : next[i] = i + 1

\* So do those of the batch that have still to be handled; the last leads to
\* the first node of all, which may have been deleted.
BatchInv ==
    IF Walking
    THEN /\ at <= BatchEnd
         /\ \A i \in at .. BatchEnd - 1 : next[i] = i + 1
         /\ next[BatchEnd] = first
         /\ first \in 1 .. at
    ELSE BatchEnd = Done

IInv ==
    /\ TypeInv
    /\ FirstIn
    /\ RingInv
    /\ BatchInv
    /\ pc = "takes" => tail # NULL

\* A node is in the batch or in the ring.
LEMMA Lengths ==
    ASSUME IInv
    PROVE  /\ Done \in Nat /\ Pushed \in Nat /\ Done <= Pushed
           /\ BatchEnd \in Done .. Pushed
           /\ tail # NULL => tail = Pushed /\ next[tail] = BatchEnd + 1 /\ BatchEnd < Pushed
           /\ tail = NULL => BatchEnd = Pushed
           /\ Walking => at = Done + 1
<1>1. Done \in Nat /\ Pushed \in Nat
  BY DEF IInv, TypeInv, Done, Pushed
<1>2. Walking => at = Done + 1
  BY DEF IInv, FirstIn, Walking, Done
<1>3. CASE tail = NULL
  BY <1>1, <1>2, <1>3 DEF IInv, BatchInv, BatchEnd, TypeInv
<1>4. CASE tail # NULL
  <2>1. tail = Pushed /\ next[tail] \in Done + 1 .. Pushed /\ BatchEnd = next[tail] - 1
    BY <1>4 DEF IInv, FirstIn, RingInv, Pushed, BatchEnd
  <2>2. QED
    BY <1>1, <1>2, <1>4, <2>1
<1>5. QED
  BY <1>3, <1>4

\* A push preserves the invariant.
LEMMA PushStep ==
    ASSUME IInv, NEW t \in Threads, PushBackMsg(t)
    PROVE  IInv'
<1> DEFINE msg == Pushed + 1
<1>1. /\ Done \in Nat /\ Pushed \in Nat /\ Done <= Pushed
      /\ BatchEnd \in Done .. Pushed
      /\ tail # NULL => tail = Pushed /\ next[tail] = BatchEnd + 1 /\ BatchEnd < Pushed
      /\ tail = NULL => BatchEnd = Pushed
      /\ Walking => at = Done + 1
  BY Lengths
<1>2. /\ from' = Append(from, t) /\ tail' = msg
      /\ UNCHANGED <<pc, first, at, handled>>
  BY DEF PushBackMsg, Pushed, loop
<1>3. Pushed' = msg /\ Done' = Done /\ from' \in Seq(Threads)
  BY <1>2 DEF Pushed, Done, IInv, TypeInv
<1>4. /\ DOMAIN next' = Done + 1 .. msg
      /\ next' \in [DOMAIN next' -> Nat]
      /\ next'[msg] = BatchEnd + 1
      /\ tail # NULL => next'[Pushed] = msg
      /\ \A i \in DOMAIN next : i # tail => next'[i] = next[i]
  <2>1. DOMAIN next = Done + 1 .. Pushed
    BY DEF IInv, FirstIn, Done, Pushed
  <2>2. CASE tail = NULL
    <3>1. next' = Put(next, msg, msg)
      BY <2>2 DEF PushBackMsg, Pushed
    <3>2. QED
      BY <1>1, <2>1, <2>2, <3>1 DEF Put, IInv, TypeInv
  <2>3. CASE tail # NULL
    <3>1. next' = Put(Put(next, msg, next[tail]), tail, msg)
      BY <2>3 DEF PushBackMsg, Pushed
    <3>2. tail = Pushed /\ tail \in DOMAIN next /\ msg \notin DOMAIN next
      BY <1>1, <2>1, <2>3
    <3>3. DOMAIN next' = DOMAIN next \cup {msg}
      BY <3>1, <3>2 DEF Put
    <3>4. \A y \in DOMAIN next' :
             next'[y] = IF y = tail THEN msg ELSE IF y = msg THEN next[tail] ELSE next[y]
      BY <3>1, <3>2 DEF Put
    <3>5. next' = [y \in DOMAIN next' |-> next'[y]]
      BY <3>1 DEF Put
    <3>6. DOMAIN next' = Done + 1 .. msg
      BY <1>1, <2>1, <3>3
    <3>7. \A y \in DOMAIN next' : next'[y] \in Nat
      BY <1>1, <2>3, <3>2, <3>3, <3>4 DEF IInv, TypeInv
    <3>8. /\ next'[msg] = BatchEnd + 1
          /\ next'[Pushed] = msg
          /\ \A i \in DOMAIN next : i # tail => next'[i] = next[i]
      BY <1>1, <2>3, <3>2, <3>3, <3>4
    <3>9. QED
      BY <3>5, <3>6, <3>7, <3>8
  <2>4. QED
    BY <2>2, <2>3
<1>5. msg # NULL /\ BatchEnd' = BatchEnd
  <2>1. msg # NULL
    BY <1>1 DEF NULL
  <2>2. BatchEnd' = next'[msg] - 1
    BY <1>2, <2>1 DEF BatchEnd
  <2>3. QED
    BY <1>1, <1>4, <2>1, <2>2
<1>6. Walking' = Walking
  BY <1>2 DEF Walking
<1>7. TypeInv'
  BY <1>1, <1>2, <1>3, <1>4 DEF IInv, TypeInv
<1>8. FirstIn'
  BY <1>1, <1>2, <1>3, <1>4, <1>5 DEF IInv, FirstIn, Done, Pushed
<1>9. RingInv'
  <2>1. next'[tail'] = BatchEnd + 1 /\ BatchEnd + 1 \in Done' + 1 .. Pushed'
    BY <1>1, <1>2, <1>3, <1>4
  <2>2. ASSUME NEW i \in BatchEnd + 1 .. msg - 1
        PROVE  next'[i] = i + 1
    <3>1. tail # NULL /\ i \in DOMAIN next /\ i \in BatchEnd + 1 .. Pushed
      BY <1>1 DEF IInv, FirstIn, Done, Pushed
    <3>2. CASE i = Pushed
      BY <1>4, <3>1, <3>2
    <3>3. CASE i # Pushed
      <4>1. next[i] = i + 1
        BY <1>1, <3>1, <3>3 DEF IInv, RingInv
      <4>2. QED
        BY <1>1, <1>4, <3>1, <3>3, <4>1
    <3>4. QED
      BY <3>2, <3>3
  <2>3. QED
    BY <1>3, <2>1, <2>2 DEF RingInv
<1>10. BatchInv'
  <2>1. CASE Walking
    <3>1. ASSUME NEW i \in at .. BatchEnd
          PROVE  next'[i] = next[i]
      <4>1. i \in Done + 1 .. Pushed /\ i # tail
        BY <1>1, <2>1 DEF NULL
      <4>2. DOMAIN next = Done + 1 .. Pushed
        BY DEF IInv, FirstIn, Done, Pushed
      <4>3. QED
        BY <1>4, <4>1, <4>2
    <3>2. at \in Nat /\ at <= BatchEnd /\ BatchEnd \in Nat
      BY <1>1, <2>1 DEF IInv, BatchInv, TypeInv
    <3>3. QED
      BY <1>2, <1>5, <1>6, <2>1, <3>1, <3>2 DEF IInv, BatchInv
  <2>2. CASE ~Walking
    BY <1>3, <1>5, <1>6, <2>2 DEF IInv, BatchInv
  <2>3. QED
    BY <2>1, <2>2
<1>11. QED
  BY <1>2, <1>5, <1>7, <1>8, <1>9, <1>10 DEF IInv

\* The loop thread takes the ring for its batch.
LEMMA TakeStep ==
    ASSUME IInv, TakeRing
    PROVE  IInv'
<1>1. /\ tail # NULL /\ ~Walking
      /\ UNCHANGED <<next, from, handled>>
      /\ first' = next[tail] /\ at' = next[tail] /\ tail' = NULL /\ pc' = "walks"
  BY DEF IInv, TakeRing, Walking
<1>2. Done \in Nat /\ Pushed \in Nat /\ tail = Pushed /\ BatchEnd = Done /\ Done < Pushed
  BY <1>1, Lengths DEF IInv, BatchInv
<1>3. next[tail] = Done + 1 /\ next[Pushed] = Done + 1
  BY <1>1, <1>2, Lengths
<1>4. Done' = Done /\ Pushed' = Pushed /\ BatchEnd' = Pushed
  BY <1>1 DEF Done, Pushed, BatchEnd
<1>5. Walking'
  BY <1>1, <1>2, <1>3 DEF Walking, NULL
<1>6. TypeInv'
  BY <1>1, <1>2, <1>3 DEF IInv, TypeInv, NULL
<1>7. FirstIn'
  BY <1>1, <1>3, <1>5 DEF IInv, FirstIn, Walking, Done
<1>8. \A i \in Done + 1 .. Pushed - 1 : next[i] = i + 1
  BY <1>1, <1>3 DEF IInv, RingInv
<1>9. BatchInv'
  BY <1>1, <1>2, <1>3, <1>4, <1>5, <1>8 DEF BatchInv
<1>10. QED
  BY <1>1, <1>6, <1>7, <1>9 DEF IInv, RingInv

\* The loop thread preserves it.
LEMMA DispatchStep ==
    ASSUME IInv, OnDispatchMsg
    PROVE  IInv'
<1>1. /\ Walking
      /\ UNCHANGED <<tail, from, pc, first>>
      /\ at' = IF next[at] # first THEN next[at] ELSE NULL
      /\ handled' = Append(handled, at)
      /\ next' = Drop(next, at)
  BY DEF OnDispatchMsg, Walking
<1>2. /\ Done \in Nat /\ Pushed \in Nat
      /\ at = Done + 1 /\ at <= BatchEnd /\ BatchEnd \in Done .. Pushed
      /\ tail # NULL => tail = Pushed /\ next[tail] = BatchEnd + 1 /\ BatchEnd < Pushed
      /\ tail = NULL => BatchEnd = Pushed
  BY <1>1, Lengths DEF IInv, BatchInv
<1>3. /\ handled' \in Seq(Nat) /\ Done' = Done + 1 /\ Pushed' = Pushed
      /\ handled' = [i \in 1 .. Done' |-> i]
  <2>1. handled \in Seq(Nat) /\ Len(handled) = Done /\ at \in Nat
    BY DEF IInv, TypeInv, Done
  <2>2. \A i \in 1 .. Done : handled[i] = i
    <3>1. handled = [i \in 1 .. Done |-> i]
      BY DEF IInv, FirstIn, Done
    <3>2. QED
      BY <3>1, Zenon
  <2>3. /\ handled' \in Seq(Nat) /\ Len(handled') = Done + 1
        /\ \A i \in 1 .. Done + 1 : handled'[i] = IF i = Done + 1 THEN at ELSE handled[i]
    BY <1>1, <1>2, <2>1
  <2>4. \A i \in 1 .. Done + 1 : handled'[i] = i
    BY <1>2, <2>2, <2>3
  <2>5. Done' = Done + 1 /\ Pushed' = Pushed
    BY <1>1, <2>3 DEF Done, Pushed
  <2>6. handled' = [i \in 1 .. Done + 1 |-> i]
    BY <1>2, <2>3, <2>4
  <2>7. QED
    BY <2>3, <2>5, <2>6
<1>4. /\ DOMAIN next' = Done' + 1 .. Pushed
      /\ next' \in [DOMAIN next' -> Nat]
      /\ \A i \in DOMAIN next : i # at => next'[i] = next[i]
  <2>1. DOMAIN next = Done + 1 .. Pushed /\ next \in [DOMAIN next -> Nat]
    BY DEF IInv, FirstIn, TypeInv, Done, Pushed
  <2>2. DOMAIN next' = DOMAIN next \ {at}
    BY <1>1 DEF Drop
  <2>3. QED
    BY <1>1, <1>2, <1>3, <2>1, <2>2 DEF Drop
<1>5. BatchEnd' = BatchEnd /\ (tail # NULL => next'[tail] = next[tail])
  <2>1. tail # NULL => tail # at /\ tail \in DOMAIN next
    BY <1>2 DEF IInv, FirstIn, Done, Pushed
  <2>2. QED
    BY <1>1, <1>3, <1>4, <2>1 DEF BatchEnd
<1>6. /\ first \in 1 .. at
      /\ next[BatchEnd] = first
      /\ \A i \in at .. BatchEnd - 1 : next[i] = i + 1
  BY <1>1 DEF IInv, BatchInv
<1>7. \/ at = BatchEnd /\ at' = NULL
      \/ at < BatchEnd /\ at' = at + 1 /\ at' # NULL
  BY <1>1, <1>2, <1>6 DEF NULL
<1>8. TypeInv'
  BY <1>1, <1>2, <1>3, <1>4, <1>7 DEF IInv, TypeInv, NULL
<1>9. FirstIn'
  <2>1. tail # NULL => tail = Len(from)
    BY DEF IInv, FirstIn
  <2>2. pc' = "walks" /\ at' # NULL => at' = Done' + 1
    BY <1>2, <1>3, <1>7
  <2>3. tail = NULL => (pc' = "walks" /\ at' # NULL) \/ DOMAIN next' = {}
    <3>1. CASE at = BatchEnd
      BY <1>2, <1>3, <1>4, <3>1
    <3>2. CASE at < BatchEnd
      BY <1>1, <1>2, <1>7, <3>2 DEF Walking
    <3>3. QED
      BY <1>7, <3>1, <3>2
  <2>4. QED
    BY <1>1, <1>3, <1>4, <2>1, <2>2, <2>3 DEF FirstIn, Done, Pushed
<1>10. RingInv'
  <2>1. SUFFICES ASSUME tail # NULL
                 PROVE  /\ next'[tail] \in Done' + 1 .. Pushed
                        /\ \A i \in next'[tail] .. Pushed - 1 : next'[i] = i + 1
    BY <1>1, <1>3 DEF RingInv
  <2>2. next'[tail] = BatchEnd + 1 /\ at <= BatchEnd
    BY <1>2, <1>5, <2>1
  <2>3. ASSUME NEW i \in BatchEnd + 1 .. Pushed - 1
        PROVE  next'[i] = i + 1
    <3>1. i \in DOMAIN next /\ i # at
      BY <1>2 DEF IInv, FirstIn, Done, Pushed
    <3>2. next[i] = i + 1
      BY <1>2, <2>1 DEF IInv, RingInv
    <3>3. QED
      BY <1>4, <3>1, <3>2
  <2>4. QED
    BY <1>2, <1>3, <2>1, <2>2, <2>3
<1>11. BatchInv'
  <2>1. CASE at = BatchEnd /\ at' = NULL
    BY <1>2, <1>3, <1>5, <2>1 DEF BatchInv, Walking
  <2>2. CASE at < BatchEnd /\ at' = at + 1 /\ at' # NULL
    <3>1. Walking'
      BY <1>1, <2>2 DEF Walking
    <3>2. ASSUME NEW i \in at + 1 .. BatchEnd
          PROVE  next'[i] = next[i]
      <4>1. i \in DOMAIN next /\ i # at
        BY <1>2 DEF IInv, FirstIn, Done, Pushed
      <4>2. QED
        BY <1>4, <4>1
    <3>3. QED
      BY <1>1, <1>2, <1>5, <1>6, <2>2, <3>1, <3>2 DEF BatchInv
  <2>3. QED
    BY <1>7, <2>1, <2>2
<1>12. QED
  BY <1>1, <1>8, <1>9, <1>10, <1>11 DEF IInv, Walking

\* Any other step moves no message.
LEMMA OtherStep ==
    ASSUME IInv, UNCHANGED <<ring, first, at, handled>>,
           Walking' = Walking, pc' = "walks" => Walking \/ at = NULL,
           pc' = "takes" => tail # NULL
    PROVE  IInv'
<1>1. Done' = Done /\ Pushed' = Pushed /\ BatchEnd' = BatchEnd
  BY DEF ring, Done, Pushed, BatchEnd
<1>2. TypeInv' /\ RingInv' /\ BatchInv'
  BY <1>1 DEF ring, IInv, TypeInv, RingInv, BatchInv
<1>3. FirstIn'
  BY DEF ring, IInv, FirstIn, Walking
<1>4. QED
  BY <1>2, <1>3 DEF IInv, ring

-----------------------------------------------------------------------------

\* Messages are handled once each and in the order of the pushes, no deleted
\* node is used again and none is lost, for any number of threads and messages,
\* though the loop thread looks at the tail without the lock (PushBackMsg and
\* DispatchThreadMsg).
THEOREM HandledInOrder == Spec => []FirstIn
<1>1. Init => IInv
  <2>1. SUFFICES ASSUME Init PROVE IInv
    OBVIOUS
  <2>2. /\ from \in Seq(Threads) /\ handled \in Seq(Nat)
        /\ Len(from) = 0 /\ Len(handled) = 0 /\ tail = 0 /\ first = 0 /\ at = 0
        /\ handled = [i \in 1 .. 0 |-> i]
    BY <2>1 DEF Init, NULL
  <2>3. DOMAIN next = {} /\ next \in [{} -> Nat]
    BY <2>1 DEF Init
  <2>4. pc = "polls"
    BY <2>1 DEF Init
  <2>5. QED
    BY <2>2, <2>3, <2>4
    DEF IInv, TypeInv, FirstIn, RingInv, BatchInv, BatchEnd, Walking, Done, Pushed, NULL
<1>2. IInv /\ [Next]_vars => IInv'
  <2>1. SUFFICES ASSUME IInv, [Next]_vars PROVE IInv'
    OBVIOUS
  <2>2. CASE \E t \in Threads : PushBackMsg(t)
    BY <2>1, <2>2, PushStep
  <2>3. CASE \E t \in Threads : AsyncSend(t)
    BY <2>1, <2>3, OtherStep DEF AsyncSend, loop, Walking, IInv
  <2>4. CASE AsyncRecvMsg
    BY <2>1, <2>4, OtherStep DEF AsyncRecvMsg, Walking, IInv
  <2>5. CASE LookAtTail
    BY <2>1, <2>5, OtherStep DEF LookAtTail, Walking, IInv
  <2>6. CASE TakeRing
    BY <2>1, <2>6, TakeStep
  <2>7. CASE OnDispatchMsg
    BY <2>1, <2>7, DispatchStep
  <2>8. CASE WalkEnds
    BY <2>1, <2>8, OtherStep DEF WalkEnds, Walking, IInv
  <2>9. CASE UNCHANGED vars
    BY <2>1, <2>9, OtherStep DEF vars, loop, Walking, IInv
  <2>10. QED
    BY <2>1, <2>2, <2>3, <2>4, <2>5, <2>6, <2>7, <2>8, <2>9 DEF Next, Loop
<1>3. IInv => FirstIn
  BY DEF IInv
<1>4. QED
  BY <1>1, <1>2, <1>3, PTL DEF Spec

=============================================================================
