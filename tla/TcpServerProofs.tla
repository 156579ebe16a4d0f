--------------------------- MODULE TcpServerProofs ---------------------------
(***************************************************************************)
(* Proofs about the TCP server: where the contexts are, and that only a    *)
(* close leaves with the lock.                                             *)
(***************************************************************************)
EXTENDS TcpServer, FiniteSetTheorems, TLAPS

InList(c) == \E i \in DOMAIN avail : avail[i] = c
Owned(c) == \E id \in DOMAIN clients : clients[id] = c

\* Contexts are numbered in the order in which they are allocated.
Numbered == \E n \in Nat : Contexts = 1 .. n

ListTypes ==
    /\ Numbered
    /\ DOMAIN flying = Contexts
    /\ \A c \in Contexts : flying[c] \in Nat
    /\ \A c \in Contexts : handle[c] \in {"open", "closed", "freed"} \cup Closing
    /\ avail \in Seq(Contexts)
    /\ spare \in Nat
    /\ ids \in Nat
    /\ DOMAIN clients \subseteq 1 .. ids
    /\ \A id \in DOMAIN clients : clients[id] \in Contexts

Nowhere == {"freed", "RecycleTcpHandle"}

\* No context is listed twice, nor is it that of two clients.
ListedOnce == \A i, j \in DOMAIN avail : avail[i] = avail[j] => i = j
OwnedOnce == \A i, j \in DOMAIN clients : clients[i] = clients[j] => i = j

InOnePlace ==
    \A c \in Contexts :
        /\ handle[c] \in Nowhere => ~InList(c) /\ ~Owned(c)
        /\ handle[c] \notin Nowhere => (InList(c) <=> ~Owned(c))
        /\ flying[c] > 0 => Owned(c)

ClientsLive == \A id \in DOMAIN clients : handle[clients[id]] \in {"open", "AfterClientClose"}

Bounded == Len(avail) <= MAXLISTSIZE + 1 /\ spare <= MAXLISTSIZE + 1

OInv == ListTypes /\ ListedOnce /\ OwnedOnce /\ InOnePlace /\ ClientsLive /\ Bounded

\* Nothing but a close asks for one, and nothing but closeinl keeps the lock.
LInv ==
    /\ calls \in [start : Nat, close : Nat, conn : Nat]
    /\ asked => calls.close > 0
    /\ locked => calls.close > 0
    /\ HangsOnlyAfterClose

-----------------------------------------------------------------------------
(* The context of a new connection.                                        *)

\* The context for the next client is new or was in the list.
LEMMA ChosenFacts ==
    ASSUME OInv
    PROVE  /\ \E n \in Nat : Contexts \cup {Chosen} = 1 .. n
           /\ Rest \in Seq(Contexts)
           /\ Len(Rest) <= Len(avail)
           /\ Len(Rest) < Len(avail) \/ Len(Rest) = 0
           /\ \A i \in DOMAIN Rest : Rest[i] # Chosen
           /\ \A i, j \in DOMAIN Rest : Rest[i] = Rest[j] => i = j
           /\ \A c \in Contexts : c # Chosen =>
                 (InList(c) <=> \E i \in DOMAIN Rest : Rest[i] = c)
           /\ Chosen \in Contexts => InList(Chosen)
           /\ ~Owned(Chosen)
<1>1. PICK n \in Nat : Contexts = 1 .. n
  BY DEF OInv, ListTypes, Numbered
<1>2. Fresh = n + 1
  <2>1. Cardinality(1 .. n) = n
    BY FS_Interval
  <2>2. QED
    BY <1>1, <2>1 DEF Fresh
<1>3. avail \in Seq(Contexts)
  BY DEF OInv, ListTypes
<1>4. CASE avail = <<>>
  <2>1. Chosen = n + 1 /\ Rest = <<>>
    BY <1>2, <1>4 DEF Chosen, Rest
  <2>2. Contexts \cup {Chosen} = 1 .. n + 1
    BY <1>1, <2>1
  <2>3. \A c : ~InList(c)
    BY <1>4 DEF InList
  <2>4. ~Owned(n + 1)
    BY <1>1 DEF Owned, OInv, ListTypes
  <2>5. Chosen \notin Contexts
    BY <1>1, <2>1
  <2>6. Rest \in Seq(Contexts) /\ Len(Rest) = 0 /\ DOMAIN Rest = {}
    BY <2>1
  <2>7. QED
    BY <1>4, <2>1, <2>2, <2>3, <2>4, <2>5, <2>6
<1>5. CASE avail # <<>>
  <2>1. Chosen = avail[1] /\ Rest = Tail(avail) /\ 1 \in DOMAIN avail
    BY <1>3, <1>5 DEF Chosen, Rest
  <2>2. /\ Rest \in Seq(Contexts)
        /\ Len(Rest) = Len(avail) - 1
        /\ DOMAIN Rest = 1 .. Len(avail) - 1
        /\ \A i \in DOMAIN Rest : Rest[i] = avail[i + 1] /\ i + 1 \in DOMAIN avail
    BY <1>3, <1>5, <2>1
  <2>3. Chosen \in Contexts /\ InList(Chosen)
    BY <1>3, <2>1 DEF InList
  <2>4. Contexts \cup {Chosen} = 1 .. n
    BY <1>1, <2>3
  <2>5. \A i \in DOMAIN Rest : Rest[i] # Chosen
    <3>1. SUFFICES ASSUME NEW i \in DOMAIN Rest PROVE avail[i + 1] # avail[1]
      BY <2>1, <2>2
    <3>2. i + 1 # 1
      BY <2>2
    <3>3. QED
      BY <2>1, <2>2, <3>2 DEF OInv, ListedOnce
  <2>6. \A i, j \in DOMAIN Rest : Rest[i] = Rest[j] => i = j
    <3>1. SUFFICES ASSUME NEW i \in DOMAIN Rest, NEW j \in DOMAIN Rest,
                          avail[i + 1] = avail[j + 1]
                   PROVE  i = j
      BY <2>2
    <3>2. i + 1 = j + 1
      BY <2>2, <3>1 DEF OInv, ListedOnce
    <3>3. QED
      BY <2>2, <3>2
  <2>7. \A c \in Contexts : c # Chosen =>
           (InList(c) <=> \E i \in DOMAIN Rest : Rest[i] = c)
    <3>1. SUFFICES ASSUME NEW c \in Contexts, c # Chosen
                   PROVE  InList(c) <=> \E i \in DOMAIN Rest : Rest[i] = c
      OBVIOUS
    <3>2. ASSUME NEW k \in DOMAIN avail, avail[k] = c
          PROVE  \E i \in DOMAIN Rest : Rest[i] = c
      <4>1. k # 1
        BY <2>1, <3>1, <3>2
      <4>2. k - 1 \in DOMAIN Rest /\ Rest[k - 1] = c
        BY <1>3, <2>2, <3>2, <4>1
      <4>3. QED
        BY <4>2
    <3>3. QED
      BY <2>2, <3>2 DEF InList
  <2>8. ~Owned(Chosen)
    BY <2>3 DEF OInv, InOnePlace
  <2>9. Len(Rest) <= Len(avail) /\ Len(Rest) < Len(avail)
    BY <1>3, <2>2
  <2>10. \E m \in Nat : Contexts \cup {Chosen} = 1 .. m
    BY <2>4
  <2>11. QED
    BY <2>2, <2>3, <2>5, <2>6, <2>7, <2>8, <2>9, <2>10, Zenon
<1>6. QED
  BY <1>4, <1>5

\* What taking it changes.
LEMMA TakeFacts ==
    ASSUME OInv, NEW h, NEW list, Take(h, list)
    PROVE  /\ Numbered'
           /\ Contexts' = Contexts \cup {Chosen}
           /\ DOMAIN flying' = Contexts'
           /\ handle'[Chosen] = h
           /\ flying'[Chosen] = 0
           /\ \A c \in Contexts : c # Chosen =>
                 handle'[c] = handle[c] /\ flying'[c] = flying[c]
<1>1. Contexts' = Contexts \cup {Chosen}
  BY DEF Take, Put, Contexts
<1>2. Numbered'
  BY <1>1, ChosenFacts DEF Numbered
<1>3. DOMAIN flying' = Contexts'
  BY <1>1 DEF Take, Put, OInv, ListTypes
<1>4. handle'[Chosen] = h /\ flying'[Chosen] = 0
  BY DEF Take, Put
<1>5. ASSUME NEW c \in Contexts, c # Chosen
      PROVE  handle'[c] = handle[c] /\ flying'[c] = flying[c]
  BY <1>5 DEF Take, Put, Contexts, OInv, ListTypes
<1>6. QED
  BY <1>1, <1>2, <1>3, <1>4, <1>5

\* The context goes back to the list.
LEMMA AcceptFailsStep ==
    ASSUME OInv, AcceptFails
    PROVE  OInv'
<1> DEFINE before == IF Chosen \in Contexts THEN handle[Chosen] ELSE "closed"
<1>1. PICK h \in {before, "open"} :
          Take(h, Append(Rest, Chosen)) /\ ids' \in {ids, ids + 1}
  BY DEF AcceptFails
<1>2. h \in {"open", "closed"} \cup {"AfterClientClose", "AfterServerClose"}
  <2>1. CASE Chosen \in Contexts
    BY <2>1, ChosenFacts DEF OInv, ListTypes, InOnePlace, Nowhere, Closing
  <2>2. CASE Chosen \notin Contexts
    BY <2>2
  <2>3. QED
    BY <2>1, <2>2
<1>3. /\ Numbered'
      /\ Contexts' = Contexts \cup {Chosen}
      /\ DOMAIN flying' = Contexts'
      /\ handle'[Chosen] = h
      /\ flying'[Chosen] = 0
      /\ \A c \in Contexts : c # Chosen =>
            handle'[c] = handle[c] /\ flying'[c] = flying[c]
  BY <1>1, TakeFacts
<1>4. /\ Rest \in Seq(Contexts')
      /\ avail' \in Seq(Contexts')
      /\ DOMAIN avail' = DOMAIN Rest \cup {Len(Rest) + 1}
      /\ avail'[Len(Rest) + 1] = Chosen
      /\ \A i \in DOMAIN Rest : avail'[i] = Rest[i]
      /\ Len(avail') = Len(Rest) + 1
  <2>1. Rest \in Seq(Contexts)
    BY ChosenFacts
  <2>2. Rest \in Seq(Contexts')
    BY <1>3, <2>1
  <2>3. avail' = Append(Rest, Chosen) /\ Chosen \in Contexts'
    BY <1>1, <1>3 DEF Take
  <2>4. QED
    BY <2>2, <2>3
<1>5. clients' = clients /\ spare' = spare
  BY DEF AcceptFails
<1>6. ListTypes'
  <2>1. ids \in Nat /\ ids' \in Nat /\ DOMAIN clients' \subseteq 1 .. ids'
    BY <1>1, <1>5 DEF OInv, ListTypes
  <2>2. \A c \in Contexts' : flying'[c] \in Nat
    BY <1>3 DEF OInv, ListTypes
  <2>3. \A c \in Contexts' : handle'[c] \in {"open", "closed", "freed"} \cup Closing
    BY <1>2, <1>3 DEF OInv, ListTypes, Closing
  <2>4. QED
    BY <1>3, <1>4, <1>5, <2>1, <2>2, <2>3 DEF OInv, ListTypes
<1>7. \A c \in Contexts' : InList(c)' <=> (c = Chosen \/ InList(c))
  BY <1>3, <1>4, ChosenFacts DEF InList
<1>8. \A c : Owned(c)' <=> Owned(c)
  BY <1>5 DEF Owned
<1>9. ListedOnce'
  BY <1>4, ChosenFacts DEF ListedOnce
<1>10. OwnedOnce'
  BY <1>5 DEF OInv, OwnedOnce
<1>11. InOnePlace'
  BY <1>2, <1>3, <1>7, <1>8, ChosenFacts DEF OInv, InOnePlace, Nowhere
<1>12. ClientsLive'
  BY <1>3, <1>5, ChosenFacts DEF OInv, ClientsLive, Owned, ListTypes
<1>13. Bounded'
  <2>1. Len(avail') <= MAXLISTSIZE + 1
    BY <1>4, ChosenFacts, TcpServerAssumption DEF OInv, Bounded, ListTypes
  <2>2. QED
    BY <1>5, <2>1 DEF OInv, Bounded
<1>14. QED
  BY <1>6, <1>9, <1>10, <1>11, <1>12, <1>13 DEF OInv

\* A client that cannot be read from preserves the invariant.
LEMMA ReadStartFailsStep ==
    ASSUME OInv, ReadStartFails
    PROVE  OInv'
<1>1. Take("RecycleTcpHandle", Rest) /\ ids' = ids + 1 /\ clients' = clients /\ spare' = spare
  BY DEF ReadStartFails
<1>2. /\ Numbered'
      /\ Contexts' = Contexts \cup {Chosen}
      /\ DOMAIN flying' = Contexts'
      /\ handle'[Chosen] = "RecycleTcpHandle"
      /\ flying'[Chosen] = 0
      /\ \A c \in Contexts : c # Chosen =>
            handle'[c] = handle[c] /\ flying'[c] = flying[c]
  BY <1>1, TakeFacts
<1>3. avail' = Rest /\ avail' \in Seq(Contexts')
  <2>1. Rest \in Seq(Contexts)
    BY ChosenFacts
  <2>2. QED
    BY <1>1, <1>2, <2>1 DEF Take
<1>4. ListTypes'
  <2>1. ids' \in Nat /\ DOMAIN clients' \subseteq 1 .. ids'
    BY <1>1 DEF OInv, ListTypes
  <2>2. \A c \in Contexts' : flying'[c] \in Nat
    BY <1>2 DEF OInv, ListTypes
  <2>3. \A c \in Contexts' : handle'[c] \in {"open", "closed", "freed"} \cup Closing
    BY <1>2 DEF OInv, ListTypes, Closing
  <2>4. QED
    BY <1>1, <1>2, <1>3, <2>1, <2>2, <2>3 DEF OInv, ListTypes
<1>5. \A c \in Contexts' : InList(c)' <=> (c # Chosen /\ InList(c))
  BY <1>2, <1>3, ChosenFacts DEF InList
<1>6. \A c : Owned(c)' <=> Owned(c)
  BY <1>1 DEF Owned
<1>7. ListedOnce'
  BY <1>3, ChosenFacts DEF ListedOnce
<1>8. OwnedOnce'
  BY <1>1 DEF OInv, OwnedOnce
<1>9. InOnePlace'
  BY <1>2, <1>5, <1>6, ChosenFacts DEF OInv, InOnePlace, Nowhere
<1>10. ClientsLive'
  BY <1>1, <1>2, ChosenFacts DEF OInv, ClientsLive, Owned, ListTypes
<1>11. Bounded'
  <2>1. Len(avail') <= MAXLISTSIZE + 1
    BY <1>3, ChosenFacts, TcpServerAssumption DEF OInv, Bounded, ListTypes
  <2>2. QED
    BY <1>1, <2>1 DEF OInv, Bounded
<1>12. QED
  BY <1>4, <1>7, <1>8, <1>9, <1>10, <1>11 DEF OInv

\* A client that is accepted preserves it.
LEMMA AcceptsStep ==
    ASSUME OInv, Accepts
    PROVE  OInv'
<1>1. /\ Take("open", Rest) /\ ids' = ids + 1 /\ spare' = spare
      /\ clients' = Put(clients, ids + 1, Chosen)
  BY DEF Accepts
<1>2. /\ Numbered'
      /\ Contexts' = Contexts \cup {Chosen}
      /\ DOMAIN flying' = Contexts'
      /\ handle'[Chosen] = "open"
      /\ flying'[Chosen] = 0
      /\ \A c \in Contexts : c # Chosen =>
            handle'[c] = handle[c] /\ flying'[c] = flying[c]
  BY <1>1, TakeFacts
<1>3. avail' = Rest /\ avail' \in Seq(Contexts')
  <2>1. Rest \in Seq(Contexts)
    BY ChosenFacts
  <2>2. QED
    BY <1>1, <1>2, <2>1 DEF Take
<1>4. /\ DOMAIN clients' = DOMAIN clients \cup {ids + 1}
      /\ clients'[ids + 1] = Chosen
      /\ \A id \in DOMAIN clients : clients'[id] = clients[id] /\ id # ids + 1
  BY <1>1 DEF Put, OInv, ListTypes
<1>5. ListTypes'
  <2>1. ids' \in Nat /\ DOMAIN clients' \subseteq 1 .. ids'
    BY <1>1, <1>4 DEF OInv, ListTypes
  <2>2. \A c \in Contexts' : flying'[c] \in Nat
    BY <1>2 DEF OInv, ListTypes
  <2>3. \A c \in Contexts' : handle'[c] \in {"open", "closed", "freed"} \cup Closing
    BY <1>2 DEF OInv, ListTypes, Closing
  <2>4. \A id \in DOMAIN clients' : clients'[id] \in Contexts'
    BY <1>2, <1>4 DEF OInv, ListTypes
  <2>5. QED
    BY <1>1, <1>2, <1>3, <2>1, <2>2, <2>3, <2>4 DEF OInv, ListTypes
<1>6. \A c \in Contexts' : InList(c)' <=> (c # Chosen /\ InList(c))
  BY <1>2, <1>3, ChosenFacts DEF InList
<1>7. \A c : Owned(c)' <=> (c = Chosen \/ Owned(c))
  BY <1>4 DEF Owned
<1>8. ListedOnce'
  BY <1>3, ChosenFacts DEF ListedOnce
<1>9. OwnedOnce'
  BY <1>4, ChosenFacts DEF OInv, OwnedOnce, Owned
<1>10. InOnePlace'
  BY <1>2, <1>6, <1>7, ChosenFacts DEF OInv, InOnePlace, Nowhere
<1>11. ClientsLive'
  BY <1>2, <1>4, ChosenFacts DEF OInv, ClientsLive, Owned, ListTypes
<1>12. Bounded'
  <2>1. Len(avail') <= MAXLISTSIZE + 1
    BY <1>3, ChosenFacts, TcpServerAssumption DEF OInv, Bounded, ListTypes
  <2>2. QED
    BY <1>1, <2>1 DEF OInv, Bounded
<1>13. QED
  BY <1>5, <1>8, <1>9, <1>10, <1>11, <1>12 DEF OInv

-----------------------------------------------------------------------------
(* A step that moves no context from one place to another.                 *)

\* A step that moves no context preserves it.
LEMMA StayStep ==
    ASSUME OInv, UNCHANGED <<avail, clients, ids>>,
           DOMAIN handle' = Contexts, DOMAIN flying' = Contexts,
           \A c \in Contexts :
               /\ handle'[c] \in {"open", "closed", "freed"} \cup Closing
               /\ flying'[c] \in Nat
               /\ handle'[c] \in Nowhere <=> handle[c] \in Nowhere
               /\ flying'[c] > 0 => Owned(c)
               /\ Owned(c) => handle'[c] \in {"open", "AfterClientClose"},
           spare' \in Nat, spare' <= MAXLISTSIZE + 1
    PROVE  OInv'
<1>1. Contexts' = Contexts
  BY DEF Contexts
<1>2. \A c : (InList(c)' <=> InList(c)) /\ (Owned(c)' <=> Owned(c))
  BY DEF InList, Owned
<1>3. ListTypes'
  BY <1>1 DEF OInv, ListTypes, Numbered
<1>4. InOnePlace'
  BY <1>1, <1>2 DEF OInv, InOnePlace
<1>5. ClientsLive'
  BY DEF OInv, ClientsLive, ListTypes, Owned
<1>6. ListedOnce' /\ OwnedOnce' /\ Bounded'
  BY DEF OInv, ListedOnce, OwnedOnce, Bounded
<1>7. QED
  BY <1>3, <1>4, <1>5, <1>6 DEF OInv

\* The context of a client is its own and alive.
LEMMA ClientFacts ==
    ASSUME OInv, NEW id \in DOMAIN clients
    PROVE  /\ clients[id] \in Contexts
           /\ Owned(clients[id])
           /\ ~InList(clients[id])
           /\ handle[clients[id]] \notin Nowhere
<1>1. clients[id] \in Contexts /\ Owned(clients[id])
  BY DEF OInv, ListTypes, Owned
<1>2. handle[clients[id]] \notin Nowhere
  BY <1>1 DEF OInv, InOnePlace
<1>3. QED
  BY <1>1, <1>2 DEF OInv, InOnePlace

\* What OInv says of a context that stays where it is.
LEMMA PlaceFacts ==
    ASSUME OInv, NEW c \in Contexts
    PROVE  /\ handle[c] \in {"open", "closed", "freed"} \cup Closing
           /\ flying[c] \in Nat
           /\ flying[c] > 0 => Owned(c)
           /\ Owned(c) => handle[c] \in {"open", "AfterClientClose"}
           /\ spare \in Nat /\ spare <= MAXLISTSIZE + 1
           /\ DOMAIN handle = Contexts /\ DOMAIN flying = Contexts
BY DEF OInv, ListTypes, InOnePlace, ClientsLive, Owned, Bounded, Contexts

\* The end of a stream and a write of the server preserve it.
LEMMA ClientStep ==
    ASSUME OInv, NEW id \in DOMAIN clients, AfterRecvEnd(id) \/ sendinl(id)
    PROVE  OInv'
<1> DEFINE c == clients[id]
<1>1. c \in Contexts /\ Owned(c)
  BY ClientFacts
<1>2. CASE AfterRecvEnd(id)
  <2>1. UNCHANGED <<avail, clients, ids, flying, spare>>
    BY <1>2 DEF AfterRecvEnd
  <2>2. handle' = [handle EXCEPT ![c] = "AfterClientClose"] /\ handle[c] = "open"
    BY <1>2 DEF AfterRecvEnd
  <2>3. QED
    BY <1>1, <2>1, <2>2, PlaceFacts, StayStep DEF Nowhere, Closing
<1>3. CASE sendinl(id)
  <2>1. UNCHANGED <<avail, clients, ids, handle>>
    BY <1>3 DEF sendinl
  <2>2. flying' \in {flying, [flying EXCEPT ![c] = @ + 1]}
    BY <1>3 DEF sendinl
  <2>3. spare' \in Nat /\ spare' <= MAXLISTSIZE + 1
    BY <1>1, <1>3, PlaceFacts, TcpServerAssumption DEF sendinl
  <2>4. QED
    BY <1>1, <2>1, <2>2, <2>3, PlaceFacts, StayStep
<1>4. QED
  BY <1>2, <1>3

\* The list of write requests stays bounded.
LEMMA RecycledFacts ==
    ASSUME OInv, NEW n \in Nat
    PROVE  Recycled(n) \in Nat /\ Recycled(n) <= MAXLISTSIZE + 1
BY TcpServerAssumption DEF OInv, ListTypes, Bounded, Recycled, Least

\* The end of a write preserves it.
LEMMA AfterSendStep ==
    ASSUME OInv, NEW c \in Contexts, AfterSend(c)
    PROVE  OInv'
<1>1. UNCHANGED <<avail, clients, ids, handle>>
  BY DEF AfterSend
<1>2. flying' = [flying EXCEPT ![c] = @ - 1] /\ flying[c] > 0
  BY DEF AfterSend
<1>3. spare' \in Nat /\ spare' <= MAXLISTSIZE + 1
  BY RecycledFacts DEF AfterSend
<1>4. QED
  BY <1>1, <1>2, <1>3, PlaceFacts, StayStep

\* The close of the server preserves it.
LEMMA closeinlStep ==
    ASSUME OInv, closeinl
    PROVE  OInv'
<1>1. CASE UNCHANGED <<avail, clients, ids, handle, flying, spare>>
  BY <1>1, PlaceFacts, StayStep DEF OInv, ListTypes, Bounded, Contexts
<1>2. CASE /\ UNCHANGED <<avail, clients, ids, flying, spare>>
           /\ handle' = [c \in Contexts |->
                  IF handle[c] # "open" THEN handle[c]
                  ELSE IF \E id \in DOMAIN clients : clients[id] = c
                  THEN "AfterClientClose" ELSE "AfterServerClose"]
  BY <1>2, PlaceFacts, StayStep DEF Nowhere, Closing, Owned, OInv, ListTypes, Bounded
<1>3. QED
  BY <1>1, <1>2 DEF closeinl, Hangs, lists

\* The call back of a handle that the server closed preserves it.
LEMMA AfterServerCloseStep ==
    ASSUME OInv, NEW c \in Contexts, AfterServerClose(c)
    PROVE  OInv'
<1>1. UNCHANGED <<avail, clients, ids, flying, spare>>
  BY DEF AfterServerClose
<1>2. handle' = [handle EXCEPT ![c] = "closed"] /\ handle[c] = "AfterServerClose"
  BY DEF AfterServerClose
<1>3. QED
  BY <1>1, <1>2, PlaceFacts, StayStep DEF Nowhere, Closing

-----------------------------------------------------------------------------
(* A context whose handle has been closed goes to the list.                *)

\* A context that goes to the list preserves it.
LEMMA RecycleStep ==
    ASSUME OInv, NEW c \in Contexts, Recycle(c), ~InList(c), ids' = ids,
           DOMAIN clients' \subseteq DOMAIN clients,
           \A id \in DOMAIN clients' : clients'[id] = clients[id],
           \A d \in Contexts : Owned(d)' <=> (d # c /\ Owned(d))
    PROVE  OInv'
<1> DEFINE full == Len(avail) > MAXLISTSIZE
<1>1. /\ Contexts' = Contexts
      /\ DOMAIN flying' = Contexts
      /\ handle'[c] = IF full THEN "freed" ELSE "closed"
      /\ flying'[c] = 0
      /\ \A d \in Contexts : d # c => handle'[d] = handle[d] /\ flying'[d] = flying[d]
  BY PlaceFacts DEF Recycle, Contexts
<1>2. /\ avail \in Seq(Contexts)
      /\ spare' \in Nat /\ spare' <= MAXLISTSIZE + 1
  BY PlaceFacts, RecycledFacts DEF OInv, ListTypes, Recycle
<1>3. ListTypes'
  <2>1. avail' \in Seq(Contexts)
    BY <1>2 DEF Recycle
  <2>2. \A d \in Contexts : /\ flying'[d] \in Nat
                            /\ handle'[d] \in {"open", "closed", "freed"} \cup Closing
    BY <1>1, PlaceFacts
  <2>3. \A id \in DOMAIN clients' : clients'[id] \in Contexts
    BY ClientFacts
  <2>4. QED
    BY <1>1, <1>2, <2>1, <2>2, <2>3 DEF OInv, ListTypes, Numbered
<1>4. OwnedOnce'
  BY DEF OInv, OwnedOnce
<1>5. ClientsLive'
  <2>1. SUFFICES ASSUME NEW id \in DOMAIN clients'
                 PROVE  handle'[clients'[id]] \in {"open", "AfterClientClose"}
    BY DEF ClientsLive
  <2>2. clients[id] \in Contexts /\ Owned(clients[id])'
    BY ClientFacts DEF Owned
  <2>3. QED
    BY <1>1, <2>2, PlaceFacts
<1>6. CASE full
  <2>1. avail' = avail
    BY <1>6 DEF Recycle
  <2>2. \A d : InList(d)' <=> InList(d)
    BY <2>1 DEF InList
  <2>3. InOnePlace'
    BY <1>1, <1>6, <2>2 DEF OInv, InOnePlace, Nowhere
  <2>4. QED
    BY <1>2, <1>3, <1>4, <1>5, <2>1, <2>3 DEF OInv, ListedOnce, Bounded
<1>7. CASE ~full
  <2>1. /\ avail' = Append(avail, c)
        /\ DOMAIN avail' = DOMAIN avail \cup {Len(avail) + 1}
        /\ avail'[Len(avail) + 1] = c
        /\ \A i \in DOMAIN avail : avail'[i] = avail[i] /\ avail[i] # c
    BY <1>2, <1>7 DEF Recycle, InList
  <2>2. \A d : InList(d)' <=> (d = c \/ InList(d))
    BY <2>1 DEF InList
  <2>3. InOnePlace'
    BY <1>1, <1>7, <2>2 DEF OInv, InOnePlace, Nowhere
  <2>4. ListedOnce'
    BY <2>1 DEF OInv, ListedOnce
  <2>5. Bounded'
    BY <1>2, <1>7, <2>1, TcpServerAssumption DEF Bounded
  <2>6. QED
    BY <1>3, <1>4, <1>5, <2>3, <2>4, <2>5 DEF OInv
<1>8. QED
  BY <1>6, <1>7

\* The call backs of closed handles preserve it.
LEMMA CloseCallbackStep ==
    ASSUME OInv, CloseCallback
    PROVE  OInv'
<1>1. ASSUME NEW id \in DOMAIN clients, SubClientClosed(id)
      PROVE  OInv'
  <2>1. CASE Hangs
    BY <2>1, PlaceFacts, StayStep DEF Hangs, lists, OInv, ListTypes, Bounded, Contexts
  <2>2. CASE /\ Recycle(clients[id]) /\ clients' = Drop(clients, id) /\ ids' = ids
    <3>1. /\ DOMAIN clients' = DOMAIN clients \ {id}
          /\ \A i \in DOMAIN clients' : clients'[i] = clients[i]
      BY <2>2 DEF Drop
    <3>2. \A d \in Contexts : Owned(d)' <=> (d # clients[id] /\ Owned(d))
      BY <3>1 DEF Owned, OInv, OwnedOnce
    <3>3. QED
      BY <2>2, <3>1, <3>2, ClientFacts, RecycleStep
  <2>3. QED
    BY <1>1, <2>1, <2>2 DEF SubClientClosed
<1>2. ASSUME NEW c \in Contexts, RecycleTcpHandle(c)
      PROVE  OInv'
  <2>1. ~InList(c) /\ ~Owned(c)
    BY <1>2 DEF RecycleTcpHandle, OInv, InOnePlace, Nowhere
  <2>2. Recycle(c) /\ UNCHANGED <<clients, ids>>
    BY <1>2 DEF RecycleTcpHandle
  <2>3. \A d \in Contexts : Owned(d)' <=> (d # c /\ Owned(d))
    BY <2>1, <2>2 DEF Owned
  <2>4. QED
    BY <2>1, <2>2, <2>3, RecycleStep
<1>3. QED
  BY <1>1, <1>2, AfterServerCloseStep DEF CloseCallback

-----------------------------------------------------------------------------

\* Every context is in one place, for lists of any length and any number of
\* connections, starts, closes and writes under way (the context that
\* AcceptConnection takes, its error branches, RecycleTcpHandle and
\* SubClientClosed).
THEOREM ContextsInOnePlace == Spec => []ContextsOwned
<1>1. Init => OInv
  <2>1. SUFFICES ASSUME Init PROVE OInv
    OBVIOUS
  <2>2. DOMAIN handle = {} /\ DOMAIN flying = {} /\ DOMAIN clients = {}
    BY <2>1 DEF Init
  <2>3. avail \in Seq(Contexts) /\ DOMAIN avail = {} /\ Len(avail) = 0
    BY <2>1 DEF Init
  <2>4. spare = 0 /\ ids = 0
    BY <2>1 DEF Init
  <2>5. Numbered
    <3>1. 1 .. 0 = {} /\ 0 \in Nat
      OBVIOUS
    <3>2. QED
      BY <2>2, <3>1 DEF Numbered, Contexts
  <2>6. ListTypes
    BY <2>2, <2>3, <2>4, <2>5 DEF ListTypes, Contexts
  <2>7. QED
    BY <2>2, <2>3, <2>4, <2>6, TcpServerAssumption
    DEF OInv, ListedOnce, OwnedOnce, InOnePlace, ClientsLive, Bounded, Contexts
<1>2. OInv /\ [Next]_vars => OInv'
  <2>1. SUFFICES ASSUME OInv, [Next]_vars PROVE OInv'
    OBVIOUS
  <2>2. CASE UNCHANGED lists
    BY <2>1, <2>2, PlaceFacts, StayStep DEF lists, OInv, ListTypes, Bounded, Contexts
  <2>3. CASE AcceptConnection
    BY <2>1, <2>2, <2>3, AcceptFailsStep, ReadStartFailsStep, AcceptsStep
    DEF AcceptConnection, Hangs
  <2>4. CASE \E id \in DOMAIN clients : AfterRecvEnd(id) \/ sendinl(id)
    BY <2>1, <2>4, ClientStep
  <2>5. CASE \E c \in Contexts : AfterSend(c)
    BY <2>1, <2>5, AfterSendStep
  <2>6. CASE AsyncCloseCB
    BY <2>1, <2>2, <2>6, closeinlStep DEF AsyncCloseCB
  <2>7. CASE CloseCallback
    BY <2>1, <2>7, CloseCallbackStep
  <2>8. QED
    BY <2>1, <2>2, <2>3, <2>4, <2>5, <2>6, <2>7
    DEF Next, vars, Start, Close, Polled, Iterate, ThreadEnds
<1>3. OInv => ContextsOwned
  <2>1. SUFFICES ASSUME OInv PROVE ContextsOwned
    OBVIOUS
  <2>2. ASSUME NEW c \in Contexts
        PROVE  /\ ~InList(c) => Places(c) = {}
               /\ ~Owned(c) => Owners(c) = {}
               /\ InList(c) => Cardinality(Places(c)) = 1
               /\ Owned(c) => Cardinality(Owners(c)) = 1
    <3>1. InList(c) => \E i : Places(c) = {i}
      BY <2>1 DEF OInv, ListedOnce, InList, Places
    <3>2. Owned(c) => \E id : Owners(c) = {id}
      BY <2>1 DEF OInv, OwnedOnce, Owned, Owners
    <3>3. QED
      BY <3>1, <3>2, FS_Singleton DEF InList, Owned, Places, Owners
  <2>3. ASSUME NEW c \in Contexts
        PROVE  /\ handle[c] \in Nowhere => Places(c) \cup Owners(c) = {}
               /\ handle[c] \notin Nowhere
                     => Cardinality(Places(c)) + Cardinality(Owners(c)) = 1
               /\ flying[c] > 0 => Owners(c) # {}
    <3>1. Cardinality({}) = 0
      BY FS_EmptySet
    <3>2. flying[c] > 0 => Owners(c) # {}
      BY <2>1 DEF OInv, InOnePlace, Owned, Owners
    <3>3. handle[c] \in Nowhere => Places(c) \cup Owners(c) = {}
      BY <2>1, <2>2 DEF OInv, InOnePlace
    <3>4. handle[c] \notin Nowhere
              => Cardinality(Places(c)) + Cardinality(Owners(c)) = 1
      BY <2>1, <2>2, <3>1 DEF OInv, InOnePlace
    <3>5. QED
      BY <3>2, <3>3, <3>4
  <2>4. QED
    BY <2>1, <2>3 DEF ContextsOwned, Nowhere, OInv, ClientsLive, Bounded
<1>4. QED
  BY <1>1, <1>2, <1>3, PTL DEF Spec

\* While nobody closes the server its loop thread neither waits for the client
\* lock for ever nor dies in uv_close: closeinl alone leaves with the lock and
\* closes handles that may be closing (CTCPServer::closeinl, SubClientClosed).
THEOREM HangsOnlyInClose == Spec => []HangsOnlyAfterClose
<1>1. Init => LInv
  BY DEF Init, LInv, HangsOnlyAfterClose, Hung
<1>2. LInv /\ [Next]_vars => LInv'
  <2>1. SUFFICES ASSUME LInv, [Next]_vars PROVE LInv'
    OBVIOUS
  <2>2. CASE Start
    BY <2>1, <2>2 DEF LInv, HangsOnlyAfterClose, Hung, Start
  <2>3. CASE Close
    BY <2>1, <2>3 DEF LInv, HangsOnlyAfterClose, Hung, Close
  <2>4. CASE AcceptConnection
    BY <2>1, <2>4
    DEF LInv, HangsOnlyAfterClose, Hung, AcceptConnection, AcceptFails,
        ReadStartFails, Accepts, Hangs, flags
  <2>5. CASE \E id \in DOMAIN clients : AfterRecvEnd(id) \/ sendinl(id)
    BY <2>1, <2>5
    DEF LInv, HangsOnlyAfterClose, Hung, AfterRecvEnd, sendinl, flags
  <2>6. CASE \E c \in Contexts : AfterSend(c)
    BY <2>1, <2>6 DEF LInv, HangsOnlyAfterClose, Hung, AfterSend, flags
  <2>7. CASE AsyncCloseCB
    <3>1. CASE asked /\ closeinl
      BY <2>1, <2>7, <3>1
      DEF LInv, HangsOnlyAfterClose, Hung, AsyncCloseCB, closeinl, Hangs, flags
    <3>2. CASE UNCHANGED <<loop, asked, locked>>
      BY <2>1, <2>7, <3>2 DEF LInv, HangsOnlyAfterClose, Hung, AsyncCloseCB
    <3>3. QED
      BY <2>7, <3>1, <3>2 DEF AsyncCloseCB
  <2>8. CASE Polled \/ Iterate \/ ThreadEnds
    BY <2>1, <2>8 DEF LInv, HangsOnlyAfterClose, Hung, Polled, Iterate, ThreadEnds
  <2>9. CASE CloseCallback
    BY <2>1, <2>9
    DEF LInv, HangsOnlyAfterClose, Hung, CloseCallback, SubClientClosed,
        RecycleTcpHandle, AfterServerClose, Hangs, flags
  <2>10. CASE UNCHANGED vars
    BY <2>1, <2>10 DEF LInv, HangsOnlyAfterClose, Hung, vars, flags
  <2>11. QED
    BY <2>1, <2>2, <2>3, <2>4, <2>5, <2>6, <2>7, <2>8, <2>9, <2>10 DEF Next
<1>3. LInv => HangsOnlyAfterClose
  BY DEF LInv
<1>4. QED
  BY <1>1, <1>2, <1>3, PTL DEF Spec

=============================================================================
