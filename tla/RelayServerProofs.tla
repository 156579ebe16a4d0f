------------------------- MODULE RelayServerProofs -------------------------
(***************************************************************************)
(* Proofs about the relay server.  First the media server alone, for any   *)
(* users, addresses and sessions: its state is well typed and its          *)
(* forwarding table is consistent; no step lets a user into the table, or  *)
(* moves it, without a verified login, keeps a phantom alive, or throws    *)
(* out a user whose login has not run out; and every step is one of the    *)
(* forwarding relation of ForwardGraph, or leaves it alone.  Then the      *)
(* signaling server: whatever it does to the media server is a step of the *)
(* media server or no step at all, so all of that carries over; and its    *)
(* bindings follow the open connections.                                   *)
(***************************************************************************)
EXTENDS RelayServer, FiniteSetTheorems, TLAPS


-----------------------------------------------------------------------------
(* Entries and tables.                                                     *)

\* A dataTo map is a function from some users to addresses.
LEMMA DataToMember ==
    ASSUME NEW f
    PROVE  f \in DataTo <=> /\ DOMAIN f \subseteq Users
                            /\ f \in [DOMAIN f -> AnyAddr]
BY DEF DataTo

\* Erasing a key leaves a dataTo map.
LEMMA EraseDataTo ==
    ASSUME NEW f \in DataTo, NEW u
    PROVE  /\ Erase(f, u) \in DataTo
           /\ DOMAIN Erase(f, u) = DOMAIN f \ {u}
           /\ \A d \in DOMAIN f \ {u} : Erase(f, u)[d] = f[d]
<1>1. /\ DOMAIN Erase(f, u) = DOMAIN f \ {u}
      /\ \A d \in DOMAIN f \ {u} : Erase(f, u)[d] = f[d]
      /\ Erase(f, u) = [d \in DOMAIN f \ {u} |-> f[d]]
  BY DEF Erase, Restrict
<1>2. Erase(f, u) \in [DOMAIN f \ {u} -> AnyAddr]
  BY <1>1, DataToMember
<1>3. QED
  BY <1>1, <1>2, DataToMember

\* The empty dataTo map.
LEMMA NobodyType == Nobody \in DataTo /\ DOMAIN Nobody = {}
BY DataToMember DEF Nobody

\* The entry operator[] makes.
LEMMA ZeroEntryType ==
    /\ ZeroEntry \in Entry
    /\ ZeroEntry.addr = NoAddr
    /\ ZeroEntry.expireIn = -1
    /\ DOMAIN ZeroEntry.dataTo = {}
    /\ ZeroEntry.dataFrom = {}
BY NobodyType, MediaAssumption DEF ZeroEntry, Entry, AnyAddr

\* Changing one field of an entry.
LEMMA SetDataTo ==
    ASSUME NEW e \in Entry, NEW f \in DataTo
    PROVE  LET n == [e EXCEPT !.dataTo = f]
           IN  /\ n \in Entry
               /\ n.addr = e.addr
               /\ n.sessionId = e.sessionId
               /\ n.expireIn = e.expireIn
               /\ n.dataFrom = e.dataFrom
               /\ n.dataTo = f
BY DEF Entry

\* An entry with other senders.
LEMMA SetDataFrom ==
    ASSUME NEW e \in Entry, NEW S \in SUBSET Users
    PROVE  LET n == [e EXCEPT !.dataFrom = S]
           IN  /\ n \in Entry
               /\ n.addr = e.addr
               /\ n.sessionId = e.sessionId
               /\ n.expireIn = e.expireIn
               /\ n.dataTo = e.dataTo
               /\ n.dataFrom = S
BY DEF Entry

\* An entry with another expiry.
LEMMA SetExpireIn ==
    ASSUME NEW e \in Entry, NEW i \in -1 .. Lifetime
    PROVE  LET n == [e EXCEPT !.expireIn = i]
           IN  /\ n \in Entry
               /\ n.addr = e.addr
               /\ n.sessionId = e.sessionId
               /\ n.dataTo = e.dataTo
               /\ n.dataFrom = e.dataFrom
               /\ n.expireIn = i
BY DEF Entry

\* The fields of an entry.
LEMMA EntryFields ==
    ASSUME NEW e \in Entry
    PROVE  /\ e.addr \in AnyAddr
           /\ e.sessionId \in Sessions \cup {NoSession}
           /\ e.expireIn \in -1 .. Lifetime
           /\ e.dataTo \in DataTo
           /\ e.dataFrom \in SUBSET Users
BY DEF Entry

\* What operator[] does to a table.
LEMMA TouchTable ==
    ASSUME NEW t, IsTable(t), NEW S \in SUBSET Users
    PROVE  /\ IsTable(Touch(t, S))
           /\ DOMAIN Touch(t, S) = DOMAIN t \cup S
           /\ \A x \in DOMAIN t : Touch(t, S)[x] = t[x]
           /\ \A x \in S \ DOMAIN t : Touch(t, S)[x] = ZeroEntry
BY ZeroEntryType DEF Touch, IsTable

\* r is t after u is erased from the dataTo of the users of S.
WithoutTo(t, S, u, r) ==
    /\ IsTable(r)
    /\ DOMAIN r = DOMAIN t
    /\ \A x \in DOMAIN t :
          /\ r[x].addr = t[x].addr
          /\ r[x].sessionId = t[x].sessionId
          /\ r[x].expireIn = t[x].expireIn
          /\ r[x].dataFrom = t[x].dataFrom
          /\ DOMAIN r[x].dataTo = IF x \in S THEN DOMAIN t[x].dataTo \ {u}
                                  ELSE DOMAIN t[x].dataTo
          /\ \A d \in DOMAIN r[x].dataTo : r[x].dataTo[d] = t[x].dataTo[d]

\* What EraseTo returns.
LEMMA EraseToTable ==
    ASSUME NEW t, IsTable(t), NEW S, NEW u
    PROVE  WithoutTo(t, S, u, EraseTo(t, S, u))
<1> DEFINE r == EraseTo(t, S, u)
<1>1. ASSUME NEW x \in DOMAIN t
      PROVE  /\ t[x] \in Entry
             /\ t[x].dataTo \in DataTo
             /\ Erase(t[x].dataTo, u) \in DataTo
             /\ DOMAIN Erase(t[x].dataTo, u) = DOMAIN t[x].dataTo \ {u}
             /\ \A d \in DOMAIN t[x].dataTo \ {u} :
                   Erase(t[x].dataTo, u)[d] = t[x].dataTo[d]
  <2>1. t[x] \in Entry
    BY DEF IsTable
  <2>2. t[x].dataTo \in DataTo
    BY <2>1, EntryFields
  <2>3. QED
    BY <2>1, <2>2, EraseDataTo, Zenon
<1>2. DOMAIN r = DOMAIN t
  BY DEF EraseTo
<1>3. ASSUME NEW x \in DOMAIN t
      PROVE  /\ r[x] \in Entry
             /\ r[x].addr = t[x].addr
             /\ r[x].sessionId = t[x].sessionId
             /\ r[x].expireIn = t[x].expireIn
             /\ r[x].dataFrom = t[x].dataFrom
             /\ DOMAIN r[x].dataTo = IF x \in S THEN DOMAIN t[x].dataTo \ {u}
                                     ELSE DOMAIN t[x].dataTo
             /\ \A d \in DOMAIN r[x].dataTo : r[x].dataTo[d] = t[x].dataTo[d]
  <2>1. CASE x \in S
    <3>1. r[x] = [t[x] EXCEPT !.dataTo = Erase(t[x].dataTo, u)]
      BY <2>1 DEF EraseTo
    <3> HIDE DEF r
    <3>2. t[x] \in Entry /\ Erase(t[x].dataTo, u) \in DataTo
      BY <1>1
    <3>3. /\ r[x] \in Entry
          /\ r[x].addr = t[x].addr
          /\ r[x].sessionId = t[x].sessionId
          /\ r[x].expireIn = t[x].expireIn
          /\ r[x].dataFrom = t[x].dataFrom
          /\ r[x].dataTo = Erase(t[x].dataTo, u)
      BY <3>1, <3>2, SetDataTo
    <3>4. QED
      BY <1>1, <2>1, <3>3
  <2>2. CASE x \notin S
    <3>1. r[x] = t[x]
      BY <2>2 DEF EraseTo
    <3>2. QED
      BY <1>1, <2>2, <3>1
  <2>3. QED
    BY <2>1, <2>2
<1>4. r \in [DOMAIN t -> Entry]
  BY <1>3 DEF EraseTo
<1> HIDE DEF r
<1>5. WithoutTo(t, S, u, r)
  BY <1>2, <1>3, <1>4 DEF WithoutTo, IsTable
<1>6. QED
  BY <1>5 DEF r

\* r is t after u is erased from the dataFrom of the users of S.
WithoutFrom(t, S, u, r) ==
    /\ IsTable(r)
    /\ DOMAIN r = DOMAIN t
    /\ \A x \in DOMAIN t :
          /\ r[x].addr = t[x].addr
          /\ r[x].sessionId = t[x].sessionId
          /\ r[x].expireIn = t[x].expireIn
          /\ r[x].dataTo = t[x].dataTo
          /\ r[x].dataFrom = IF x \in S THEN t[x].dataFrom \ {u}
                             ELSE t[x].dataFrom

\* What EraseFrom returns.
LEMMA EraseFromTable ==
    ASSUME NEW t, IsTable(t), NEW S, NEW u
    PROVE  WithoutFrom(t, S, u, EraseFrom(t, S, u))
<1> DEFINE r == EraseFrom(t, S, u)
<1>1. ASSUME NEW x \in DOMAIN t
      PROVE  t[x] \in Entry /\ t[x].dataFrom \ {u} \in SUBSET Users
  <2>1. t[x] \in Entry
    BY DEF IsTable
  <2>2. QED
    BY <2>1, EntryFields
<1>2. DOMAIN r = DOMAIN t
  BY DEF EraseFrom
<1>3. ASSUME NEW x \in DOMAIN t
      PROVE  /\ r[x] \in Entry
             /\ r[x].addr = t[x].addr
             /\ r[x].sessionId = t[x].sessionId
             /\ r[x].expireIn = t[x].expireIn
             /\ r[x].dataTo = t[x].dataTo
             /\ r[x].dataFrom = IF x \in S THEN t[x].dataFrom \ {u}
                                ELSE t[x].dataFrom
  <2>1. CASE x \in S
    <3>1. r[x] = [t[x] EXCEPT !.dataFrom = t[x].dataFrom \ {u}]
      BY <2>1 DEF EraseFrom
    <3> HIDE DEF r
    <3>2. QED
      BY <1>1, <2>1, <3>1, SetDataFrom
  <2>2. CASE x \notin S
    <3>1. r[x] = t[x]
      BY <2>2 DEF EraseFrom
    <3>2. QED
      BY <1>1, <2>2, <3>1
  <2>3. QED
    BY <2>1, <2>2
<1>4. r \in [DOMAIN t -> Entry]
  BY <1>3 DEF EraseFrom
<1> HIDE DEF r
<1>5. WithoutFrom(t, S, u, r)
  BY <1>2, <1>3, <1>4 DEF WithoutFrom, IsTable
<1>6. QED
  BY <1>5 DEF r

\* r is what is left of t when u is removed, erased from the dataTo of the
\* users of back and from the dataFrom of those of forth.
Leaves(t, u, back, forth, r) ==
    /\ IsTable(r)
    /\ DOMAIN r = DOMAIN t \ {u}
    /\ \A x \in DOMAIN r :
          /\ r[x].addr = t[x].addr
          /\ r[x].sessionId = t[x].sessionId
          /\ r[x].expireIn = t[x].expireIn
          /\ r[x].dataFrom = IF x \in forth THEN t[x].dataFrom \ {u}
                             ELSE t[x].dataFrom
          /\ DOMAIN r[x].dataTo = IF x \in back THEN DOMAIN t[x].dataTo \ {u}
                                  ELSE DOMAIN t[x].dataTo
          /\ \A d \in DOMAIN r[x].dataTo : r[x].dataTo[d] = t[x].dataTo[d]

\* What Removed returns.
LEMMA RemovedTable ==
    ASSUME NEW t, IsTable(t), NEW u, NEW back, NEW forth
    PROVE  /\ Leaves(t, u, back, forth, Removed(t, u, back, forth))
           /\ IsTable(Removed(t, u, back, forth))
<1> DEFINE t1 == EraseTo(t, back, u)
           t2 == EraseFrom(t1, forth, u)
           r  == Removed(t, u, back, forth)
<1>1. WithoutTo(t, back, u, t1)
  BY EraseToTable
<1>2. IsTable(t1)
  BY <1>1 DEF WithoutTo
<1>3. WithoutFrom(t1, forth, u, t2)
  <2> HIDE DEF t1
  <2> QED
    BY <1>2, EraseFromTable
<1>4. r = [x \in DOMAIN t2 \ {u} |-> t2[x]]
  BY DEF Removed, Erase, Restrict
<1> HIDE DEF t1, t2, r
<1>5. IsTable(r)
  BY <1>3, <1>4 DEF WithoutFrom, IsTable
<1>6. /\ DOMAIN t1 = DOMAIN t /\ DOMAIN t2 = DOMAIN t
      /\ DOMAIN r = DOMAIN t \ {u}
      /\ \A x \in DOMAIN r : r[x] = t2[x]
  BY <1>1, <1>3, <1>4 DEF WithoutTo, WithoutFrom
<1>7. ASSUME NEW x \in DOMAIN r
      PROVE  /\ r[x].addr = t[x].addr
             /\ r[x].sessionId = t[x].sessionId
             /\ r[x].expireIn = t[x].expireIn
             /\ r[x].dataFrom = IF x \in forth THEN t[x].dataFrom \ {u}
                                ELSE t[x].dataFrom
             /\ r[x].dataTo = t1[x].dataTo
  BY <1>1, <1>3, <1>6 DEF WithoutTo, WithoutFrom
<1>8. ASSUME NEW x \in DOMAIN r
      PROVE  /\ DOMAIN t1[x].dataTo = IF x \in back THEN DOMAIN t[x].dataTo \ {u}
                                      ELSE DOMAIN t[x].dataTo
             /\ \A d \in DOMAIN t1[x].dataTo : t1[x].dataTo[d] = t[x].dataTo[d]
  BY <1>1, <1>6 DEF WithoutTo
<1>9. Leaves(t, u, back, forth, r)
  BY <1>5, <1>6, <1>7, <1>8 DEF Leaves
<1>10. QED
  BY <1>5, <1>9 DEF r

\* operator[] links nobody.
LEMMA TouchConsistent ==
    ASSUME NEW t, IsTable(t), Consistent(t), NEW S \in SUBSET Users
    PROVE  Consistent(Touch(t, S))
<1> DEFINE r == Touch(t, S)
<1>1. /\ DOMAIN r = DOMAIN t \cup S
      /\ \A x \in DOMAIN t : r[x] = t[x]
      /\ \A x \in S \ DOMAIN t : r[x] = ZeroEntry
  BY TouchTable
<1> HIDE DEF r
<1>2. Consistent(r)
  BY <1>1, ZeroEntryType DEF Consistent
<1>3. QED
  BY <1>2 DEF r

\* Removing u is safe if everyone u hears from forgets u.
LEMMA RemovedConsistent ==
    ASSUME NEW t, IsTable(t), Consistent(t), NEW u \in DOMAIN t, NEW back,
           t[u].dataFrom \ {u} \subseteq back, NEW forth
    PROVE  Consistent(Removed(t, u, back, forth))
<1> DEFINE r == Removed(t, u, back, forth)
<1>1. Leaves(t, u, back, forth, r)
  BY RemovedTable
<1> HIDE DEF r
<1>2. SUFFICES ASSUME NEW s \in DOMAIN r, NEW d \in DOMAIN r[s].dataTo
               PROVE  /\ d \in DOMAIN r
                      /\ s \in r[d].dataFrom
                      /\ r[s].dataTo[d] = r[d].addr
  BY DEF Consistent, r
<1>3. /\ s \in DOMAIN t /\ s # u
      /\ d \in DOMAIN t[s].dataTo
  BY <1>1 DEF Leaves
<1>4. /\ d \in DOMAIN t
      /\ s \in t[d].dataFrom
      /\ t[s].dataTo[d] = t[d].addr
  BY <1>3 DEF Consistent
<1>5. d # u
  BY <1>1, <1>3, <1>4 DEF Leaves
<1>6. QED
  BY <1>1, <1>3, <1>4, <1>5 DEF Leaves

-----------------------------------------------------------------------------
(* What each handler makes of the table.                                   *)

\* The entry a verified login inserts.
LEMMA InsertTable ==
    ASSUME NEW t, IsTable(t), NEW u \in Users, NEW e \in Entry,
           DOMAIN e.dataTo = {}
    PROVE  /\ IsTable(Insert(t, u, e))
           /\ DOMAIN Insert(t, u, e) = DOMAIN t \cup {u}
           /\ \A x \in DOMAIN t : Insert(t, u, e)[x] = t[x]
           /\ u \notin DOMAIN t => Insert(t, u, e)[u] = e
           /\ Consistent(t) => Consistent(Insert(t, u, e))
<1> DEFINE r == Insert(t, u, e)
<1>1. /\ DOMAIN r = DOMAIN t \cup {u}
      /\ \A x \in DOMAIN t : r[x] = t[x]
      /\ u \notin DOMAIN t => r[u] = e
  BY DEF Insert
<1>2. IsTable(r)
  BY DEF Insert, IsTable
<1> HIDE DEF r
<1>3. Consistent(t) => Consistent(r)
  BY <1>1 DEF Consistent
<1>4. QED
  BY <1>1, <1>2, <1>3 DEF r

\* Changes to expireIn alone, of any entries.
LEMMA AgedTable ==
    ASSUME NEW t, IsTable(t), NEW r, IsTable(r), DOMAIN r = DOMAIN t,
           \A x \in DOMAIN t : /\ r[x].addr = t[x].addr
                               /\ r[x].dataTo = t[x].dataTo
                               /\ r[x].dataFrom = t[x].dataFrom,
           Consistent(t)
    PROVE  Consistent(r)
BY DEF Consistent

\* The refresh of a login.
LEMMA RefreshedTable ==
    ASSUME NEW t, IsTable(t), NEW u \in DOMAIN t
    PROVE  LET r == [t EXCEPT ![u].expireIn = Lifetime]
           IN  /\ IsTable(r)
               /\ DOMAIN r = DOMAIN t
               /\ \A x \in DOMAIN t : /\ r[x].addr = t[x].addr
                                      /\ r[x].sessionId = t[x].sessionId
                                      /\ r[x].dataTo = t[x].dataTo
                                      /\ r[x].dataFrom = t[x].dataFrom
                                      /\ x # u => r[x] = t[x]
               /\ Consistent(t) => Consistent(r)
<1> DEFINE r == [t EXCEPT ![u].expireIn = Lifetime]
           e == [t[u] EXCEPT !.expireIn = Lifetime]
<1>1. \A x \in DOMAIN t : t[x] \in Entry
  BY DEF IsTable
<1>2. Lifetime \in -1 .. Lifetime
  BY MediaAssumption
<1>3. /\ e \in Entry
      /\ e.addr = t[u].addr
      /\ e.sessionId = t[u].sessionId
      /\ e.dataTo = t[u].dataTo
      /\ e.dataFrom = t[u].dataFrom
  BY <1>1, <1>2, SetExpireIn
<1>4. /\ r = [x \in DOMAIN t |-> IF x = u THEN e ELSE t[x]]
      /\ DOMAIN r = DOMAIN t
      /\ r[u] = e
      /\ \A x \in DOMAIN t \ {u} : r[x] = t[x]
  BY DEF IsTable
<1> HIDE DEF e
<1>5. IsTable(r)
  BY <1>1, <1>3, <1>4 DEF IsTable
<1> HIDE DEF r
<1>6. \A x \in DOMAIN t : /\ r[x].addr = t[x].addr
                          /\ r[x].sessionId = t[x].sessionId
                          /\ r[x].dataTo = t[x].dataTo
                          /\ r[x].dataFrom = t[x].dataFrom
                          /\ x # u => r[x] = t[x]
  BY <1>3, <1>4
<1>7. Consistent(t) => Consistent(r)
  BY <1>4, <1>5, <1>6, AgedTable
<1>8. QED
  BY <1>4, <1>5, <1>6, <1>7 DEF r

\* A tick of the clock.
Aged(t) ==
    [u \in DOMAIN t |->
        [t[u] EXCEPT !.expireIn = IF @ < 0 THEN @ ELSE @ - 1]]

\* What Aged returns.
LEMMA TickTable ==
    ASSUME NEW t, IsTable(t)
    PROVE  /\ IsTable(Aged(t))
           /\ DOMAIN Aged(t) = DOMAIN t
           /\ \A x \in DOMAIN t :
                 /\ Aged(t)[x].addr = t[x].addr
                 /\ Aged(t)[x].sessionId = t[x].sessionId
                 /\ Aged(t)[x].dataTo = t[x].dataTo
                 /\ Aged(t)[x].dataFrom = t[x].dataFrom
                 /\ t[x].expireIn < 0 => Aged(t)[x].expireIn < 0
           /\ Consistent(t) => Consistent(Aged(t))
<1> DEFINE r == Aged(t)
<1>1. ASSUME NEW x \in DOMAIN t
      PROVE  /\ r[x] \in Entry
             /\ r[x].addr = t[x].addr
             /\ r[x].sessionId = t[x].sessionId
             /\ r[x].dataTo = t[x].dataTo
             /\ r[x].dataFrom = t[x].dataFrom
             /\ t[x].expireIn < 0 => r[x].expireIn < 0
  <2> DEFINE i == IF t[x].expireIn < 0 THEN t[x].expireIn ELSE t[x].expireIn - 1
  <2>1. t[x] \in Entry
    BY DEF IsTable
  <2>2. i \in -1 .. Lifetime /\ (t[x].expireIn < 0 => i < 0)
    BY <2>1, MediaAssumption, EntryFields
  <2>3. r[x] = [t[x] EXCEPT !.expireIn = i]
    BY DEF Aged
  <2> HIDE DEF i, r
  <2>4. QED
    BY <2>1, <2>2, <2>3, SetExpireIn
<1>2. DOMAIN r = DOMAIN t /\ r \in [DOMAIN t -> Entry]
  BY <1>1 DEF Aged
<1> HIDE DEF r
<1>3. IsTable(r)
  BY <1>2 DEF IsTable
<1>4. Consistent(t) => Consistent(r)
  BY <1>1, <1>2, <1>3, AgedTable
<1>5. QED
  BY <1>1, <1>2, <1>3, <1>4 DEF r

\* Leaving the room.
LeftRoom(t, u) ==
    [EraseTo(t, t[u].dataFrom, u) EXCEPT ![u].dataFrom = {}, ![u].dataTo = Nobody]

\* What LeftRoom returns.
LEMMA LeaveRoomTable ==
    ASSUME NEW t, IsTable(t), NEW u \in DOMAIN t
    PROVE  /\ IsTable(LeftRoom(t, u))
           /\ DOMAIN LeftRoom(t, u) = DOMAIN t
           /\ \A x \in DOMAIN t :
                 /\ LeftRoom(t, u)[x].addr = t[x].addr
                 /\ LeftRoom(t, u)[x].sessionId = t[x].sessionId
                 /\ LeftRoom(t, u)[x].expireIn = t[x].expireIn
                 /\ x # u => \A d :
                       d \in DOMAIN LeftRoom(t, u)[x].dataTo
                       <=> /\ d \in DOMAIN t[x].dataTo
                           /\ ~(d = u /\ x \in t[u].dataFrom)
           /\ DOMAIN LeftRoom(t, u)[u].dataTo = {}
           /\ Consistent(t) => Consistent(LeftRoom(t, u))
<1> DEFINE t1 == EraseTo(t, t[u].dataFrom, u)
           e1 == [t1[u] EXCEPT !.dataFrom = {}]
           e2 == [e1 EXCEPT !.dataTo = Nobody]
           r  == LeftRoom(t, u)
<1>1. WithoutTo(t, t[u].dataFrom, u, t1)
  BY EraseToTable
<1>2. DOMAIN t1 = DOMAIN t /\ \A x \in DOMAIN t : t1[x] \in Entry
  BY <1>1 DEF WithoutTo, IsTable
<1>3. /\ r = [x \in DOMAIN t1 |-> IF x = u THEN e2 ELSE t1[x]]
      /\ DOMAIN r = DOMAIN t1
  BY <1>2 DEF LeftRoom
<1> HIDE DEF t1, r
<1>4. /\ e1 \in Entry
      /\ e1.addr = t1[u].addr
      /\ e1.sessionId = t1[u].sessionId
      /\ e1.expireIn = t1[u].expireIn
      /\ e1.dataFrom = {}
  BY <1>2, SetDataFrom
<1> HIDE DEF e1
<1>5. /\ e2 \in Entry
      /\ e2.addr = t1[u].addr
      /\ e2.sessionId = t1[u].sessionId
      /\ e2.expireIn = t1[u].expireIn
      /\ e2.dataFrom = {}
      /\ DOMAIN e2.dataTo = {}
  BY <1>4, SetDataTo, NobodyType
<1> HIDE DEF e2
<1>6. IsTable(r)
  BY <1>1, <1>2, <1>3, <1>5 DEF IsTable, WithoutTo
<1>7. /\ \A x \in DOMAIN t :
            /\ r[x].addr = t[x].addr
            /\ r[x].sessionId = t[x].sessionId
            /\ r[x].expireIn = t[x].expireIn
            /\ x # u => \A d : d \in DOMAIN r[x].dataTo
                               <=> /\ d \in DOMAIN t[x].dataTo
                                   /\ ~(d = u /\ x \in t[u].dataFrom)
      /\ DOMAIN r[u].dataTo = {}
  <2>1. r[u] = e2
    BY <1>2, <1>3
  <2>2. \A x \in DOMAIN t \ {u} : r[x] = t1[x]
    BY <1>2, <1>3
  <2>3. ASSUME NEW x \in DOMAIN t \ {u}
        PROVE  /\ r[x].addr = t[x].addr
               /\ r[x].sessionId = t[x].sessionId
               /\ r[x].expireIn = t[x].expireIn
               /\ \A d : d \in DOMAIN r[x].dataTo
                         <=> /\ d \in DOMAIN t[x].dataTo
                             /\ ~(d = u /\ x \in t[u].dataFrom)
    BY <1>1, <2>2 DEF WithoutTo
  <2>4. /\ r[u].addr = t[u].addr
        /\ r[u].sessionId = t[u].sessionId
        /\ r[u].expireIn = t[u].expireIn
        /\ DOMAIN r[u].dataTo = {}
    BY <1>1, <1>5, <2>1 DEF WithoutTo
  <2>5. QED
    BY <2>3, <2>4
<1>8. ASSUME Consistent(t) PROVE Consistent(r)
  <2>1. SUFFICES ASSUME NEW s \in DOMAIN r, NEW d \in DOMAIN r[s].dataTo
                 PROVE  /\ d \in DOMAIN r
                        /\ s \in r[d].dataFrom
                        /\ r[s].dataTo[d] = r[d].addr
    BY DEF Consistent
  <2>2. s # u /\ s \in DOMAIN t /\ d \in DOMAIN t[s].dataTo
    BY <1>2, <1>3, <1>7
  <2>3. /\ d \in DOMAIN t
        /\ s \in t[d].dataFrom
        /\ t[s].dataTo[d] = t[d].addr
    BY <1>8, <2>2 DEF Consistent
  <2>4. d # u
    BY <1>7, <2>2, <2>3
  <2>5. r[s] = t1[s] /\ r[d] = t1[d]
    BY <1>2, <1>3, <2>2, <2>3, <2>4
  <2>6. QED
    BY <1>1, <1>2, <1>3, <2>2, <2>3, <2>5 DEF WithoutTo
<1>9. QED
  BY <1>2, <1>3, <1>6, <1>7, <1>8 DEF r

\* Linking src to dst.
LEMMA AddForwardTable ==
    ASSUME NEW src \in DOMAIN table, NEW dst \in DOMAIN table, IsTable(table)
    PROVE  /\ IsTable(AddForward(src, dst))
           /\ DOMAIN AddForward(src, dst) = DOMAIN table
           /\ \A x \in DOMAIN table :
                 /\ AddForward(src, dst)[x].addr = table[x].addr
                 /\ AddForward(src, dst)[x].sessionId = table[x].sessionId
                 /\ AddForward(src, dst)[x].expireIn = table[x].expireIn
                 /\ \A d : d \in DOMAIN AddForward(src, dst)[x].dataTo
                           <=> \/ d \in DOMAIN table[x].dataTo
                               \/ x = src /\ d = dst
           /\ Consistent(table) => Consistent(AddForward(src, dst))
<1> DEFINE f  == [x \in DOMAIN table[src].dataTo \cup {dst} |->
                     IF x = dst THEN table[dst].addr ELSE table[src].dataTo[x]]
           e1 == [table[src] EXCEPT !.dataTo = f]
           t1 == [table EXCEPT ![src] = e1]
           e2 == [t1[dst] EXCEPT !.dataFrom = t1[dst].dataFrom \cup {src}]
           r  == AddForward(src, dst)
<1>1. /\ src \in Users /\ dst \in Users
      /\ \A x \in DOMAIN table : table[x] \in Entry
  BY DEF IsTable
<1>2. /\ table[src].dataTo \in DataTo
      /\ table[dst].addr \in AnyAddr
  BY <1>1, EntryFields
<1>3. f \in DataTo
  <2>1. /\ DOMAIN table[src].dataTo \subseteq Users
        /\ table[src].dataTo \in [DOMAIN table[src].dataTo -> AnyAddr]
    BY <1>2, DataToMember
  <2>2. /\ DOMAIN f = DOMAIN table[src].dataTo \cup {dst}
        /\ f \in [DOMAIN f -> AnyAddr]
    BY <1>2, <2>1
  <2>3. DOMAIN f \subseteq Users
    BY <1>1, <2>1, <2>2
  <2> HIDE DEF f
  <2>4. QED
    BY <2>2, <2>3, DataToMember
<1>4. r = [t1 EXCEPT ![dst] = e2]
  BY <1>1 DEF AddForward, IsTable
<1>5. /\ DOMAIN f = DOMAIN table[src].dataTo \cup {dst}
      /\ f[dst] = table[dst].addr
      /\ \A x \in DOMAIN table[src].dataTo \ {dst} : f[x] = table[src].dataTo[x]
  OBVIOUS
<1> HIDE DEF f, r
<1>6. /\ e1 \in Entry
      /\ e1.addr = table[src].addr
      /\ e1.sessionId = table[src].sessionId
      /\ e1.expireIn = table[src].expireIn
      /\ e1.dataFrom = table[src].dataFrom
      /\ e1.dataTo = f
  BY <1>1, <1>3, SetDataTo
<1> HIDE DEF e1
<1>7. /\ t1 = [x \in DOMAIN table |-> IF x = src THEN e1 ELSE table[x]]
      /\ DOMAIN t1 = DOMAIN table
      /\ \A x \in DOMAIN table : t1[x] \in Entry
  BY <1>1, <1>6 DEF IsTable
<1> HIDE DEF t1
<1>8. t1[dst].dataFrom \cup {src} \in SUBSET Users
  BY <1>1, <1>7, EntryFields
<1>9. /\ e2 \in Entry
      /\ e2.addr = t1[dst].addr
      /\ e2.sessionId = t1[dst].sessionId
      /\ e2.expireIn = t1[dst].expireIn
      /\ e2.dataTo = t1[dst].dataTo
      /\ e2.dataFrom = t1[dst].dataFrom \cup {src}
  BY <1>7, <1>8, SetDataFrom
<1> HIDE DEF e2
<1>10. /\ r = [x \in DOMAIN table |-> IF x = dst THEN e2 ELSE t1[x]]
       /\ DOMAIN r = DOMAIN table
  BY <1>4, <1>7
<1>11. IsTable(r)
  BY <1>7, <1>9, <1>10 DEF IsTable
<1>12. \A x \in DOMAIN table :
          /\ r[x].addr = table[x].addr
          /\ r[x].sessionId = table[x].sessionId
          /\ r[x].expireIn = table[x].expireIn
          /\ r[x].dataTo = IF x = src THEN f ELSE table[x].dataTo
          /\ r[x].dataFrom = IF x = dst THEN table[x].dataFrom \cup {src}
                             ELSE table[x].dataFrom
  BY <1>6, <1>7, <1>9, <1>10
<1>13. ASSUME Consistent(table) PROVE Consistent(r)
  <2>1. SUFFICES ASSUME NEW s \in DOMAIN r, NEW d \in DOMAIN r[s].dataTo
                 PROVE  /\ d \in DOMAIN r
                        /\ s \in r[d].dataFrom
                        /\ r[s].dataTo[d] = r[d].addr
    BY DEF Consistent
  <2>2. CASE s = src /\ d = dst
    BY <1>5, <1>10, <1>12, <2>2
  <2>3. CASE ~(s = src /\ d = dst)
    <3>1. /\ s \in DOMAIN table
          /\ d \in DOMAIN table[s].dataTo
          /\ r[s].dataTo[d] = table[s].dataTo[d]
      <4>1. CASE s = src
        <5>1. r[s].dataTo = f /\ d # dst
          BY <1>10, <1>12, <2>3, <4>1
        <5>2. QED
          BY <1>5, <4>1, <5>1
      <4>2. CASE s # src
        BY <1>10, <1>12, <4>2
      <4>3. QED
        BY <4>1, <4>2
    <3>2. /\ d \in DOMAIN table
          /\ s \in table[d].dataFrom
          /\ table[s].dataTo[d] = table[d].addr
      BY <1>13, <3>1 DEF Consistent
    <3>3. QED
      BY <1>10, <1>12, <3>1, <3>2
  <2>4. QED
    BY <2>2, <2>3
<1>14. ASSUME NEW x \in DOMAIN table
       PROVE  \A d : d \in DOMAIN r[x].dataTo
                     <=> d \in DOMAIN table[x].dataTo \/ (x = src /\ d = dst)
  <2>1. CASE x = src
    <3>1. r[x].dataTo = f
      BY <1>12, <2>1
    <3>2. QED
      BY <1>5, <2>1, <3>1
  <2>2. CASE x # src
    BY <1>12, <2>2
  <2>3. QED
    BY <2>1, <2>2
<1>15. QED
  BY <1>10, <1>11, <1>12, <1>13, <1>14 DEF r

\* Unlinking src from dst.
LEMMA DelForwardTable ==
    ASSUME NEW src \in DOMAIN table, NEW dst \in DOMAIN table, IsTable(table)
    PROVE  /\ IsTable(DelForward(src, dst))
           /\ DOMAIN DelForward(src, dst) = DOMAIN table
           /\ \A x \in DOMAIN table :
                 /\ DelForward(src, dst)[x].addr = table[x].addr
                 /\ DelForward(src, dst)[x].sessionId = table[x].sessionId
                 /\ DelForward(src, dst)[x].expireIn = table[x].expireIn
                 /\ \A d : d \in DOMAIN DelForward(src, dst)[x].dataTo
                           <=> /\ d \in DOMAIN table[x].dataTo
                               /\ ~(x = src /\ d = dst)
           /\ Consistent(table) => Consistent(DelForward(src, dst))
<1> DEFINE t1 == EraseTo(table, {src}, dst)
           r  == DelForward(src, dst)
<1>1. WithoutTo(table, {src}, dst, t1)
  BY EraseToTable
<1>2. IsTable(t1)
  BY <1>1 DEF WithoutTo
<1>3. WithoutFrom(t1, {dst}, src, r)
  <2>1. r = EraseFrom(t1, {dst}, src)
    BY DEF DelForward
  <2> HIDE DEF t1, r
  <2>2. QED
    BY <1>2, <2>1, EraseFromTable
<1> HIDE DEF t1, r
<1>4. /\ IsTable(r)
      /\ DOMAIN r = DOMAIN table
      /\ \A x \in DOMAIN table :
            /\ r[x].addr = table[x].addr
            /\ r[x].sessionId = table[x].sessionId
            /\ r[x].expireIn = table[x].expireIn
            /\ \A d : d \in DOMAIN r[x].dataTo
                      <=> d \in DOMAIN table[x].dataTo /\ ~(x = src /\ d = dst)
            /\ \A d \in DOMAIN r[x].dataTo : r[x].dataTo[d] = table[x].dataTo[d]
            /\ r[x].dataFrom = IF x = dst THEN table[x].dataFrom \ {src}
                               ELSE table[x].dataFrom
  <2>1. ASSUME NEW x \in DOMAIN table
        PROVE  /\ r[x].addr = t1[x].addr
               /\ r[x].sessionId = t1[x].sessionId
               /\ r[x].expireIn = t1[x].expireIn
               /\ r[x].dataTo = t1[x].dataTo
               /\ t1[x].addr = table[x].addr
               /\ t1[x].sessionId = table[x].sessionId
               /\ t1[x].expireIn = table[x].expireIn
               /\ DOMAIN t1[x].dataTo = IF x = src
                                        THEN DOMAIN table[x].dataTo \ {dst}
                                        ELSE DOMAIN table[x].dataTo
               /\ \A d \in DOMAIN t1[x].dataTo :
                     t1[x].dataTo[d] = table[x].dataTo[d]
    BY <1>1, <1>3 DEF WithoutTo, WithoutFrom
  <2>2. ASSUME NEW x \in DOMAIN table
        PROVE  r[x].dataFrom = IF x = dst THEN table[x].dataFrom \ {src}
                               ELSE table[x].dataFrom
    BY <1>1, <1>3 DEF WithoutTo, WithoutFrom
  <2>3. IsTable(r) /\ DOMAIN r = DOMAIN table
    BY <1>1, <1>3 DEF WithoutTo, WithoutFrom
  <2>4. ASSUME NEW x \in DOMAIN table
        PROVE  /\ \A d : d \in DOMAIN r[x].dataTo
                         <=> /\ d \in DOMAIN table[x].dataTo
                             /\ ~(x = src /\ d = dst)
               /\ \A d \in DOMAIN r[x].dataTo :
                     r[x].dataTo[d] = table[x].dataTo[d]
    <3>1. r[x].dataTo = t1[x].dataTo
      BY <2>1
    <3>2. DOMAIN t1[x].dataTo = IF x = src
                                THEN DOMAIN table[x].dataTo \ {dst}
                                ELSE DOMAIN table[x].dataTo
      BY <2>1
    <3>3. \A d \in DOMAIN t1[x].dataTo : t1[x].dataTo[d] = table[x].dataTo[d]
      BY <2>1
    <3>4. QED
      BY <3>1, <3>2, <3>3
  <2>5. \A x \in DOMAIN table : /\ r[x].addr = table[x].addr
                                /\ r[x].sessionId = table[x].sessionId
                                /\ r[x].expireIn = table[x].expireIn
    BY <2>1
  <2>6. QED
    BY <2>2, <2>3, <2>4, <2>5
<1>5. ASSUME Consistent(table) PROVE Consistent(r)
  <2>1. SUFFICES ASSUME NEW s \in DOMAIN r, NEW d \in DOMAIN r[s].dataTo
                 PROVE  /\ d \in DOMAIN r
                        /\ s \in r[d].dataFrom
                        /\ r[s].dataTo[d] = r[d].addr
    BY DEF Consistent
  <2>2. /\ s \in DOMAIN table
        /\ d \in DOMAIN table[s].dataTo
        /\ ~(s = src /\ d = dst)
        /\ r[s].dataTo[d] = table[s].dataTo[d]
    BY <1>4
  <2>3. /\ d \in DOMAIN table
        /\ s \in table[d].dataFrom
        /\ table[s].dataTo[d] = table[d].addr
    BY <1>5, <2>2 DEF Consistent
  <2>4. QED
    BY <1>4, <2>2, <2>3
<1>6. QED
  BY <1>4, <1>5 DEF r

-----------------------------------------------------------------------------
(* The invariant.                                                          *)

\* What the handlers keep: the state is well typed and the table consistent.
IInv == TypeOK /\ ForwardConsistent

\* A set of users has a size.
LEMMA TableSize ==
    ASSUME NEW t, IsTable(t)
    PROVE  Cardinality(DOMAIN t) \in Nat
BY FS_Subset, FS_CardinalityType, MediaAssumption DEF IsTable

\* The table grows to a number of entries.
LEMMA GrowType ==
    ASSUME NEW n \in Nat, capacity \in Nat
    PROVE  Grow(n) \in Nat
BY MediaAssumption DEF Grow

\* A login that is queued or dropped keeps the table of logins in flight.
LEMMA QueueType ==
    ASSUME DOMAIN verifying \subseteq Works,
           verifying \in [DOMAIN verifying -> Login],
           NEW m \in Login, NEW w \in Works
    PROVE  LET v == [x \in DOMAIN verifying \cup {w} |->
                        IF x = w THEN m ELSE verifying[x]]
           IN  DOMAIN v \subseteq Works /\ v \in [DOMAIN v -> Login]
OBVIOUS

\* A verification that has ended leaves the others.
LEMMA UnqueueType ==
    ASSUME DOMAIN verifying \subseteq Works,
           verifying \in [DOMAIN verifying -> Login], NEW w
    PROVE  /\ DOMAIN Erase(verifying, w) \subseteq Works
           /\ Erase(verifying, w) \in [DOMAIN Erase(verifying, w) -> Login]
BY DEF Erase, Restrict

\* The invariant holds of an empty table.
LEMMA InitIInv == Init => IInv
BY MediaAssumption
   DEF Init, IInv, TypeOK, IsTable, ForwardConsistent, Consistent

\* A login preserves the invariant.
LEMMA OnRecvLoginMsgIInv ==
    ASSUME IInv, NEW m \in Login, OnRecvLoginMsg(m)
    PROVE  IInv'
<1> USE DEF OnRecvLoginMsg
<1>1. CASE NeedsVerification(m)
  <2>1. PICK w \in Works :
           verifying' = [x \in DOMAIN verifying \cup {w} |->
                            IF x = w THEN m ELSE verifying[x]]
    BY <1>1
  <2>2. /\ DOMAIN verifying' \subseteq Works
        /\ verifying' \in [DOMAIN verifying' -> Login]
    BY <2>1, QueueType DEF IInv, TypeOK
  <2>3. UNCHANGED <<table, capacity, unvisited, sweepIn>> /\ out' = {}
    BY <1>1
  <2>4. QED
    BY <2>2, <2>3 DEF IInv, TypeOK, ForwardConsistent
<1>2. CASE ~NeedsVerification(m)
  <2>1. /\ m.user \in DOMAIN table /\ m.addr \in AnyAddr
    BY <1>2 DEF NeedsVerification, Login, AnyAddr
  <2>2. /\ table' = [table EXCEPT ![m.user].expireIn = Lifetime]
        /\ out' = {Ack("ACK_LOGIN", m.addr)}
        /\ unvisited' = {}
        /\ UNCHANGED <<capacity, verifying, sweepIn>>
    BY <1>2 DEF Idle
  <2>3. IsTable(table) /\ Consistent(table)
    BY DEF IInv, TypeOK, ForwardConsistent
  <2>4. IsTable(table') /\ Consistent(table')
    BY <2>1, <2>2, <2>3, RefreshedTable
  <2>5. out' \subseteq Datagram
    BY <2>1, <2>2 DEF Ack, Datagram
  <2>6. QED
    BY <2>2, <2>4, <2>5 DEF IInv, TypeOK, ForwardConsistent
<1>3. QED
  BY <1>1, <1>2

\* The answer of a verification preserves it.
LEMMA AfterVerificationIInv ==
    ASSUME IInv, NEW w \in Works, AfterVerification(w)
    PROVE  IInv'
<1> DEFINE m == verifying[w]
           e == [addr      |-> m.addr,
                 sessionId |-> m.sessionId,
                 expireIn  |-> Lifetime,
                 dataTo    |-> Nobody,
                 dataFrom  |-> {}]
<1>1. /\ verifying' = Erase(verifying, w)
      /\ w \in DOMAIN verifying
      /\ unvisited' = {}
      /\ UNCHANGED sweepIn
  BY DEF AfterVerification, Idle
<1>2. m \in Login
  BY <1>1 DEF IInv, TypeOK
<1>3. /\ DOMAIN verifying' \subseteq Works
      /\ verifying' \in [DOMAIN verifying' -> Login]
  BY <1>1, UnqueueType DEF IInv, TypeOK
<1>4. IsTable(table) /\ Consistent(table) /\ capacity \in Nat
  BY DEF IInv, TypeOK, ForwardConsistent
<1>5. CASE OnUpdateLoginInfo(m)
  <2>1. /\ out' = {Ack("ACK_LOGIN", m.addr)}
        /\ table' = Insert(table, m.user, e)
        /\ capacity' = Grow(Cardinality(DOMAIN table'))
    BY <1>5 DEF OnUpdateLoginInfo
  <2>2. m.user \in Users /\ m.addr \in AnyAddr /\ m.sessionId \in Sessions
    BY <1>2 DEF Login, AnyAddr
  <2>3. e \in Entry /\ DOMAIN e.dataTo = {}
    BY <2>2, NobodyType, MediaAssumption DEF Entry
  <2> HIDE DEF m, e
  <2>4. IsTable(table') /\ Consistent(table')
    BY <1>4, <2>1, <2>2, <2>3, InsertTable
  <2>5. capacity' \in Nat
    BY <1>4, <2>1, <2>4, TableSize, GrowType
  <2>6. out' \subseteq Datagram
    BY <2>1, <2>2 DEF Ack, Datagram
  <2>7. QED
    BY <1>1, <1>3, <2>4, <2>5, <2>6 DEF IInv, TypeOK, ForwardConsistent
<1>6. CASE out' = {} /\ UNCHANGED <<table, capacity>>
  BY <1>1, <1>3, <1>6 DEF IInv, TypeOK, ForwardConsistent
<1>7. QED
  BY <1>5, <1>6 DEF AfterVerification

\* A UDP logout preserves it.
LEMMA OnRecvLogoutMsgIInv ==
    ASSUME IInv, NEW u \in Users, NEW a \in Addrs, OnRecvLogoutMsg(u, a)
    PROVE  IInv'
<1>1. /\ out' = {Ack("ACK_LOGOUT", a)}
      /\ unvisited' = {}
      /\ UNCHANGED <<verifying, sweepIn>>
  BY DEF OnRecvLogoutMsg, Idle
<1>2. out' \subseteq Datagram
  BY <1>1 DEF Ack, Datagram, AnyAddr
<1>3. IsTable(table) /\ Consistent(table) /\ capacity \in Nat
  BY DEF IInv, TypeOK, ForwardConsistent
<1>4. CASE u \notin DOMAIN table
  BY <1>1, <1>2, <1>4 DEF IInv, TypeOK, ForwardConsistent, OnRecvLogoutMsg
<1>5. CASE u \in DOMAIN table
  <2> DEFINE from    == table[u].dataFrom
             touched == Touch(table, from)
  <2>1. /\ table' = Removed(touched, u, from, {})
        /\ capacity' = Grow(Cardinality(DOMAIN touched))
    BY <1>5 DEF OnRecvLogoutMsg
  <2>2. from \in SUBSET Users
    BY <1>3, <1>5, EntryFields DEF IsTable
  <2>3. /\ IsTable(touched) /\ Consistent(touched)
        /\ u \in DOMAIN touched /\ touched[u] = table[u]
    <3>1. Consistent(touched)
      BY <1>3, <2>2, TouchConsistent
    <3>2. /\ IsTable(touched)
          /\ DOMAIN touched = DOMAIN table \cup from
          /\ \A x \in DOMAIN table : touched[x] = table[x]
      <4> HIDE DEF from
      <4> QED
        BY <1>3, <2>2, TouchTable
    <3>3. QED
      BY <1>5, <3>1, <3>2
  <2> HIDE DEF touched
  <2>4. IsTable(table')
    BY <2>1, <2>3, RemovedTable
  <2>5. Consistent(table')
    <3>1. touched[u].dataFrom \ {u} \subseteq from
      BY <2>3
    <3>2. QED
      BY <2>1, <2>3, <3>1, RemovedConsistent
  <2>6. capacity' \in Nat
    BY <1>3, <2>1, <2>3, TableSize, GrowType
  <2>7. QED
    BY <1>1, <1>2, <2>4, <2>5, <2>6 DEF IInv, TypeOK, ForwardConsistent
<1>6. QED
  BY <1>4, <1>5

\* A logout by the signaling server preserves it.
LEMMA OnLogoutIInv ==
    ASSUME IInv, NEW u \in Users, OnLogout(u)
    PROVE  IInv'
<1>1. /\ out' = {} /\ unvisited' = {}
      /\ UNCHANGED <<capacity, verifying, sweepIn>>
  BY DEF OnLogout, Idle
<1>2. IsTable(table) /\ Consistent(table)
  BY DEF IInv, TypeOK, ForwardConsistent
<1>3. IsTable(table') /\ Consistent(table')
  <2>1. CASE u \notin DOMAIN table
    BY <1>2, <2>1 DEF OnLogout
  <2>2. CASE u \in DOMAIN table
    <3>1. table' = Removed(table, u, table[u].dataFrom \ {u},
                           DOMAIN table[u].dataTo \ {u})
      BY <2>2 DEF OnLogout
    <3>2. IsTable(table')
      BY <1>2, <3>1, RemovedTable
    <3>3. QED
      BY <1>2, <2>2, <3>1, <3>2, RemovedConsistent
  <2>3. QED
    BY <2>1, <2>2
<1>4. QED
  BY <1>1, <1>3 DEF IInv, TypeOK, ForwardConsistent

\* Leaving the room preserves it.
LEMMA OnReqLeaveRoomIInv ==
    ASSUME IInv, NEW u \in Users, OnReqLeaveRoom(u)
    PROVE  IInv'
<1>1. /\ out' = {} /\ unvisited' = {}
      /\ UNCHANGED <<capacity, verifying, sweepIn>>
  BY DEF OnReqLeaveRoom, Idle
<1>2. IsTable(table) /\ Consistent(table)
  BY DEF IInv, TypeOK, ForwardConsistent
<1>3. IsTable(table') /\ Consistent(table')
  <2>1. CASE u \notin DOMAIN table
    BY <1>2, <2>1 DEF OnReqLeaveRoom
  <2>2. CASE u \in DOMAIN table
    <3>1. table' = LeftRoom(table, u)
      BY <2>2 DEF OnReqLeaveRoom, LeftRoom
    <3>2. QED
      BY <1>2, <2>2, <3>1, LeaveRoomTable
  <2>3. QED
    BY <2>1, <2>2
<1>4. QED
  BY <1>1, <1>3 DEF IInv, TypeOK, ForwardConsistent

\* A change of a forward preserves it.
LEMMA OnReqUpdateForwardTableIInv ==
    ASSUME IInv, NEW src \in Users, NEW dst \in Users, NEW add \in BOOLEAN,
           OnReqUpdateForwardTable(src, dst, add)
    PROVE  IInv'
<1>1. /\ out' = {} /\ unvisited' = {}
      /\ UNCHANGED <<capacity, verifying, sweepIn>>
  BY DEF OnReqUpdateForwardTable, Idle
<1>2. IsTable(table) /\ Consistent(table)
  BY DEF IInv, TypeOK, ForwardConsistent
<1>3. IsTable(table') /\ Consistent(table')
  <2>1. CASE ~({src, dst} \subseteq DOMAIN table)
    BY <1>2, <2>1 DEF OnReqUpdateForwardTable
  <2>2. CASE {src, dst} \subseteq DOMAIN table
    <3>1. \/ table' = AddForward(src, dst)
          \/ table' = DelForward(src, dst)
      BY <2>2 DEF OnReqUpdateForwardTable
    <3>2. src \in DOMAIN table /\ dst \in DOMAIN table
      BY <2>2
    <3>3. QED
      BY <1>2, <3>1, <3>2, AddForwardTable, DelForwardTable
  <2>3. QED
    BY <2>1, <2>2
<1>4. QED
  BY <1>1, <1>3 DEF IInv, TypeOK, ForwardConsistent

\* Media changes no table.
LEMMA ForwardMsgIInv ==
    ASSUME IInv, NEW u \in Users,
           OnRecvSingleForwardMsg(u) \/ OnRecvMultiForwardMsg(u)
    PROVE  IInv'
<1>1. UNCHANGED <<table, capacity, verifying, unvisited, sweepIn>>
  BY DEF OnRecvSingleForwardMsg, OnRecvMultiForwardMsg
<1>2. ASSUME NEW s \in DOMAIN table
      PROVE  table[s].addr \in AnyAddr /\ Range(table[s].dataTo) \subseteq AnyAddr
  <2>1. table[s] \in Entry
    BY DEF IInv, TypeOK, IsTable
  <2>2. table[s].addr \in AnyAddr /\ table[s].dataTo \in DataTo
    BY <2>1, EntryFields
  <2>3. table[s].dataTo \in [DOMAIN table[s].dataTo -> AnyAddr]
    BY <2>2, DataToMember
  <2>4. QED
    BY <2>2, <2>3 DEF Range
<1>3. out' \subseteq Datagram
  <2>1. CASE OnRecvSingleForwardMsg(u)
    BY <1>2, <2>1 DEF OnRecvSingleForwardMsg, Media, Datagram
  <2>2. CASE OnRecvMultiForwardMsg(u)
    BY <1>2, <2>2 DEF OnRecvMultiForwardMsg, Media, Datagram
  <2>3. QED
    BY <2>1, <2>2
<1>4. QED
  BY <1>1, <1>3 DEF IInv, TypeOK, ForwardConsistent

\* A question for an address changes no table.
LEMMA OnReqP2PAddrIInv ==
    ASSUME IInv, NEW u \in Users, OnReqP2PAddr(u)
    PROVE  IInv'
BY DEF OnReqP2PAddr, IInv, TypeOK, ForwardConsistent

\* Time preserves it.
LEMMA TickIInv ==
    ASSUME IInv, Tick
    PROVE  IInv'
<1>1. /\ table' = Aged(table) /\ out' = {}
      /\ sweepIn' \in 0 .. Timeout
      /\ unvisited' = {}
      /\ UNCHANGED <<capacity, verifying>>
  BY MediaAssumption DEF Tick, Aged, Idle, IInv, TypeOK
<1>2. IsTable(table') /\ Consistent(table')
  BY <1>1, TickTable DEF IInv, TypeOK, ForwardConsistent
<1>3. QED
  BY <1>1, <1>2 DEF IInv, TypeOK, ForwardConsistent

\* The beginning of a sweep preserves it.
LEMMA OfflineDetectionIInv ==
    ASSUME IInv, OfflineDetection
    PROVE  IInv'
BY MediaAssumption DEF OfflineDetection, IInv, TypeOK, IsTable, ForwardConsistent

\* The users an expired entry names, and the table the sweep leaves.
LEMMA SweepTable ==
    ASSUME IsTable(table), NEW u \in DOMAIN table
    PROVE  /\ SweepTouches(u) \in SUBSET Users
           /\ IsTable(Touch(table, SweepTouches(u)))
           /\ u \in DOMAIN Touch(table, SweepTouches(u))
           /\ Touch(table, SweepTouches(u))[u] = table[u]
<1>1. /\ table[u].dataFrom \in SUBSET Users
      /\ table[u].dataTo \in DataTo
  BY EntryFields DEF IsTable
<1>2. SweepTouches(u) \in SUBSET Users
  BY <1>1, DataToMember DEF SweepTouches
<1>3. QED
  BY <1>2, TouchTable

\* A step of the sweep that removes an entry preserves it.
LEMMA SweepExpiredIInv ==
    ASSUME IInv, NEW u \in Users, SweepExpired(u)
    PROVE  IInv'
<1> DEFINE touched == Touch(table, SweepTouches(u))
           back    == table[u].dataFrom \ {u}
           forth   == DOMAIN table[u].dataTo \ {u}
<1>1. /\ table' = Removed(touched, u, back, forth)
      /\ capacity' = Grow(Cardinality(DOMAIN touched))
      /\ out' = {}
      /\ UNCHANGED <<verifying, sweepIn>>
  BY DEF SweepExpired
<1>2. /\ IsTable(table) /\ Consistent(table)
      /\ capacity \in Nat
      /\ unvisited \subseteq DOMAIN table
      /\ u \in DOMAIN table
  BY DEF IInv, TypeOK, ForwardConsistent, SweepExpired
<1>3. /\ IsTable(touched) /\ Consistent(touched)
      /\ u \in DOMAIN touched /\ touched[u] = table[u]
      /\ DOMAIN table \subseteq DOMAIN touched
  <2>1. SweepTouches(u) \in SUBSET Users
    BY <1>2, SweepTable
  <2>2. Consistent(touched)
    BY <1>2, <2>1, TouchConsistent
  <2>3. QED
    BY <1>2, <2>1, <2>2, TouchTable
<1>4. unvisited' \subseteq DOMAIN touched \ {u}
  <2>1. PICK new \in SUBSET (DOMAIN touched \ DOMAIN table),
             missed \in SUBSET (unvisited \ {u}) :
                unvisited' = ((unvisited \ {u}) \ missed) \cup new
    BY DEF SweepExpired
  <2> HIDE DEF touched
  <2>2. QED
    BY <1>2, <1>3, <2>1
<1> HIDE DEF touched, back, forth
<1>5. /\ IsTable(table')
      /\ unvisited' \subseteq DOMAIN table'
  <2>1. Leaves(touched, u, back, forth, table') /\ IsTable(table')
    BY <1>1, <1>3, RemovedTable
  <2>2. QED
    BY <1>4, <2>1 DEF Leaves
<1>6. Consistent(table')
  <2>1. touched[u].dataFrom \ {u} \subseteq back
    BY <1>3 DEF back
  <2>2. QED
    BY <1>1, <1>3, <2>1, RemovedConsistent
<1>7. capacity' \in Nat
  BY <1>1, <1>2, <1>3, TableSize, GrowType
<1>8. QED
  BY <1>1, <1>4, <1>5, <1>6, <1>7 DEF IInv, TypeOK, ForwardConsistent

\* A step of the sweep that spares one preserves it.
LEMMA SweepFreshIInv ==
    ASSUME IInv, NEW u \in Users, SweepFresh(u)
    PROVE  IInv'
BY DEF SweepFresh, IInv, TypeOK, ForwardConsistent

\* Every step keeps the invariant.
LEMMA NextIInv ==
    ASSUME IInv, [Next]_vars
    PROVE  IInv'
<1>1. CASE Receive
  BY <1>1, OnRecvLoginMsgIInv, OnRecvLogoutMsgIInv, ForwardMsgIInv DEF Receive
<1>2. CASE Request
  BY <1>2, OnLogoutIInv, OnReqLeaveRoomIInv, OnReqUpdateForwardTableIInv,
     OnReqP2PAddrIInv
     DEF Request
<1>3. CASE Internal
  BY <1>3, AfterVerificationIInv, TickIInv, OfflineDetectionIInv,
     SweepExpiredIInv, SweepFreshIInv
     DEF Internal
<1>4. CASE UNCHANGED vars
  BY <1>4 DEF vars, IInv, TypeOK, ForwardConsistent
<1>5. QED
  BY <1>1, <1>2, <1>3, <1>4 DEF Next

\* The table has its type and its forwards are consistent (all handlers of
\* media_server.cpp).
THEOREM InvariantHolds == Spec => []IInv
BY InitIInv, NextIInv, PTL DEF Spec

\* In every reachable state each variable has its type; in particular the
\* sweep never looks at an entry that is no longer in the table, and operator[]
\* on stale user ids only ever makes entries of users.
THEOREM TypeCorrect == Spec => []TypeOK
BY InvariantHolds, PTL DEF IInv

\* A cached forwarding address is always that of a user who is in the table and
\* knows the sender, however logins, logouts, requests and sweeps interleave.
THEOREM ForwardCorrect == Spec => []ForwardConsistent
BY InvariantHolds, PTL DEF IInv

-----------------------------------------------------------------------------
(* What a step may never do.                                               *)

\* u was in the table before, where it was, and has not come back to life but
\* by a login that needed no verification.
Stays(u) ==
    /\ u \in DOMAIN table
    /\ table'[u].addr = table[u].addr
    /\ table'[u].sessionId = table[u].sessionId
    /\ table[u].expireIn < 0 =>
          \/ table'[u].expireIn < 0
          \/ \E m \in Login : m.user = u /\ ~NeedsVerification(m)

\* u comes with a verification that ends in this step.
Verified(u) ==
    \E w \in DOMAIN verifying \ DOMAIN verifying' :
        verifying[w] = [user |-> u, addr |-> table'[u].addr,
                        sessionId |-> table'[u].sessionId]

Accounted(u) == Stays(u) \/ table'[u] = ZeroEntry \/ Verified(u)

\* A step that keeps the address, session and expiry of every entry it keeps.
LEMMA KeptStays ==
    ASSUME DOMAIN table' \subseteq DOMAIN table,
           \A x \in DOMAIN table' :
              /\ table'[x].addr = table[x].addr
              /\ table'[x].sessionId = table[x].sessionId
              /\ table[x].expireIn < 0 => table'[x].expireIn < 0,
           NEW u \in DOMAIN table'
    PROVE  Accounted(u)
BY DEF Accounted, Stays

\* An entry with the fields of a value-initialised one is one.
LEMMA ZeroFields ==
    ASSUME NEW e \in Entry,
           e.addr = NoAddr, e.sessionId = NoSession, e.expireIn = -1,
           DOMAIN e.dataTo = {}, e.dataFrom = {}
    PROVE  e = ZeroEntry
<1>1. e.dataTo = Nobody
  <2>1. e.dataTo \in DataTo
    BY EntryFields
  <2>2. e.dataTo \in [DOMAIN e.dataTo -> AnyAddr]
    BY <2>1, DataToMember
  <2>3. QED
    BY <2>2 DEF Nobody
<1>2. QED
  BY <1>1 DEF Entry, ZeroEntry

\* Removing a user, after operator[] made entries for the users of S.
LEMMA RemovedAccounted ==
    ASSUME IsTable(table), NEW v \in Users, NEW S \in SUBSET Users,
           NEW back, NEW forth,
           table' = Removed(Touch(table, S), v, back, forth),
           NEW u \in DOMAIN table'
    PROVE  Accounted(u)
<1> DEFINE touched == Touch(table, S)
<1>1. /\ IsTable(touched)
      /\ DOMAIN touched = DOMAIN table \cup S
      /\ \A x \in DOMAIN table : touched[x] = table[x]
      /\ \A x \in S \ DOMAIN table : touched[x] = ZeroEntry
  BY TouchTable
<1> HIDE DEF touched
<1>2. Leaves(touched, v, back, forth, table') /\ IsTable(table')
  BY <1>1, RemovedTable DEF touched
<1>3. u \in DOMAIN touched
  BY <1>2 DEF Leaves
<1>4. /\ table'[u].addr = touched[u].addr
      /\ table'[u].sessionId = touched[u].sessionId
      /\ table'[u].expireIn = touched[u].expireIn
      /\ table'[u].dataFrom \subseteq touched[u].dataFrom
      /\ DOMAIN table'[u].dataTo \subseteq DOMAIN touched[u].dataTo
  BY <1>2 DEF Leaves
<1>5. CASE u \in DOMAIN table
  BY <1>1, <1>4, <1>5 DEF Accounted, Stays
<1>6. CASE u \notin DOMAIN table
  <2>1. touched[u] = ZeroEntry
    BY <1>1, <1>3, <1>6
  <2>2. ZeroEntry.sessionId = NoSession
    BY DEF ZeroEntry
  <2>3. table'[u] \in Entry
    BY <1>2 DEF IsTable
  <2>4. /\ table'[u].addr = NoAddr
        /\ table'[u].sessionId = NoSession
        /\ table'[u].expireIn = -1
        /\ DOMAIN table'[u].dataTo = {}
        /\ table'[u].dataFrom = {}
    BY <1>4, <2>1, <2>2, ZeroEntryType
  <2>5. table'[u] = ZeroEntry
    BY <2>3, <2>4, ZeroFields
  <2>6. QED
    BY <2>5 DEF Accounted
<1>7. QED
  BY <1>5, <1>6

\* A login puts nobody in the table.
LEMMA OnRecvLoginMsgAccounted ==
    ASSUME IInv, NEW m \in Login, OnRecvLoginMsg(m), NEW u \in DOMAIN table'
    PROVE  Accounted(u)
<1>1. CASE NeedsVerification(m)
  BY <1>1, KeptStays DEF OnRecvLoginMsg
<1>2. CASE ~NeedsVerification(m)
  <2>1. /\ m.user \in DOMAIN table
        /\ table' = [table EXCEPT ![m.user].expireIn = Lifetime]
    BY <1>2 DEF OnRecvLoginMsg, NeedsVerification
  <2>2. IsTable(table)
    BY DEF IInv, TypeOK
  <2>3. /\ DOMAIN table' = DOMAIN table
        /\ \A x \in DOMAIN table : /\ table'[x].addr = table[x].addr
                                   /\ table'[x].sessionId = table[x].sessionId
                                   /\ x # m.user => table'[x] = table[x]
    BY <2>1, <2>2, RefreshedTable
  <2>4. Stays(u)
    BY <1>2, <2>3 DEF Stays
  <2>5. QED
    BY <2>4 DEF Accounted
<1>3. QED
  BY <1>1, <1>2

\* A verification puts in the table whom it verified.
LEMMA AfterVerificationAccounted ==
    ASSUME IInv, NEW w \in Works, AfterVerification(w), NEW u \in DOMAIN table'
    PROVE  Accounted(u)
<1> DEFINE m == verifying[w]
<1>1. m \in Login /\ w \in DOMAIN verifying
  BY DEF AfterVerification, IInv, TypeOK
<1>2. CASE UNCHANGED table
  BY <1>2, KeptStays
<1>3. CASE OnUpdateLoginInfo(m)
  <2>1. /\ DOMAIN table' = DOMAIN table \cup {m.user}
        /\ \A x \in DOMAIN table : table'[x] = table[x]
        /\ m.user \notin DOMAIN table =>
              /\ table'[m.user].addr = m.addr
              /\ table'[m.user].sessionId = m.sessionId
    BY <1>3 DEF OnUpdateLoginInfo, Insert
  <2>2. CASE u \in DOMAIN table
    BY <2>1, <2>2 DEF Accounted, Stays
  <2>3. CASE u \notin DOMAIN table
    <3>1. u = m.user /\ table'[u].addr = m.addr /\ table'[u].sessionId = m.sessionId
      BY <2>1, <2>3
    <3>2. m = [user |-> u, addr |-> table'[u].addr,
               sessionId |-> table'[u].sessionId]
      BY <1>1, <3>1 DEF Login
    <3>3. w \notin DOMAIN verifying'
      BY DEF AfterVerification, Erase, Restrict
    <3>4. Verified(u)
      BY <1>1, <3>2, <3>3 DEF Verified
    <3>5. QED
      BY <3>4 DEF Accounted
  <2>4. QED
    BY <2>2, <2>3
<1>4. QED
  BY <1>2, <1>3 DEF AfterVerification

\* A UDP logout adds empty entries at most.
LEMMA OnRecvLogoutMsgAccounted ==
    ASSUME IInv, NEW v \in Users, NEW a \in Addrs, OnRecvLogoutMsg(v, a),
           NEW u \in DOMAIN table'
    PROVE  Accounted(u)
<1>1. CASE v \notin DOMAIN table
  BY <1>1, KeptStays DEF OnRecvLogoutMsg
<1>2. CASE v \in DOMAIN table
  <2> DEFINE from == table[v].dataFrom
  <2>1. table' = Removed(Touch(table, from), v, from, {})
    BY <1>2 DEF OnRecvLogoutMsg
  <2>2. IsTable(table) /\ from \in SUBSET Users
    BY <1>2, EntryFields DEF IInv, TypeOK, IsTable
  <2> HIDE DEF from
  <2>3. QED
    BY <2>1, <2>2, RemovedAccounted
<1>3. QED
  BY <1>1, <1>2

\* The requests of the signaling server add empty entries at most.
LEMMA RequestAccounted ==
    ASSUME IInv, Request, NEW u \in DOMAIN table'
    PROVE  Accounted(u)
<1>1. IsTable(table)
  BY DEF IInv, TypeOK
<1>2. ASSUME NEW v \in Users, OnLogout(v)
      PROVE  Accounted(u)
  <2>1. CASE v \notin DOMAIN table
    BY <1>2, <2>1, KeptStays DEF OnLogout
  <2>2. CASE v \in DOMAIN table
    <3> DEFINE back  == table[v].dataFrom \ {v}
               forth == DOMAIN table[v].dataTo \ {v}
    <3>1. table' = Removed(table, v, back, forth)
      BY <1>2, <2>2 DEF OnLogout
    <3> HIDE DEF back, forth
    <3>2. Leaves(table, v, back, forth, table')
      BY <1>1, <3>1, RemovedTable
    <3>3. QED
      BY <3>2, KeptStays DEF Leaves
  <2>3. QED
    BY <2>1, <2>2
<1>3. ASSUME NEW v \in Users, OnReqLeaveRoom(v)
      PROVE  Accounted(u)
  <2>1. CASE v \notin DOMAIN table
    BY <1>3, <2>1, KeptStays DEF OnReqLeaveRoom
  <2>2. CASE v \in DOMAIN table
    <3>1. table' = LeftRoom(table, v)
      BY <1>3, <2>2 DEF OnReqLeaveRoom, LeftRoom
    <3>2. /\ DOMAIN LeftRoom(table, v) = DOMAIN table
          /\ \A x \in DOMAIN table :
                /\ LeftRoom(table, v)[x].addr = table[x].addr
                /\ LeftRoom(table, v)[x].sessionId = table[x].sessionId
                /\ LeftRoom(table, v)[x].expireIn = table[x].expireIn
      BY <1>1, <2>2, LeaveRoomTable
    <3>3. QED
      BY <3>1, <3>2, KeptStays
  <2>3. QED
    BY <2>1, <2>2
<1>4. ASSUME NEW src \in Users, NEW dst \in Users, NEW add \in BOOLEAN,
             OnReqUpdateForwardTable(src, dst, add)
      PROVE  Accounted(u)
  <2>1. CASE ~({src, dst} \subseteq DOMAIN table)
    BY <1>4, <2>1, KeptStays DEF OnReqUpdateForwardTable
  <2>2. CASE {src, dst} \subseteq DOMAIN table
    <3>1. /\ table' = AddForward(src, dst) \/ table' = DelForward(src, dst)
          /\ src \in DOMAIN table /\ dst \in DOMAIN table
      BY <1>4, <2>2 DEF OnReqUpdateForwardTable
    <3>2. /\ DOMAIN table' = DOMAIN table
          /\ \A x \in DOMAIN table :
                /\ table'[x].addr = table[x].addr
                /\ table'[x].sessionId = table[x].sessionId
                /\ table'[x].expireIn = table[x].expireIn
      BY <1>1, <3>1, AddForwardTable, DelForwardTable
    <3>3. QED
      BY <3>2, KeptStays
  <2>3. QED
    BY <2>1, <2>2
<1>5. ASSUME NEW v \in Users, OnReqP2PAddr(v)
      PROVE  Accounted(u)
  BY <1>5, KeptStays DEF OnReqP2PAddr
<1>6. QED
  BY <1>2, <1>3, <1>4, <1>5 DEF Request

\* What the loop does by itself adds those it verified, and empty entries at most.
LEMMA InternalAccounted ==
    ASSUME IInv, Internal, NEW u \in DOMAIN table'
    PROVE  Accounted(u)
<1>1. IsTable(table)
  BY DEF IInv, TypeOK
<1>2. CASE Tick
  <2>1. table' = Aged(table)
    BY <1>2 DEF Tick, Aged
  <2>2. QED
    BY <1>1, <2>1, TickTable, KeptStays
<1>3. CASE OfflineDetection
  BY <1>3, KeptStays DEF OfflineDetection
<1>4. ASSUME NEW v \in Users, SweepExpired(v)
      PROVE  Accounted(u)
  <2> DEFINE S     == SweepTouches(v)
             back  == table[v].dataFrom \ {v}
             forth == DOMAIN table[v].dataTo \ {v}
  <2>1. table' = Removed(Touch(table, S), v, back, forth)
    BY <1>4 DEF SweepExpired
  <2>2. v \in DOMAIN table
    BY <1>4 DEF SweepExpired, IInv, TypeOK
  <2>3. S \in SUBSET Users
    BY <1>1, <2>2, SweepTable
  <2> HIDE DEF S, back, forth
  <2>4. QED
    BY <1>1, <2>1, <2>3, RemovedAccounted
<1>5. ASSUME NEW v \in Users, SweepFresh(v)
      PROVE  Accounted(u)
  BY <1>5, KeptStays DEF SweepFresh
<1>6. QED
  BY <1>2, <1>3, <1>4, <1>5, AfterVerificationAccounted DEF Internal

\* Nobody enters the table unaccounted for.
LEMMA NextAccounted ==
    ASSUME IInv, [Next]_vars, NEW u \in DOMAIN table'
    PROVE  Accounted(u)
<1>1. CASE Receive
  <2>1. ASSUME NEW v \in Users,
               OnRecvSingleForwardMsg(v) \/ OnRecvMultiForwardMsg(v)
        PROVE  Accounted(u)
    BY <2>1, KeptStays DEF OnRecvSingleForwardMsg, OnRecvMultiForwardMsg
  <2>2. QED
    BY <1>1, <2>1, OnRecvLoginMsgAccounted, OnRecvLogoutMsgAccounted DEF Receive
<1>2. CASE UNCHANGED vars
  BY <1>2, KeptStays DEF vars
<1>3. QED
  BY <1>1, <1>2, RequestAccounted, InternalAccounted DEF Next

\* No datagram but a verified login brings a user into the table, other than as
\* a phantom, and none ever moves a user to another address.
THEOREM OnlyVerifiedEnter == Spec => EntersVerified
<1>1. ASSUME IInv, [Next]_vars
      PROVE  \A u \in DOMAIN table' :
                \/ u \in DOMAIN table /\ table'[u].addr = table[u].addr
                \/ table'[u] = ZeroEntry
                \/ \E w \in DOMAIN verifying \ DOMAIN verifying' :
                      verifying[w] = [user |-> u, addr |-> table'[u].addr,
                                      sessionId |-> table'[u].sessionId]
  BY <1>1, NextAccounted DEF Accounted, Stays, Verified
<1>2. QED
  BY <1>1, InvariantHolds, PTL DEF Spec, EntersVerified

-----------------------------------------------------------------------------
(* Phantoms.                                                               *)

\* A phantom keeps the session 0 as well as the address 0: that is what makes
\* every login of its user need verification.
PhantomsBlank ==
    NoSession \notin Sessions =>
        \A u \in DOMAIN table : Phantom(u) =>
            table[u].sessionId = NoSession /\ table[u].expireIn < 0

\* A phantom stays blank.
LEMMA PhantomStep ==
    ASSUME IInv, PhantomsBlank, [Next]_vars
    PROVE  PhantomsBlank'
<1>1. SUFFICES ASSUME NoSession \notin Sessions,
                      NEW u \in DOMAIN table', table'[u].addr = NoAddr
               PROVE  table'[u].sessionId = NoSession /\ table'[u].expireIn < 0
  BY DEF PhantomsBlank, Phantom
<1>2. CASE Stays(u)
  <2>1. table[u].addr = NoAddr /\ u \in DOMAIN table
    BY <1>1, <1>2 DEF Stays
  <2>2. table[u].sessionId = NoSession /\ table[u].expireIn < 0
    BY <1>1, <2>1 DEF PhantomsBlank, Phantom
  <2>3. \A m \in Login : m.user = u => NeedsVerification(m)
    BY <1>1, <2>1, <2>2, MediaAssumption DEF NeedsVerification, Login
  <2>4. QED
    BY <1>2, <2>2, <2>3 DEF Stays
<1>3. CASE table'[u] = ZeroEntry
  BY <1>3, ZeroEntryType DEF ZeroEntry
<1>4. CASE Verified(u)
  <2>1. PICK w \in DOMAIN verifying : verifying[w].addr = table'[u].addr
    BY <1>4 DEF Verified
  <2>2. verifying[w].addr \in Addrs
    BY DEF IInv, TypeOK, Login
  <2>3. QED
    BY <1>1, <2>1, <2>2, MediaAssumption
<1>5. QED
  BY <1>2, <1>3, <1>4, NextAccounted DEF Accounted

\* A phantom is never refreshed, whatever logins its user sends.
THEOREM PhantomsStayExpired == Spec => []PhantomsExpired
<1>1. Init => PhantomsBlank
  BY DEF Init, PhantomsBlank
<1>2. PhantomsBlank => PhantomsExpired
  BY DEF PhantomsBlank, PhantomsExpired
<1>3. QED
  BY <1>1, <1>2, PhantomStep, InvariantHolds, PTL DEF Spec

-----------------------------------------------------------------------------
(* The sweep.                                                              *)

\* What a step of the sweep removes.
LEMMA SweptTable ==
    ASSUME IInv, NEW v \in Users, SweepExpired(v)
    PROVE  /\ v \in DOMAIN table /\ v \notin DOMAIN table'
           /\ \A u \in DOMAIN table \ {v} : u \in DOMAIN table'
<1> DEFINE touched == Touch(table, SweepTouches(v))
           back    == table[v].dataFrom \ {v}
           forth   == DOMAIN table[v].dataTo \ {v}
<1>1. v \in DOMAIN table /\ IsTable(table)
  BY DEF SweepExpired, IInv, TypeOK
<1>2. IsTable(touched) /\ DOMAIN table \subseteq DOMAIN touched
  <2>1. SweepTouches(v) \in SUBSET Users
    BY <1>1, SweepTable
  <2>2. QED
    BY <1>1, <2>1, TouchTable
<1>3. table' = Removed(touched, v, back, forth)
  BY DEF SweepExpired
<1> HIDE DEF touched, back, forth
<1>4. Leaves(touched, v, back, forth, table')
  BY <1>2, <1>3, RemovedTable
<1>5. QED
  BY <1>1, <1>2, <1>4 DEF Leaves

\* While a sweep runs, only the sweep takes steps.
LEMMA SweepAlone ==
    ASSUME Next, unvisited # {}
    PROVE  \E v \in Users : SweepExpired(v) \/ SweepFresh(v)
BY DEF Next, Receive, Request, Internal, Idle, OnRecvLoginMsg, OnRecvLogoutMsg,
       OnRecvSingleForwardMsg, OnRecvMultiForwardMsg, OnLogout, OnReqLeaveRoom,
       OnReqUpdateForwardTable, OnReqP2PAddr, AfterVerification, Tick,
       OfflineDetection

\* A user whose login has not run out survives every sweep.
THEOREM FreshSurvive == Spec => SweepSparesFresh
<1>1. ASSUME IInv, [Next]_vars
      PROVE  unvisited # {} =>
                \A u \in DOMAIN table : table[u].expireIn >= 0 => u \in DOMAIN table'
  <2>1. SUFFICES ASSUME unvisited # {}, NEW u \in DOMAIN table,
                        table[u].expireIn >= 0
                 PROVE  u \in DOMAIN table'
    OBVIOUS
  <2>2. CASE UNCHANGED vars
    BY <2>2 DEF vars
  <2>3. CASE Next
    <3>1. PICK v \in Users : SweepExpired(v) \/ SweepFresh(v)
      BY <2>1, <2>3, SweepAlone
    <3>2. CASE SweepExpired(v)
      <4>1. table[v].expireIn < 0
        BY <3>2 DEF SweepExpired, Expired
      <4>2. table[u] \in Entry
        BY <1>1 DEF IInv, TypeOK, IsTable
      <4>3. u # v
        BY <2>1, <4>1, <4>2, EntryFields, MediaAssumption
      <4>4. QED
        BY <1>1, <3>2, <4>3, SweptTable
    <3>3. CASE SweepFresh(v)
      BY <3>3 DEF SweepFresh
    <3>4. QED
      BY <3>1, <3>2, <3>3
  <2>4. QED
    BY <1>1, <2>2, <2>3
<1>2. QED
  BY <1>1, InvariantHolds, PTL DEF Spec, SweepSparesFresh

-----------------------------------------------------------------------------
(* The refinement.                                                         *)

\* The mapped variables as functions of a table.
AddrIn(t) == [u \in DOMAIN t |-> t[u].addr]

LinksIn(t) == {l \in (DOMAIN t) \X Users : l[2] \in DOMAIN t[l[1]].dataTo}

Touching(L, u) == {l \in L : u \in {l[1], l[2]}}

\* The state of the graph before and after a step, by the table.
LEMMA Mapped ==
    /\ addrOf = AddrIn(table) /\ addrOf' = AddrIn(table')
    /\ links = LinksIn(table) /\ links' = LinksIn(table')
BY DEF addrOf, links, AddrIn, LinksIn

\* Who is linked to whom.
LEMMA LinksMember ==
    ASSUME NEW t, NEW l
    PROVE  l \in LinksIn(t) <=>
              \E s \in DOMAIN t, d \in Users :
                 l = <<s, d>> /\ d \in DOMAIN t[s].dataTo
BY DEF LinksIn

\* Only addresses and the users in dataTo matter to the relation.
LEMMA SameGraph ==
    ASSUME NEW t, NEW r, DOMAIN r = DOMAIN t,
           \A x \in DOMAIN t : /\ r[x].addr = t[x].addr
                               /\ DOMAIN r[x].dataTo = DOMAIN t[x].dataTo
    PROVE  AddrIn(r) = AddrIn(t) /\ LinksIn(r) = LinksIn(t)
<1>1. AddrIn(r) = AddrIn(t)
  BY DEF AddrIn
<1>2. \A l : l \in LinksIn(r) <=> l \in LinksIn(t)
  BY LinksMember
<1>3. QED
  BY <1>1, <1>2

\* A handler that sends no media sends no media in the relation.
LEMMA NoMedia ==
    ASSUME \A d \in out' : d.type # "MEDIA"
    PROVE  sent' = {}
BY DEF sent

\* A step that changes no user, address or link is one of the graph.
LEMMA QuietStep ==
    ASSUME \A d \in out' : d.type # "MEDIA",
           DOMAIN table' = DOMAIN table,
           \A x \in DOMAIN table :
              /\ table'[x].addr = table[x].addr
              /\ DOMAIN table'[x].dataTo = DOMAIN table[x].dataTo
    PROVE  Graph!Next
<1>1. addrOf' = addrOf /\ links' = links
  BY SameGraph, Mapped
<1>2. sent' = {}
  BY NoMedia
<1>3. Graph!Quiet
  BY <1>1, <1>2 DEF Graph!Quiet
<1>4. QED
  BY <1>3 DEF Graph!Next

\* Removing u, after operator[] made entries for the users of S, is a Drop.
LEMMA DropStep ==
    ASSUME IInv, NEW u \in Users, u \in DOMAIN table, NEW S \in SUBSET Users,
           NEW back, table[u].dataFrom \ {u} \subseteq back, NEW forth,
           table' = Removed(Touch(table, S), u, back, forth),
           \A d \in out' : d.type # "MEDIA"
    PROVE  Graph!Next
<1> DEFINE touched  == Touch(table, S)
           phantoms == S \ DOMAIN table
<1>1. IsTable(table) /\ Consistent(table)
  BY DEF IInv, TypeOK, ForwardConsistent
<1>2. /\ IsTable(touched)
      /\ DOMAIN touched = DOMAIN table \cup S
      /\ \A x \in DOMAIN table : touched[x] = table[x]
      /\ \A x \in S \ DOMAIN table : touched[x] = ZeroEntry
  BY <1>1, TouchTable
<1> HIDE DEF touched
<1>3. Leaves(touched, u, back, forth, table')
  BY <1>2, RemovedTable DEF touched
<1>4. /\ DOMAIN table' = (DOMAIN table \cup phantoms) \ {u}
      /\ \A x \in DOMAIN table' :
            table'[x].addr = IF x \in DOMAIN table THEN table[x].addr ELSE NoAddr
  <2>1. /\ DOMAIN table' = DOMAIN touched \ {u}
        /\ \A x \in DOMAIN table' : table'[x].addr = touched[x].addr
    BY <1>3 DEF Leaves
  <2>2. \A x \in DOMAIN touched :
           touched[x].addr = IF x \in DOMAIN table THEN table[x].addr ELSE NoAddr
    BY <1>2, ZeroEntryType
  <2>3. QED
    BY <1>2, <2>1, <2>2
<1>5. ASSUME NEW s, NEW d \in Users
      PROVE  s \in DOMAIN table' /\ d \in DOMAIN table'[s].dataTo
             <=> /\ s \in DOMAIN table /\ d \in DOMAIN table[s].dataTo
                 /\ u \notin {s, d}
  <2>1. ASSUME s \in DOMAIN table', d \in DOMAIN table'[s].dataTo
        PROVE  /\ s \in DOMAIN table /\ d \in DOMAIN table[s].dataTo
               /\ u \notin {s, d}
    <3>1. s \in DOMAIN touched /\ s # u /\ d \in DOMAIN touched[s].dataTo
      BY <1>3, <2>1 DEF Leaves
    <3>2. s \in DOMAIN table /\ d \in DOMAIN table[s].dataTo
      BY <1>2, <3>1, ZeroEntryType
    <3>3. d # u
      <4>1. SUFFICES ASSUME d = u PROVE FALSE
        OBVIOUS
      <4>2. s \in back
        BY <1>1, <3>1, <3>2, <4>1 DEF Consistent
      <4>3. DOMAIN table'[s].dataTo = DOMAIN touched[s].dataTo \ {u}
        BY <1>3, <2>1, <4>2 DEF Leaves
      <4>4. QED
        BY <2>1, <4>1, <4>3
    <3>4. QED
      BY <3>1, <3>2, <3>3
  <2>2. ASSUME s \in DOMAIN table, d \in DOMAIN table[s].dataTo, u \notin {s, d}
        PROVE  s \in DOMAIN table' /\ d \in DOMAIN table'[s].dataTo
    <3>1. s \in DOMAIN touched /\ touched[s] = table[s]
      BY <1>2, <2>2
    <3>2. s \in DOMAIN table'
      BY <1>3, <2>2, <3>1 DEF Leaves
    <3>3. DOMAIN table'[s].dataTo = IF s \in back THEN DOMAIN touched[s].dataTo \ {u}
                                    ELSE DOMAIN touched[s].dataTo
      BY <1>3, <3>2 DEF Leaves
    <3>4. QED
      BY <2>2, <3>1, <3>2, <3>3
  <2>3. QED
    BY <2>1, <2>2
<1>6. links' = links \ Graph!Touching(u)
  <2>1. \A l : l \in LinksIn(table') <=>
                  l \in LinksIn(table) /\ u \notin {l[1], l[2]}
    BY <1>5, LinksMember
  <2>2. QED
    BY <2>1, Mapped DEF Graph!Touching
<1>7. addrOf' = [x \in (DOMAIN addrOf \cup phantoms) \ {u} |->
                    IF x \in DOMAIN addrOf THEN addrOf[x] ELSE NoAddr]
  BY <1>4 DEF addrOf
<1>8. sent' = {}
  BY NoMedia
<1>9. Graph!Drop(u, phantoms)
  BY <1>6, <1>7, <1>8 DEF Graph!Drop, Graph!Members, addrOf
<1>10. QED
  BY <1>9 DEF Graph!Next

\* A login is a step of the graph.
LEMMA OnRecvLoginMsgStep ==
    ASSUME IInv, NEW m \in Login, OnRecvLoginMsg(m)
    PROVE  Graph!Next
<1>1. \A d \in out' : d.type # "MEDIA"
  BY DEF OnRecvLoginMsg, Ack
<1>2. CASE NeedsVerification(m)
  BY <1>1, <1>2, QuietStep DEF OnRecvLoginMsg
<1>3. CASE ~NeedsVerification(m)
  <2>1. /\ m.user \in DOMAIN table
        /\ table' = [table EXCEPT ![m.user].expireIn = Lifetime]
    BY <1>3 DEF OnRecvLoginMsg, NeedsVerification
  <2>2. IsTable(table)
    BY DEF IInv, TypeOK
  <2>3. QED
    BY <1>1, <2>1, <2>2, RefreshedTable, QuietStep
<1>4. QED
  BY <1>2, <1>3

\* The answer of a verification is.
LEMMA AfterVerificationStep ==
    ASSUME IInv, NEW w \in Works, AfterVerification(w)
    PROVE  Graph!Next
<1> DEFINE m == verifying[w]
           e == [addr      |-> m.addr,
                 sessionId |-> m.sessionId,
                 expireIn  |-> Lifetime,
                 dataTo    |-> Nobody,
                 dataFrom  |-> {}]
<1>1. m \in Login
  BY DEF AfterVerification, IInv, TypeOK
<1>2. m.user \in Users /\ m.addr \in Addrs /\ m.sessionId \in Sessions
  BY <1>1 DEF Login
<1>3. \A d \in out' : d.type # "MEDIA"
  BY DEF AfterVerification, OnUpdateLoginInfo, Ack
<1>4. IsTable(table)
  BY DEF IInv, TypeOK
<1>5. e \in Entry /\ DOMAIN e.dataTo = {} /\ e.addr = m.addr
  BY <1>2, NobodyType, MediaAssumption DEF Entry, AnyAddr
<1>6. CASE OnUpdateLoginInfo(m)
  <2>1. table' = Insert(table, m.user, e)
    BY <1>6 DEF OnUpdateLoginInfo
  <2> HIDE DEF m, e
  <2>2. /\ DOMAIN table' = DOMAIN table \cup {m.user}
        /\ \A x \in DOMAIN table : table'[x] = table[x]
        /\ m.user \notin DOMAIN table => table'[m.user] = e
    <3>1. /\ DOMAIN Insert(table, m.user, e) = DOMAIN table \cup {m.user}
          /\ \A x \in DOMAIN table : Insert(table, m.user, e)[x] = table[x]
          /\ m.user \notin DOMAIN table => Insert(table, m.user, e)[m.user] = e
      BY DEF Insert
    <3>2. QED
      BY <2>1, <3>1
  <2>3. CASE m.user \in DOMAIN table
    BY <1>3, <2>2, <2>3, QuietStep
  <2>4. CASE m.user \notin DOMAIN table
    <3>1. addrOf' = [x \in DOMAIN addrOf \cup {m.user} |->
                        IF x = m.user THEN m.addr ELSE addrOf[x]]
      BY <1>5, <2>2, <2>4 DEF addrOf
    <3>2. \A l : l \in LinksIn(table') <=> l \in LinksIn(table)
      <4>1. ASSUME NEW s, NEW d
            PROVE  s \in DOMAIN table' /\ d \in DOMAIN table'[s].dataTo
                   <=> s \in DOMAIN table /\ d \in DOMAIN table[s].dataTo
        BY <1>5, <2>2, <2>4
      <4>2. QED
        BY <4>1, LinksMember
    <3>3. links' = links
      BY <3>2, Mapped
    <3>4. sent' = {}
      BY <1>3, NoMedia
    <3>5. Graph!Join(m.user, m.addr)
      BY <2>4, <3>1, <3>3, <3>4 DEF Graph!Join, Graph!Members, addrOf
    <3>6. QED
      BY <1>2, <3>5 DEF Graph!Next
  <2>5. QED
    BY <2>3, <2>4
<1>7. CASE UNCHANGED table
  BY <1>3, <1>7, QuietStep
<1>8. QED
  BY <1>6, <1>7 DEF AfterVerification

\* A UDP logout is.
LEMMA OnRecvLogoutMsgStep ==
    ASSUME IInv, NEW u \in Users, NEW a \in Addrs, OnRecvLogoutMsg(u, a)
    PROVE  Graph!Next
<1>1. \A d \in out' : d.type # "MEDIA"
  BY DEF OnRecvLogoutMsg, Ack
<1>2. CASE u \notin DOMAIN table
  BY <1>1, <1>2, QuietStep DEF OnRecvLogoutMsg
<1>3. CASE u \in DOMAIN table
  <2> DEFINE from == table[u].dataFrom
  <2>1. table' = Removed(Touch(table, from), u, from, {})
    BY <1>3 DEF OnRecvLogoutMsg
  <2>2. from \in SUBSET Users
    BY <1>3, EntryFields DEF IInv, TypeOK, IsTable
  <2>3. table[u].dataFrom \ {u} \subseteq from
    OBVIOUS
  <2> HIDE DEF from
  <2>4. QED
    BY <1>1, <1>3, <2>1, <2>2, <2>3, DropStep
<1>4. QED
  BY <1>2, <1>3

\* operator[] on no user does nothing.
LEMMA TouchNobody ==
    ASSUME NEW t, IsTable(t)
    PROVE  Touch(t, {}) = t
BY DEF Touch, IsTable

\* A logout by the signaling server is.
LEMMA OnLogoutStep ==
    ASSUME IInv, NEW u \in Users, OnLogout(u)
    PROVE  Graph!Next
<1>1. \A d \in out' : d.type # "MEDIA"
  BY DEF OnLogout
<1>2. CASE u \notin DOMAIN table
  BY <1>1, <1>2, QuietStep DEF OnLogout
<1>3. CASE u \in DOMAIN table
  <2> DEFINE back  == table[u].dataFrom \ {u}
             forth == DOMAIN table[u].dataTo \ {u}
  <2>1. table' = Removed(table, u, back, forth)
    BY <1>3 DEF OnLogout
  <2>2. Touch(table, {}) = table
    BY TouchNobody DEF IInv, TypeOK
  <2>3. table[u].dataFrom \ {u} \subseteq back /\ {} \in SUBSET Users
    OBVIOUS
  <2> HIDE DEF back, forth
  <2>4. table' = Removed(Touch(table, {}), u, back, forth)
    BY <2>1, <2>2
  <2>5. QED
    BY <1>1, <1>3, <2>3, <2>4, DropStep
<1>4. QED
  BY <1>2, <1>3

\* Leaving the room is.
LEMMA OnReqLeaveRoomStep ==
    ASSUME IInv, NEW u \in Users, OnReqLeaveRoom(u)
    PROVE  Graph!Next
<1>1. \A d \in out' : d.type # "MEDIA"
  BY DEF OnReqLeaveRoom
<1>2. CASE u \notin DOMAIN table
  BY <1>1, <1>2, QuietStep DEF OnReqLeaveRoom
<1>3. CASE u \in DOMAIN table
  <2>1. table' = LeftRoom(table, u)
    BY <1>3 DEF OnReqLeaveRoom, LeftRoom
  <2>2. IsTable(table) /\ Consistent(table)
    BY DEF IInv, TypeOK, ForwardConsistent
  <2>3. /\ DOMAIN table' = DOMAIN table
        /\ DOMAIN table'[u].dataTo = {}
        /\ \A x \in DOMAIN table :
              /\ table'[x].addr = table[x].addr
              /\ x # u => \A d : d \in DOMAIN table'[x].dataTo
                                 <=> /\ d \in DOMAIN table[x].dataTo
                                     /\ ~(d = u /\ x \in table[u].dataFrom)
    BY <1>3, <2>1, <2>2, LeaveRoomTable
  <2>4. ASSUME NEW s, NEW d \in Users
        PROVE  s \in DOMAIN table' /\ d \in DOMAIN table'[s].dataTo
               <=> /\ s \in DOMAIN table /\ d \in DOMAIN table[s].dataTo
                   /\ u \notin {s, d}
    BY <2>2, <2>3 DEF Consistent
  <2>5. links' = links \ Graph!Touching(u)
    <3>1. \A l : l \in LinksIn(table') <=>
                    l \in LinksIn(table) /\ u \notin {l[1], l[2]}
      BY <2>4, LinksMember
    <3>2. QED
      BY <3>1, Mapped DEF Graph!Touching
  <2>6. addrOf' = addrOf
    BY <2>3 DEF addrOf
  <2>7. sent' = {}
    BY <1>1, NoMedia
  <2>8. Graph!Isolate(u)
    BY <1>3, <2>5, <2>6, <2>7 DEF Graph!Isolate, Graph!Members, addrOf
  <2>9. QED
    BY <2>8 DEF Graph!Next
<1>4. QED
  BY <1>2, <1>3

\* A change of a forward is.
LEMMA OnReqUpdateForwardTableStep ==
    ASSUME IInv, NEW src \in Users, NEW dst \in Users, NEW add \in BOOLEAN,
           OnReqUpdateForwardTable(src, dst, add)
    PROVE  Graph!Next
<1>1. \A d \in out' : d.type # "MEDIA"
  BY DEF OnReqUpdateForwardTable
<1>2. IsTable(table)
  BY DEF IInv, TypeOK
<1>3. sent' = {}
  BY <1>1, NoMedia
<1>4. CASE ~({src, dst} \subseteq DOMAIN table)
  BY <1>1, <1>4, QuietStep DEF OnReqUpdateForwardTable
<1>5. CASE {src, dst} \subseteq DOMAIN table /\ table' = AddForward(src, dst)
  <2>1. /\ DOMAIN table' = DOMAIN table
        /\ \A x \in DOMAIN table :
              /\ table'[x].addr = table[x].addr
              /\ \A d : d \in DOMAIN table'[x].dataTo
                        <=> \/ d \in DOMAIN table[x].dataTo
                            \/ x = src /\ d = dst
    BY <1>2, <1>5, AddForwardTable
  <2>2. ASSUME NEW s, NEW d \in Users
        PROVE  s \in DOMAIN table' /\ d \in DOMAIN table'[s].dataTo
               <=> \/ s \in DOMAIN table /\ d \in DOMAIN table[s].dataTo
                   \/ s = src /\ d = dst
    BY <1>5, <2>1
  <2>3. \A l : l \in LinksIn(table') <=>
                  l \in LinksIn(table) \/ l = <<src, dst>>
    BY <2>2, LinksMember
  <2>4. links' = links \cup {<<src, dst>>}
    BY <2>3, Mapped
  <2>5. addrOf' = addrOf
    BY <2>1 DEF addrOf
  <2>6. Graph!Link(src, dst)
    BY <1>3, <1>5, <2>4, <2>5 DEF Graph!Link, Graph!Members, addrOf
  <2>7. QED
    BY <2>6 DEF Graph!Next
<1>6. CASE {src, dst} \subseteq DOMAIN table /\ table' = DelForward(src, dst)
  <2>1. /\ DOMAIN table' = DOMAIN table
        /\ \A x \in DOMAIN table :
              /\ table'[x].addr = table[x].addr
              /\ \A d : d \in DOMAIN table'[x].dataTo
                        <=> /\ d \in DOMAIN table[x].dataTo
                            /\ ~(x = src /\ d = dst)
    BY <1>2, <1>6, DelForwardTable
  <2>2. ASSUME NEW s, NEW d \in Users
        PROVE  s \in DOMAIN table' /\ d \in DOMAIN table'[s].dataTo
               <=> /\ s \in DOMAIN table /\ d \in DOMAIN table[s].dataTo
                   /\ ~(s = src /\ d = dst)
    BY <1>6, <2>1
  <2>3. \A l : l \in LinksIn(table') <=>
                  l \in LinksIn(table) /\ l # <<src, dst>>
    BY <2>2, LinksMember
  <2>4. links' = links \ {<<src, dst>>}
    BY <2>3, Mapped
  <2>5. addrOf' = addrOf
    BY <2>1 DEF addrOf
  <2>6. Graph!Unlink(src, dst)
    BY <1>3, <2>4, <2>5 DEF Graph!Unlink
  <2>7. QED
    BY <2>6 DEF Graph!Next
<1>7. QED
  BY <1>4, <1>5, <1>6 DEF OnReqUpdateForwardTable

\* A handler that leaves the table alone.
LEMMA TableKept ==
    ASSUME UNCHANGED table
    PROVE  addrOf' = addrOf /\ links' = links
BY Mapped

\* The media packets a handler sends, as the relation sees them.
LEMMA MediaSent ==
    ASSUME NEW A, out' = {Media(a) : a \in A}
    PROVE  sent' = A
<1>1. \A a \in A : Media(a).type = "MEDIA" /\ Media(a).to = a
  BY DEF Media
<1>2. {d \in out' : d.type = "MEDIA"} = out'
  BY <1>1
<1>3. {m.to : m \in out'} = A
  BY <1>1
<1>4. QED
  BY <1>2, <1>3 DEF sent

\* Media to one receiver is.
LEMMA OnRecvSingleForwardMsgStep ==
    ASSUME IInv, NEW u \in Users, OnRecvSingleForwardMsg(u)
    PROVE  Graph!Next
<1>1. addrOf' = addrOf /\ links' = links
  BY TableKept DEF OnRecvSingleForwardMsg
<1>2. CASE u \in DOMAIN table
  <2>1. out' = {Media(a) : a \in {table[u].addr}}
    BY <1>2 DEF OnRecvSingleForwardMsg
  <2>2. sent' = {addrOf[u]}
    BY <1>2, <2>1, MediaSent DEF addrOf
  <2>3. Graph!Unicast(u)
    BY <1>1, <1>2, <2>2 DEF Graph!Unicast, Graph!Members, addrOf
  <2>4. QED
    BY <2>3 DEF Graph!Next
<1>3. CASE u \notin DOMAIN table
  BY <1>3, QuietStep DEF OnRecvSingleForwardMsg
<1>4. QED
  BY <1>2, <1>3

\* The addresses media goes to, read off the caches, are the linked users' own.
LEMMA OnRecvMultiForwardMsgStep ==
    ASSUME IInv, NEW u \in Users, OnRecvMultiForwardMsg(u)
    PROVE  Graph!Next
<1>1. addrOf' = addrOf /\ links' = links
  BY TableKept DEF OnRecvMultiForwardMsg
<1>2. CASE u \in DOMAIN table
  <2> DEFINE f == table[u].dataTo
             L == {d \in Graph!Members : <<u, d>> \in links}
  <2>1. out' = {Media(a) : a \in Range(f)}
    BY <1>2 DEF OnRecvMultiForwardMsg
  <2>2. Range(f) = {f[d] : d \in DOMAIN f}
    BY DEF Range
  <2>3. Consistent(table) /\ IsTable(table)
    BY DEF IInv, TypeOK, ForwardConsistent
  <2>4. L = DOMAIN f
    <3>1. DOMAIN f \subseteq DOMAIN table
      BY <1>2, <2>3 DEF Consistent
    <3>2. DOMAIN table \subseteq Users
      BY <2>3 DEF IsTable
    <3>3. Graph!Members = DOMAIN table
      BY DEF Graph!Members, addrOf
    <3>4. \A d \in DOMAIN table : <<u, d>> \in links <=> d \in DOMAIN f
      BY <1>2, <3>2 DEF links
    <3>5. QED
      BY <3>1, <3>3, <3>4
  <2>5. \A d \in DOMAIN f : addrOf[d] = f[d]
    BY <1>2, <2>3 DEF Consistent, addrOf
  <2>6. sent' = Range(f)
    BY <2>1, MediaSent
  <2> HIDE DEF f
  <2>7. sent' = {addrOf[d] : d \in L}
    BY <2>2, <2>4, <2>5, <2>6
  <2>8. Graph!Multicast(u)
    BY <1>1, <2>7 DEF Graph!Multicast
  <2>9. QED
    BY <2>8 DEF Graph!Next
<1>3. CASE u \notin DOMAIN table
  BY <1>3, QuietStep DEF OnRecvMultiForwardMsg
<1>4. QED
  BY <1>2, <1>3

\* A question for an address is.
LEMMA OnReqP2PAddrStep ==
    ASSUME IInv, NEW u \in Users, OnReqP2PAddr(u)
    PROVE  Graph!Next
BY QuietStep DEF OnReqP2PAddr

\* Time is.
LEMMA TickStep ==
    ASSUME IInv, Tick
    PROVE  Graph!Next
<1>1. table' = Aged(table) /\ out' = {}
  BY DEF Tick, Aged
<1>2. IsTable(table)
  BY DEF IInv, TypeOK
<1>3. QED
  BY <1>1, <1>2, TickTable, QuietStep

\* The beginning of a sweep is.
LEMMA OfflineDetectionStep ==
    ASSUME IInv, OfflineDetection
    PROVE  Graph!Next
BY QuietStep DEF OfflineDetection

\* A step of the sweep that removes an entry is.
LEMMA SweepExpiredStep ==
    ASSUME IInv, NEW u \in Users, SweepExpired(u)
    PROVE  Graph!Next
<1> DEFINE S     == SweepTouches(u)
           back  == table[u].dataFrom \ {u}
           forth == DOMAIN table[u].dataTo \ {u}
<1>1. table' = Removed(Touch(table, S), u, back, forth) /\ out' = {}
  BY DEF SweepExpired
<1>2. u \in DOMAIN table /\ IsTable(table)
  BY DEF SweepExpired, IInv, TypeOK
<1>3. S \in SUBSET Users
  BY <1>2, SweepTable
<1>4. table[u].dataFrom \ {u} \subseteq back
  OBVIOUS
<1> HIDE DEF S, back, forth
<1>5. QED
  BY <1>1, <1>2, <1>3, <1>4, DropStep

\* A step of the sweep that spares one is.
LEMMA SweepFreshStep ==
    ASSUME IInv, NEW u \in Users, SweepFresh(u)
    PROVE  Graph!Next
BY QuietStep DEF SweepFresh

\* Every step is one of the graph.
LEMMA NextStep ==
    ASSUME IInv, Next
    PROVE  Graph!Next
<1>1. CASE Receive
  BY <1>1, OnRecvLoginMsgStep, OnRecvLogoutMsgStep, OnRecvSingleForwardMsgStep,
     OnRecvMultiForwardMsgStep
     DEF Receive
<1>2. CASE Request
  BY <1>2, OnLogoutStep, OnReqLeaveRoomStep, OnReqUpdateForwardTableStep,
     OnReqP2PAddrStep
     DEF Request
<1>3. CASE Internal
  BY <1>3, AfterVerificationStep, TickStep, OfflineDetectionStep,
     SweepExpiredStep, SweepFreshStep
     DEF Internal
<1>4. QED
  BY <1>1, <1>2, <1>3 DEF Next

\* An empty table is an empty graph.
LEMMA InitGraph == Init => Graph!Init
BY DEF Init, Graph!Init, addrOf, links, sent

\* What changes nothing of the server changes nothing of the graph.
LEMMA StutterStep ==
    ASSUME UNCHANGED vars
    PROVE  UNCHANGED Graph!gvars
BY TableKept DEF vars, Graph!gvars, sent

\* The forwarding table with its cached addresses and reverse sets implements
\* the plain relation between users, for any users, addresses and sessions:
\* media reaches the current addresses of exactly the linked users, and a user
\* who goes takes all its links along.
THEOREM Refinement == Spec => ImplementsForwardGraph
<1>1. IInv /\ [Next]_vars => [Graph!Next]_(Graph!gvars)
  BY NextStep, StutterStep
<1>2. QED
  BY <1>1, InitGraph, InvariantHolds, PTL
     DEF Spec, ImplementsForwardGraph, Graph!Spec

-----------------------------------------------------------------------------
(* The signaling server.                                                   *)


\* The signaling server's own inductive invariant.
Bound ==
    /\ conns \subseteq Clients
    /\ DOMAIN mapClientId \subseteq conns
    /\ mapClientId \in [DOMAIN mapClientId -> Users]

\* The end of a connection, or a logout message.
LEMMA CloseCBStep ==
    ASSUME Bound, NEW c \in conns, CloseCB(c)
    PROVE  /\ Next \/ UNCHANGED vars
           /\ DOMAIN mapClientId' = DOMAIN mapClientId \ {c}
           /\ \A x \in DOMAIN mapClientId' : mapClientId'[x] = mapClientId[x]
           /\ mapClientId' \in [DOMAIN mapClientId' -> Users]
<1>1. CASE c \in DOMAIN mapClientId
  <2>1. OnLogout(mapClientId[c]) /\ mapClientId[c] \in Users
    BY <1>1 DEF CloseCB, Bound
  <2>2. Next
    BY <2>1 DEF Next, Request
  <2>3. mapClientId' = [x \in DOMAIN mapClientId \ {c} |-> mapClientId[x]]
    BY <1>1 DEF CloseCB, Erase, Restrict
  <2>4. QED
    BY <2>2, <2>3 DEF Bound
<1>2. CASE c \notin DOMAIN mapClientId
  BY <1>2 DEF CloseCB, Bound
<1>3. QED
  BY <1>1, <1>2

\* A binding that is made.
LEMMA OnReqBindUserIdStep ==
    ASSUME Bound, NEW c \in conns, NEW u \in Users, OnReqBindUserId(c, u)
    PROVE  /\ DOMAIN mapClientId' = DOMAIN mapClientId \cup {c}
           /\ mapClientId' \in [DOMAIN mapClientId' -> Users]
<1>1. mapClientId' = [x \in DOMAIN mapClientId \cup {c} |->
                         IF x \in DOMAIN mapClientId THEN mapClientId[x] ELSE u]
  BY DEF OnReqBindUserId, Insert
<1>2. QED
  BY <1>1 DEF Bound

\* A message to the signaling server keeps its bindings, and is a step of the
\* media server or none.
LEMMA SignalStep ==
    ASSUME Bound, NEW c \in Clients, Signal(c)
    PROVE  Bound' /\ (Next \/ UNCHANGED vars)
<1>1. CASE AcceptConnection(c)
  BY <1>1 DEF AcceptConnection, Bound
<1>2. CASE OnReqLogout(c)
  BY <1>2, CloseCBStep DEF OnReqLogout, Bound
<1>3. CASE SubClientClosed(c)
  BY <1>3, CloseCBStep DEF SubClientClosed, Bound
<1>4. ASSUME NEW u \in Users, OnReqBindUserId(c, u)
      PROVE  Bound' /\ UNCHANGED vars
  <2>1. c \in conns /\ UNCHANGED <<vars, conns>>
    BY <1>4 DEF OnReqBindUserId
  <2>2. QED
    BY <1>4, <2>1, OnReqBindUserIdStep DEF Bound
<1>5. ASSUME NEW u \in Users, AskP2PAddr(c, u)
      PROVE  Bound' /\ Next
  BY <1>5 DEF AskP2PAddr, Bound, Next, Request
<1>6. ASSUME NEW u \in Users, PassLeaveRoom(c, u)
      PROVE  Bound' /\ Next
  BY <1>6 DEF PassLeaveRoom, Bound, Next, Request
<1>7. ASSUME NEW src \in Users, NEW dst \in Users, NEW add \in BOOLEAN,
             PassUpdateForwardTable(c, src, dst, add)
      PROVE  Bound' /\ Next
  BY <1>7 DEF PassUpdateForwardTable, Bound, Next, Request
<1>8. QED
  BY <1>1, <1>2, <1>3, <1>4, <1>5, <1>6, <1>7 DEF Signal

\* Every step keeps the bindings in order and is a step of the media server, or
\* leaves it alone.
LEMMA RelayStep ==
    ASSUME Bound, [RelayNext]_relayVars
    PROVE  Bound' /\ [Next]_vars
<1>1. CASE MediaOnly
  <2>1. Bound'
    BY <1>1 DEF MediaOnly, Bound
  <2>2. Next
    BY <1>1 DEF MediaOnly, Next, Internal
  <2>3. QED
    BY <2>1, <2>2
<1>2. ASSUME NEW u \in Users, SweepExpiredUser(u)
      PROVE  Bound' /\ Next
  BY <1>2 DEF SweepExpiredUser, OnUserTimeout, Bound, Next, Internal
<1>3. ASSUME NEW c \in Clients, Signal(c)
      PROVE  Bound' /\ [Next]_vars
  BY <1>3, SignalStep
<1>4. CASE UNCHANGED relayVars
  BY <1>4 DEF relayVars, signal, Bound
<1>5. QED
  BY <1>1, <1>2, <1>3, <1>4 DEF RelayNext

\* The bindings are those of open connections.
LEMMA BoundHolds == RelaySpec => []Bound
<1>1. RelayInit => Bound
  BY DEF RelayInit, Bound
<1>2. QED
  BY <1>1, RelayStep, PTL DEF RelaySpec

\* The relay server implements the media server: TCP clients can do nothing to
\* the forwarding table but what the media server's handlers do.
THEOREM RelayImplementsMedia == RelaySpec => ActsAsMediaServer
<1>1. RelayInit => Init
  BY DEF RelayInit
<1>2. QED
  BY <1>1, RelayStep, BoundHolds, PTL DEF RelaySpec, ActsAsMediaServer, Spec

\* Both invariants hold of the two servers together.
LEMMA RelayInvariantHolds == RelaySpec => [](IInv /\ Bound)
BY RelayImplementsMedia, InvariantHolds, BoundHolds, PTL DEF ActsAsMediaServer

\* Every step forgets the last reply; only a request for an address makes one.
LEMMA ReplyAnew ==
    ASSUME RelayNext
    PROVE  \/ reply' = {}
           \/ \E c \in Clients, u \in Users : AskP2PAddr(c, u)
BY DEF RelayNext, MediaOnly, SweepExpiredUser, Signal, AcceptConnection,
       OnReqLogout, SubClientClosed, CloseCB, OnReqBindUserId, PassLeaveRoom,
       PassUpdateForwardTable

\* The types of the relay server's variables.
THEOREM RelayTypeCorrect == RelaySpec => []RelayTypeOK
<1> DEFINE Replies == reply \subseteq P2PReply
<1>1. RelayInit => Replies
  BY DEF RelayInit
<1>2. ASSUME IInv, Bound, Replies, [RelayNext]_relayVars
      PROVE  Replies'
  <2>1. CASE reply' \in {{}, reply}
    BY <1>2, <2>1
  <2>2. ASSUME NEW c \in Clients, NEW u \in Users, AskP2PAddr(c, u)
        PROVE  Replies'
    <3>1. P2PAddr(u) \in [success : BOOLEAN, addr : AnyAddr]
      <4>1. CASE u \in DOMAIN table
        BY <1>2, <4>1, EntryFields DEF P2PAddr, IInv, TypeOK, IsTable
      <4>2. CASE u \notin DOMAIN table
        BY <4>2 DEF P2PAddr, AnyAddr
      <4>3. QED
        BY <4>1, <4>2
    <3>2. \A r \in reply' : r = [client |-> c, dst |-> u, answer |-> P2PAddr(u)]
      BY <2>2 DEF AskP2PAddr
    <3>3. QED
      BY <3>1, <3>2 DEF P2PReply
  <2>3. QED
    BY <1>2, <2>1, <2>2, ReplyAnew DEF relayVars, signal
<1>3. Bound /\ IInv /\ Replies => RelayTypeOK
  BY DEF Bound, IInv, RelayTypeOK
<1>4. QED
  BY <1>1, <1>2, <1>3, RelayInvariantHolds, PTL DEF RelaySpec

\* The signaling server never holds on to a connection that has ended.
THEOREM BindingsFollow == RelaySpec => []BindingsOpen
<1>1. Bound => BindingsOpen
  BY DEF Bound, BindingsOpen
<1>2. QED
  BY <1>1, BoundHolds, PTL

-----------------------------------------------------------------------------
(* The end of a connection and the address a peer is told.                 *)

\* A logout leaves no trace of its user among the forwards of others.
LEMMA LogoutForgets ==
    ASSUME IInv, IInv', NEW u \in Users, OnLogout(u)
    PROVE  /\ u \notin DOMAIN table'
           /\ \A s \in DOMAIN table' : u \notin DOMAIN table'[s].dataTo
<1>1. u \notin DOMAIN table'
  <2>1. CASE u \in DOMAIN table
    <3> DEFINE back  == table[u].dataFrom \ {u}
               forth == DOMAIN table[u].dataTo \ {u}
    <3>1. table' = Removed(table, u, back, forth) /\ IsTable(table)
      BY <2>1 DEF OnLogout, IInv, TypeOK
    <3> HIDE DEF back, forth
    <3>2. Leaves(table, u, back, forth, table')
      BY <3>1, RemovedTable
    <3>3. QED
      BY <3>2 DEF Leaves
  <2>2. CASE u \notin DOMAIN table
    BY <2>2 DEF OnLogout
  <2>3. QED
    BY <2>1, <2>2
<1>2. Consistent(table')
  BY DEF IInv, ForwardConsistent
<1>3. QED
  BY <1>1, <1>2 DEF Consistent

\* Only the end of a connection takes one away.
LEMMA ConnectionEnds ==
    ASSUME [RelayNext]_relayVars, NEW c \in conns, c \notin conns'
    PROVE  c \in Clients => SubClientClosed(c)
<1>1. CASE \E x \in Clients : Signal(x)
  <2>1. PICK x \in Clients : Signal(x)
    BY <1>1
  <2>2. CASE SubClientClosed(x)
    BY <2>2 DEF SubClientClosed
  <2>3. CASE ~SubClientClosed(x)
    BY <2>1, <2>3 DEF Signal, AcceptConnection, OnReqLogout, OnReqBindUserId,
                      AskP2PAddr, PassLeaveRoom, PassUpdateForwardTable
  <2>4. QED
    BY <2>2, <2>3
<1>2. CASE MediaOnly \/ UNCHANGED relayVars
  BY <1>2 DEF MediaOnly, relayVars, signal
<1>3. CASE \E u \in Users : SweepExpiredUser(u)
  BY <1>3 DEF SweepExpiredUser, OnUserTimeout
<1>4. QED
  BY <1>1, <1>2, <1>3 DEF RelayNext

\* A user whose connection has ended is out of the forwarding table, and out of
\* the forwards of everybody else, in the same step.
THEOREM CloseForgets == RelaySpec => CloseLogsOut
<1>1. ASSUME IInv, Bound, IInv', [RelayNext]_relayVars
      PROVE  \A c \in DOMAIN mapClientId \ conns' :
                /\ mapClientId[c] \notin DOMAIN table'
                /\ \A s \in DOMAIN table' :
                      mapClientId[c] \notin DOMAIN table'[s].dataTo
  <2>1. SUFFICES ASSUME NEW c \in DOMAIN mapClientId, c \notin conns'
                 PROVE  /\ mapClientId[c] \notin DOMAIN table'
                        /\ \A s \in DOMAIN table' :
                              mapClientId[c] \notin DOMAIN table'[s].dataTo
    OBVIOUS
  <2>2. /\ c \in conns /\ c \in Clients
        /\ mapClientId[c] \in Users
    BY <1>1 DEF Bound
  <2>3. SubClientClosed(c)
    BY <1>1, <2>1, <2>2, ConnectionEnds
  <2>4. OnLogout(mapClientId[c])
    BY <2>3 DEF SubClientClosed, CloseCB
  <2>5. QED
    BY <1>1, <2>2, <2>4, LogoutForgets
<1>2. QED
  BY <1>1, RelayInvariantHolds, PTL DEF RelaySpec, CloseLogsOut

\* The address a peer is told is the one the relay server uses itself.
THEOREM PeerAddrTrue == RelaySpec => []PeerAddrAgrees
<1>1. RelayInit => PeerAddrAgrees
  BY DEF RelayInit, PeerAddrAgrees
<1>2. ASSUME IInv, PeerAddrAgrees, [RelayNext]_relayVars
      PROVE  PeerAddrAgrees'
  <2>1. CASE reply' = {}
    BY <2>1 DEF PeerAddrAgrees
  <2>2. ASSUME NEW c \in Clients, NEW u \in Users, AskP2PAddr(c, u)
        PROVE  PeerAddrAgrees'
    <3>1. /\ \A r \in reply' : r.dst = u /\ r.answer = P2PAddr(u)
          /\ UNCHANGED table
      BY <2>2 DEF AskP2PAddr, OnReqP2PAddr
    <3>2. P2PAddr(u).success => P2PAddr(u).addr = table[u].addr
      BY DEF P2PAddr
    <3>3. \A s \in DOMAIN table : u \in DOMAIN table[s].dataTo =>
              table[s].dataTo[u] = table[u].addr
      BY <1>2 DEF IInv, ForwardConsistent, Consistent
    <3>4. QED
      BY <3>1, <3>2, <3>3 DEF PeerAddrAgrees
  <2>3. CASE UNCHANGED relayVars
    BY <1>2, <2>3 DEF relayVars, vars, signal, PeerAddrAgrees
  <2>4. CASE RelayNext
    BY <2>1, <2>2, <2>4, ReplyAnew
  <2>5. QED
    BY <1>2, <2>3, <2>4
<1>3. QED
  BY <1>1, <1>2, RelayInvariantHolds, PTL DEF RelaySpec

=============================================================================
