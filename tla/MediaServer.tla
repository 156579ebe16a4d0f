---------------------------- MODULE MediaServer ----------------------------
(***************************************************************************)
(* The UDP half of the relay server (CMediaServer): the forwarding table,  *)
(* the logins whose verification runs on libuv's thread pool, and the      *)
(* timer that throws out the users who stopped refreshing their login.     *)
(*                                                                         *)
(* Every handler runs to completion on the one libuv loop thread, so a     *)
(* handler is one action.  The exception is the sweep of offlineDetection, *)
(* which is taken one table entry at a time because the order in which it  *)
(* meets the entries is the hash table's; while it runs (unvisited # {})   *)
(* the loop does nothing else.                                             *)
(***************************************************************************)
EXTENDS Integers, FiniteSets, Functions

CONSTANTS
    Users,      \* user ids
    Addrs,      \* UDP source addresses a client may send from
    Sessions,   \* session ids clients log in with
    NoAddr,     \* the all-zero sockaddr_in of a value-initialised entry
    NoSession,  \* the session id 0 of a value-initialised entry
    Works,      \* uv_work_t requests: bounds the verifications in flight
    Timeout,    \* ticks between two runs of offlineDetection (m_nTimeout)
    Lifetime,   \* ticks a login stays valid (3 * m_nTimeout)
    Slack,      \* entries a rehash leaves room for beyond those it moves
    LoginUrlSet \* whether http_validate_on_login is configured

ASSUME MediaAssumption ==
    /\ IsFiniteSet(Users)
    /\ NoAddr \notin Addrs
    /\ Timeout \in Nat \ {0}
    /\ Lifetime \in Nat
    /\ Slack \in Nat
    /\ LoginUrlSet \in BOOLEAN

VARIABLES
    table,      \* m_mapForwardTable: a function on the users it holds
    capacity,   \* entries m_mapForwardTable takes before it rehashes
    verifying,  \* the login each uv_work_t in flight carries
    unvisited,  \* entries the running sweep has still to reach
    sweepIn,    \* ticks until m_OfflineDetectionTimer fires
    out         \* the datagrams this server's last handler sent

vars == <<table, capacity, verifying, unvisited, sweepIn, out>>

AnyAddr == Addrs \cup {NoAddr}

\* The cached address of each user a sender's media is forwarded to.
DataTo == UNION {[S -> AnyAddr] : S \in SUBSET Users}

\* expireIn is expireTime - uv_now: the code only asks whether it is negative,
\* so -1 stands for every negative value.
Entry == [addr      : AnyAddr,
          sessionId : Sessions \cup {NoSession},
          expireIn  : -1 .. Lifetime,
          dataTo    : DataTo,
          dataFrom  : SUBSET Users]

Login == [user : Users, addr : Addrs, sessionId : Sessions]

Datagram == [type : {"ACK_LOGIN", "ACK_LOGOUT", "MEDIA"}, to : AnyAddr]

Nobody == [u \in {} |-> NoAddr]

IsTable(t) == DOMAIN t \subseteq Users /\ t \in [DOMAIN t -> Entry]

TypeOK ==
    /\ IsTable(table)
    /\ capacity \in Nat
    /\ DOMAIN verifying \subseteq Works
    /\ verifying \in [DOMAIN verifying -> Login]
    /\ unvisited \subseteq DOMAIN table
    /\ sweepIn \in 0 .. Timeout
    /\ out \subseteq Datagram

Init ==
    /\ table = [u \in {} |-> {}]
    /\ capacity = 1
    /\ verifying = [w \in {} |-> {}]
    /\ unvisited = {}
    /\ sweepIn = Timeout
    /\ out = {}

-----------------------------------------------------------------------------
(* What the C++ containers do.                                             *)

Erase(f, x) == Restrict(f, DOMAIN f \ {x})

\* unordered_map::insert: nothing happens when the key is there already.
Insert(t, u, e) ==
    [x \in DOMAIN t \cup {u} |-> IF x \in DOMAIN t THEN t[x] ELSE e]

\* unordered_map::operator[] on each user of S: an absent key comes into being
\* with every field zero.  Its expireTime is 0, long past.
ZeroEntry == [addr      |-> NoAddr,
              sessionId |-> NoSession,
              expireIn  |-> -1,
              dataTo    |-> Nobody,
              dataFrom  |-> {}]

Touch(t, S) ==
    [x \in DOMAIN t \cup S |-> IF x \in DOMAIN t THEN t[x] ELSE ZeroEntry]

\* A table that holds n entries, more than it has room for, rehashes.
Grow(n) == IF n > capacity THEN n + Slack ELSE capacity

\* dataTo.erase(u), and dataFrom.erase(u), in the entries of the users of S.
EraseTo(t, S, u) ==
    [x \in DOMAIN t |->
        IF x \in S THEN [t[x] EXCEPT !.dataTo = Erase(@, u)] ELSE t[x]]

EraseFrom(t, S, u) ==
    [x \in DOMAIN t |->
        IF x \in S THEN [t[x] EXCEPT !.dataFrom = @ \ {u}] ELSE t[x]]

\* The entry of u goes, after u is erased from the dataTo of the users of back
\* and from the dataFrom of the users of forth.
Removed(t, u, back, forth) ==
    Erase(EraseFrom(EraseTo(t, back, u), forth, u), u)

Ack(type, a) == [type |-> type, to |-> a]

Media(a) == [type |-> "MEDIA", to |-> a]

-----------------------------------------------------------------------------
(* Logging in.                                                             *)

Idle == unvisited = {}

\* Slip: only a user without an entry is sent to verification.
VerifyAbsentOnly(m) == m.user \notin DOMAIN table

NeedsVerification(m) ==
    m.user \in DOMAIN table => /\ table[m.user].addr # m.addr
                               /\ table[m.user].sessionId # m.sessionId

\* Slip: the refresh of a known user also takes over its address.
RefreshTakesAddr(m) ==
    /\ Idle
    /\ \/ /\ NeedsVerification(m)
          /\ \E w \in Works \ DOMAIN verifying :
                verifying' = [x \in DOMAIN verifying \cup {w} |->
                                 IF x = w THEN m ELSE verifying[x]]
          /\ out' = {}
          /\ UNCHANGED table
       \/ /\ ~NeedsVerification(m)
          /\ out' = {Ack("ACK_LOGIN", m.addr)}
          /\ table' = [table EXCEPT ![m.user].expireIn = Lifetime,
                                    ![m.user].addr = m.addr]
          /\ UNCHANGED verifying
    /\ UNCHANGED <<capacity, unvisited, sweepIn>>

\* A first login, or one whose address and session both changed, is queued on
\* the thread pool; any other is acknowledged at once and refreshes the entry.
OnRecvLoginMsg(m) ==
    /\ Idle
    /\ \/ /\ NeedsVerification(m)
          /\ \E w \in Works \ DOMAIN verifying :
                verifying' = [x \in DOMAIN verifying \cup {w} |->
                                 IF x = w THEN m ELSE verifying[x]]
          /\ out' = {}
          /\ UNCHANGED table
       \/ /\ ~NeedsVerification(m)
          /\ out' = {Ack("ACK_LOGIN", m.addr)}
          /\ table' = [table EXCEPT ![m.user].expireIn = Lifetime]
          /\ UNCHANGED verifying
    /\ UNCHANGED <<capacity, unvisited, sweepIn>>

\* What the worker thread may answer: anything if an http interface decides,
\* and always yes if none is configured.
ID_Verification == IF LoginUrlSet THEN BOOLEAN ELSE {TRUE}

OnUpdateLoginInfo(m) ==
    /\ out' = {Ack("ACK_LOGIN", m.addr)}
    /\ table' = Insert(table, m.user, [addr      |-> m.addr,
                                       sessionId |-> m.sessionId,
                                       expireIn  |-> Lifetime,
                                       dataTo    |-> Nobody,
                                       dataFrom  |-> {}])
    /\ capacity' = Grow(Cardinality(DOMAIN table'))

AfterVerification(w) ==
    /\ Idle
    /\ w \in DOMAIN verifying
    /\ verifying' = Erase(verifying, w)
    /\ \E success \in ID_Verification :
          \/ /\ success
             /\ OnUpdateLoginInfo(verifying[w])
          \/ /\ ~success
             /\ out' = {}
             /\ UNCHANGED <<table, capacity>>
    /\ UNCHANGED <<unvisited, sweepIn>>

-----------------------------------------------------------------------------
(* Logging out and leaving the room.                                       *)

\* Slip: the UDP logout forgets the users that send to u.
LogoutKeepsForwards(u, a) ==
    /\ Idle
    /\ out' = {Ack("ACK_LOGOUT", a)}
    /\ table' = Erase(table, u)
    /\ UNCHANGED <<capacity, verifying, unvisited, sweepIn>>

\* The UDP logout.  It cleans the dataTo of the users that send to u, through
\* operator[], and leaves u in the dataFrom of the users u sends to.
OnRecvLogoutMsg(u, a) ==
    /\ Idle
    /\ out' = {Ack("ACK_LOGOUT", a)}
    /\ \/ /\ u \notin DOMAIN table
          /\ UNCHANGED <<table, capacity>>
       \/ /\ u \in DOMAIN table
          /\ LET from    == table[u].dataFrom
                 touched == Touch(table, from)
             IN  /\ table' = Removed(touched, u, from, {})
                 /\ capacity' = Grow(Cardinality(DOMAIN touched))
    /\ UNCHANGED <<verifying, unvisited, sweepIn>>

\* The logout the signaling server asks for.  It cleans both directions.
OnLogout(u) ==
    /\ Idle
    /\ out' = {}
    /\ \/ /\ u \notin DOMAIN table
          /\ UNCHANGED table
       \/ /\ u \in DOMAIN table
          /\ table' = Removed(table, u, table[u].dataFrom \ {u},
                              DOMAIN table[u].dataTo \ {u})
    /\ UNCHANGED <<capacity, verifying, unvisited, sweepIn>>

\* Slip: leaving the room empties u's own entry and nothing else.
LeaveKeepsForwards(u) ==
    /\ Idle
    /\ out' = {}
    /\ table' = [x \in DOMAIN table |->
                    IF x = u THEN [table[x] EXCEPT !.dataFrom = {}, !.dataTo = Nobody]
                    ELSE table[x]]
    /\ UNCHANGED <<capacity, verifying, unvisited, sweepIn>>

\* Leaving the room empties both directions of u's own entry, but only the
\* dataTo of the others: the users u sent to keep it in their dataFrom.
OnReqLeaveRoom(u) ==
    /\ Idle
    /\ out' = {}
    /\ \/ /\ u \notin DOMAIN table
          /\ UNCHANGED table
       \/ /\ u \in DOMAIN table
          /\ table' = [EraseTo(table, table[u].dataFrom, u) EXCEPT
                          ![u].dataFrom = {},
                          ![u].dataTo = Nobody]
    /\ UNCHANGED <<capacity, verifying, unvisited, sweepIn>>

-----------------------------------------------------------------------------
(* Changing the forwarding table and forwarding.                           *)

AddForward(src, dst) ==
    LET linked == [table EXCEPT
                      ![src].dataTo = [x \in DOMAIN @ \cup {dst} |->
                          IF x = dst THEN table[dst].addr ELSE @[x]]]
    IN  [linked EXCEPT ![dst].dataFrom = @ \cup {src}]

DelForward(src, dst) ==
    EraseFrom(EraseTo(table, {src}, dst), {dst}, src)

OnReqUpdateForwardTable(src, dst, add) ==
    /\ Idle
    /\ out' = {}
    /\ \/ /\ ~({src, dst} \subseteq DOMAIN table)
          /\ UNCHANGED table
       \/ /\ {src, dst} \subseteq DOMAIN table
          /\ table' = IF add THEN AddForward(src, dst) ELSE DelForward(src, dst)
    /\ UNCHANGED <<capacity, verifying, unvisited, sweepIn>>

OnRecvSingleForwardMsg(dst) ==
    /\ Idle
    /\ out' = {Media(table[d].addr) : d \in {dst} \cap DOMAIN table}
    /\ UNCHANGED <<table, capacity, verifying, unvisited, sweepIn>>

\* Media goes to the addresses cached in dataTo, not to those of the entries.
OnRecvMultiForwardMsg(u) ==
    /\ Idle
    /\ out' = UNION {{Media(a) : a \in Range(table[s].dataTo)} :
                        s \in {u} \cap DOMAIN table}
    /\ UNCHANGED <<table, capacity, verifying, unvisited, sweepIn>>

\* What the signaling server is told when it asks for a user's address.
P2PAddr(u) == IF u \in DOMAIN table
              THEN [success |-> TRUE, addr |-> table[u].addr]
              ELSE [success |-> FALSE, addr |-> NoAddr]

OnReqP2PAddr(u) ==
    /\ Idle
    /\ out' = {}
    /\ UNCHANGED <<table, capacity, verifying, unvisited, sweepIn>>

-----------------------------------------------------------------------------
(* Time and the sweep.                                                     *)

\* Slip: a login whose last tick has come counts as run out.
ExpiredEarly(u) == table[u].expireIn <= 0

Expired(u) == table[u].expireIn < 0

\* The timer is served before time moves on.
Tick ==
    /\ Idle
    /\ sweepIn > 0
    /\ sweepIn' = sweepIn - 1
    /\ table' = [u \in DOMAIN table |->
                    [table[u] EXCEPT !.expireIn = IF @ < 0 THEN @ ELSE @ - 1]]
    /\ out' = {}
    /\ UNCHANGED <<capacity, verifying, unvisited>>

\* Slip: the timer is armed again for longer than its period.
OfflineDetectionLate ==
    /\ Idle
    /\ sweepIn = 0
    /\ sweepIn' = Timeout + 1
    /\ unvisited' = DOMAIN table
    /\ out' = {}
    /\ UNCHANGED <<table, capacity, verifying>>

OfflineDetection ==
    /\ Idle
    /\ sweepIn = 0
    /\ sweepIn' = Timeout
    /\ unvisited' = DOMAIN table
    /\ out' = {}
    /\ UNCHANGED <<table, capacity, verifying>>

\* The entries the sweep of u names through operator[].
SweepTouches(u) == (table[u].dataFrom \cup DOMAIN table[u].dataTo) \ {u}

\* Slip: the walk steps over entries after every removal (it++ twice).
SweepStepsOver(u) ==
    /\ u \in unvisited
    /\ Expired(u)
    /\ LET touched == Touch(table, SweepTouches(u))
       IN  /\ table' = Removed(touched, u, table[u].dataFrom \ {u},
                              DOMAIN table[u].dataTo \ {u})
           /\ capacity' = Grow(Cardinality(DOMAIN touched))
           /\ \E missed \in SUBSET (unvisited \ {u}) :
                 unvisited' = unvisited \ ({u} \cup missed)
    /\ out' = {}
    /\ UNCHANGED <<verifying, sweepIn>>

\* The sweep reaches an expired entry.  The entries it creates may or may not
\* lie ahead of it, and if they make the table rehash, the walk goes on in the
\* new order and can miss any of the entries it had not reached.
SweepExpired(u) ==
    /\ u \in unvisited
    /\ Expired(u)
    /\ LET touched == Touch(table, SweepTouches(u))
           created == DOMAIN touched \ DOMAIN table
           ahead   == unvisited \ {u}
           rehash  == Cardinality(DOMAIN touched) > capacity /\ created # {}
       IN  /\ table' = Removed(touched, u, table[u].dataFrom \ {u},
                              DOMAIN table[u].dataTo \ {u})
           /\ capacity' = Grow(Cardinality(DOMAIN touched))
           /\ \E new \in SUBSET created, missed \in SUBSET ahead :
                 /\ ~rehash => missed = {}
                 /\ unvisited' = (ahead \ missed) \cup new
    /\ out' = {}
    /\ UNCHANGED <<verifying, sweepIn>>

SweepFresh(u) ==
    /\ u \in unvisited
    /\ ~Expired(u)
    /\ unvisited' = unvisited \ {u}
    /\ out' = {}
    /\ UNCHANGED <<table, capacity, verifying, sweepIn>>

-----------------------------------------------------------------------------

\* Datagrams from clients.
Receive ==
    \/ \E m \in Login : OnRecvLoginMsg(m)
    \/ \E u \in Users, a \in Addrs : OnRecvLogoutMsg(u, a)
    \/ \E u \in Users : OnRecvSingleForwardMsg(u)
    \/ \E u \in Users : OnRecvMultiForwardMsg(u)

\* Calls of the signaling server.
Request ==
    \/ \E u \in Users : OnLogout(u)
    \/ \E u \in Users : OnReqLeaveRoom(u)
    \/ \E src, dst \in Users, add \in BOOLEAN :
          OnReqUpdateForwardTable(src, dst, add)
    \/ \E u \in Users : OnReqP2PAddr(u)

\* What the loop does by itself.
Internal ==
    \/ \E w \in Works : AfterVerification(w)
    \/ Tick
    \/ OfflineDetection
    \/ \E u \in Users : SweepExpired(u)
    \/ \E u \in Users : SweepFresh(u)

Next == Receive \/ Request \/ Internal

Spec == Init /\ [][Next]_vars

Sweep == \E u \in Users : SweepExpired(u) \/ SweepFresh(u)

\* The loop thread keeps running: time passes, the timer is served, a sweep
\* gets on, and a verification comes back.
Fairness ==
    /\ WF_vars(Tick)
    /\ WF_vars(OfflineDetection)
    /\ WF_vars(Sweep)
    /\ \A w \in Works : WF_vars(AfterVerification(w))

-----------------------------------------------------------------------------
(* Properties.                                                             *)

\* Every forward leads to a user who is in the table, who knows the sender as
\* one of its sources, and whose address is the one the sender cached: a
\* media packet never goes to the address of a user who is gone or moved
\* (dataTo and dataFrom in media_server.h, kept in step by every handler that
\* removes, links or empties an entry).
Consistent(t) ==
    \A s \in DOMAIN t : \A d \in DOMAIN t[s].dataTo :
        /\ d \in DOMAIN t
        /\ s \in t[d].dataFrom
        /\ t[s].dataTo[d] = t[d].addr

ForwardConsistent == Consistent(table)

-----------------------------------------------------------------------------
(* The table as a plain relation between users: the refinement mapping.    *)

addrOf == [u \in DOMAIN table |-> table[u].addr]

links == {l \in (DOMAIN table) \X Users : l[2] \in DOMAIN table[l[1]].dataTo}

sent == {m.to : m \in {d \in out : d.type = "MEDIA"}}

Graph == INSTANCE ForwardGraph

\* The table with its cached addresses and reverse sets implements the relation:
\* whatever the interleaving of logins, logouts, sweeps and requests, media goes
\* to the current addresses of exactly the users the sender is linked to, and a
\* user who goes takes all its links with it.
ImplementsForwardGraph == Graph!Spec

-----------------------------------------------------------------------------
(* Who is in the table, and for how long.                                  *)

\* A user enters the table only by the verified login that gives its address
\* and session, or as a phantom; in particular a datagram that was never
\* verified changes nobody's address (OnRecvLoginMsg, AfterVerification).
EntersVerified ==
    [][\A u \in DOMAIN table' :
         \/ u \in DOMAIN table /\ table'[u].addr = table[u].addr
         \/ table'[u] = ZeroEntry
         \/ \E w \in DOMAIN verifying \ DOMAIN verifying' :
               verifying[w] = [user |-> u, addr |-> table'[u].addr,
                               sessionId |-> table'[u].sessionId]]_vars

\* The sweep throws out only users whose login has run out, whatever order it
\* meets the entries in and whatever entries it creates on the way.
SweepSparesFresh ==
    [][unvisited # {} =>
         \A u \in DOMAIN table : table[u].expireIn >= 0 => u \in DOMAIN table']_vars

Phantom(u) == u \in DOMAIN table /\ table[u].addr = NoAddr

\* No login keeps a phantom alive: its session is 0, so a client whose session
\* is not 0 is sent to verification instead of refreshing it (OnRecvLoginMsg).
PhantomsExpired ==
    NoSession \notin Sessions =>
        \A u \in DOMAIN table : Phantom(u) => table[u].expireIn < 0

\* A user who stops refreshing its login leaves the table.  A sweep whose phantoms
\* make the table rehash may miss it, but not sweep after sweep, whoever logs in, is
\* linked, logs out and leaves phantoms meanwhile (offlineDetection).
ExpiredGoes ==
    \A u \in Users : (u \in DOMAIN table /\ table[u].expireIn < 0)
                    ~> (u \in DOMAIN table => table[u].expireIn >= 0)

\* A phantom does not keep its user out for ever.
PhantomGoes == \A u \in Users : Phantom(u) ~> ~Phantom(u)

=============================================================================
