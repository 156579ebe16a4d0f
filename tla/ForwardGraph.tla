---------------------------- MODULE ForwardGraph ----------------------------
(***************************************************************************)
(* What the media server promises: a relation between users who are in the *)
(* table, each at one address, and media that reaches the current address  *)
(* of exactly the users a sender is linked to.  There are no cached        *)
(* addresses and no reverse sets here, and no time: a user may be dropped  *)
(* at any moment.                                                          *)
(***************************************************************************)
EXTENDS Functions

CONSTANTS Users, Addrs, NoAddr

VARIABLES
    addrOf, \* the address of each user in the table
    links,  \* <<s, d>>: the media of s is forwarded to d
    sent    \* the addresses the last step sent media to

gvars == <<addrOf, links, sent>>

Members == DOMAIN addrOf

Init ==
    /\ addrOf = [u \in {} |-> NoAddr]
    /\ links = {}
    /\ sent = {}

Touching(u) == {l \in links : u \in {l[1], l[2]}}

Join(u, a) ==
    /\ u \notin Members
    /\ addrOf' = [x \in Members \cup {u} |-> IF x = u THEN a ELSE addrOf[x]]
    /\ sent' = {}
    /\ UNCHANGED links

\* A user goes, and its links with it.  Phantoms may appear in its place:
\* users nobody logged in, at no address and with no link.
Drop(u, phantoms) ==
    /\ u \in Members
    /\ phantoms \cap Members = {}
    /\ addrOf' = [x \in (Members \cup phantoms) \ {u} |->
                     IF x \in Members THEN addrOf[x] ELSE NoAddr]
    /\ links' = links \ Touching(u)
    /\ sent' = {}

\* A user leaves its room: it stays, without links.
Isolate(u) ==
    /\ u \in Members
    /\ links' = links \ Touching(u)
    /\ sent' = {}
    /\ UNCHANGED addrOf

Link(s, d) ==
    /\ {s, d} \subseteq Members
    /\ links' = links \cup {<<s, d>>}
    /\ sent' = {}
    /\ UNCHANGED addrOf

Unlink(s, d) ==
    /\ links' = links \ {<<s, d>>}
    /\ sent' = {}
    /\ UNCHANGED addrOf

Multicast(s) ==
    /\ sent' = {addrOf[d] : d \in {x \in Members : <<s, x>> \in links}}
    /\ UNCHANGED <<addrOf, links>>

Unicast(d) ==
    /\ d \in Members
    /\ sent' = {addrOf[d]}
    /\ UNCHANGED <<addrOf, links>>

Quiet ==
    /\ sent' = {}
    /\ UNCHANGED <<addrOf, links>>

Next ==
    \/ \E u \in Users, a \in Addrs : Join(u, a)
    \/ \E u \in Users, phantoms \in SUBSET Users : Drop(u, phantoms)
    \/ \E u \in Users : Isolate(u) \/ Multicast(u) \/ Unicast(u)
    \/ \E s, d \in Users : Link(s, d) \/ Unlink(s, d)
    \/ Quiet

Spec == Init /\ [][Next]_gvars

=============================================================================
