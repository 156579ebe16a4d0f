--------------------------- MODULE MCMediaServer ---------------------------
EXTENDS MediaServer, TLC

Symmetry == Permutations(Users) \cup Permutations(Works)

\* For the liveness runs: the handlers that change the table.  Those that only send,
\* the UDP logout, which the client never sends, and links of a user with itself are
\* left to the safety run.
ProgressNext ==
    \/ \E m \in Login : OnRecvLoginMsg(m)
    \/ \E u \in Users : OnLogout(u) \/ OnReqLeaveRoom(u)
    \/ \E src \in Users, add \in BOOLEAN : \E dst \in Users \ {src} :
          OnReqUpdateForwardTable(src, dst, add)
    \/ Internal

ProgressSpec == Init /\ [][ProgressNext]_vars /\ Fairness

=============================================================================
