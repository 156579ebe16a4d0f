--------------------------- MODULE MCRelayServer ---------------------------
EXTENDS RelayServer, TLC

Symmetry == Permutations(Users) \cup Permutations(Clients) \cup
            Permutations(Works)

=============================================================================
