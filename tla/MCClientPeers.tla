---------------------------- MODULE MCClientPeers ----------------------------
(* Symmetry of the client's instance.                                      *)
EXTENDS ClientPeers, TLC

PeersAlike == Permutations(Peers)
=============================================================================
