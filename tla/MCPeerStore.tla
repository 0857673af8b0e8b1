---------------------------- MODULE MCPeerStore ----------------------------
(* Model values for the run of PeerStore. *)
EXTENDS PeerStore, TLC

CONSTANTS k1, k2, k3, p1, p2

\* Keys and peers are interchangeable.
Symmetry == Permutations(Keys) \cup Permutations(Announcers)
=============================================================================
