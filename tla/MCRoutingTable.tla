--------------------------- MODULE MCRoutingTable ---------------------------
(* Model values for the run of RoutingTable. *)
EXTENDS RoutingTable

CONSTANTS e1, e2

\* Three nodes for one bucket away from the local ID 0, and a fourth on the way
\* to them, two splits from 0, which is heard from two endpoints.
FourNodes == {<<2, e1>>, <<2, e2>>, <<4, e1>>, <<5, e1>>, <<6, e1>>}

\* The bootstrap node shares its bucket with others.
Helper == {<<5, e1>>}
=============================================================================
