----------------------------- MODULE MCSearches -----------------------------
(* Model values for the run of Searches. *)
EXTENDS Searches

CONSTANTS e1, e2

\* Nodes near and far from the target share an endpoint.
TwoHomes == [n \in Nodes |-> IF n % 3 = 0 THEN e2 ELSE e1]
=============================================================================
