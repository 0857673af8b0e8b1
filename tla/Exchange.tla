------------------------------ MODULE Exchange ------------------------------
(***************************************************************************)
(* What DHTNode.query (includes/dht.py) promises the tasks that await it,  *)
(* with no transaction IDs, timers or semaphores: a query is asked once,   *)
(* goes out once and ends once, in an answer only if one was heard while   *)
(* it was out; a bounded number of queries is out at any time; nothing is  *)
(* sent or heard once the node is closed.                                  *)
(***************************************************************************)
EXTENDS Integers, FiniteSets

CONSTANTS
    Queries,    \* the calls of query()
    MaxOut      \* DHT_MAX_PENDING_REQUESTS

VARIABLES
    phase,      \* per query: how far it is
    outcome,    \* per query: how it ended
    heard,      \* the queries that have been answered
    closed      \* the node has stopped to take datagrams

vars == <<phase, outcome, heard, closed>>

Phases == {"idle", "waiting", "out", "ended"}
Outcomes == {"none", "answer", "error", "timeout", "closed", "cancelled"}

Init ==
    /\ phase = [q \in Queries |-> "idle"]
    /\ outcome = [q \in Queries |-> "none"]
    /\ heard = {}
    /\ closed = FALSE

Out == {q \in Queries : phase[q] = "out"}

Ask(q) ==
    /\ phase[q] = "idle"
    /\ phase' = [phase EXCEPT ![q] = "waiting"]
    /\ UNCHANGED <<outcome, heard, closed>>

Send(q) ==
    /\ ~ closed
    /\ phase[q] = "waiting"
    /\ Cardinality(Out) < MaxOut
    /\ phase' = [phase EXCEPT ![q] = "out"]
    /\ UNCHANGED <<outcome, heard, closed>>

Hear(q) ==
    /\ ~ closed
    /\ phase[q] = "out"
    /\ heard' = heard \cup {q}
    /\ UNCHANGED <<phase, outcome, closed>>

\* How a query may end now.
Ends(q) ==
    CASE phase[q] = "idle"    -> IF closed THEN {"closed"} ELSE {}
      [] phase[q] = "waiting" -> {"cancelled"} \cup IF closed THEN {"closed"} ELSE {}
      [] phase[q] = "out"     -> {"cancelled", "timeout"}
                                    \cup (IF q \in heard THEN {"answer", "error"} ELSE {})
                                    \cup (IF closed THEN {"closed"} ELSE {})
      [] OTHER                -> {}

End(q) ==
    /\ \E o \in Ends(q) : outcome' = [outcome EXCEPT ![q] = o]
    /\ phase' = [phase EXCEPT ![q] = "ended"]
    /\ UNCHANGED <<heard, closed>>

Close ==
    /\ ~ closed
    /\ closed' = TRUE
    /\ UNCHANGED <<phase, outcome, heard>>

Next ==
    \/ Close
    \/ \E q \in Queries : Ask(q) \/ Send(q) \/ Hear(q) \/ End(q)

Spec == Init /\ [][Next]_vars

\* Whoever asks gets an end.
AsksEnd == \A q \in Queries : phase[q] = "waiting" ~> phase[q] = "ended"
=============================================================================
