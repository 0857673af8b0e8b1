------------------------------ MODULE Searches ------------------------------
(***************************************************************************)
(* The two walks through the DHT of includes/dht.py: iterative_get_peers,  *)
(* which asks a few nodes at a time for the peers of a key, and            *)
(* bep51_once, which asks one node after the other for samples of its      *)
(* keys.  Both keep a shortlist of contacts, go on with the closest ones   *)
(* they have not asked, and learn of closer ones from the answers.         *)
(*                                                                         *)
(* A node is its XOR distance to the target.  A query ends sooner or       *)
(* later, whatever the network does: that is what module Exchange says of  *)
(* DHTNode.query, and here an answer is any outcome of one.  An answer     *)
(* that fails or says nothing useful names no node and no peer.            *)
(***************************************************************************)
EXTENDS Integers, FiniteSets

CONSTANTS
    Nodes,        \* the other nodes: their distances to the target
    Allowed,      \* those whose endpoint passes endpoint_allowed
    Endpoints,    \* where nodes are reached by bep51_once
    Home,         \* the endpoint of each node at first
    Peers,        \* peers of the key, in the order in which an answer has them
    K,            \* DHT_K
    Parallelism,  \* DHT_LOOKUP_PARALLELISM
    MaxQueries,   \* MAX_DHT_QUERIES_PER_TORRENT
    MaxPeers,     \* MAX_PEERS_PER_TORRENT
    Nowhere,      \* no endpoint
    MaxMoves      \* bound: contacts that move to another endpoint

ASSUME SearchAssumption ==
    /\ Nodes \subseteq Nat /\ Allowed \subseteq Nodes /\ Peers \subseteq Nat
    /\ IsFiniteSet(Nodes) /\ IsFiniteSet(Peers)
    /\ K \in Nat \ {0} /\ Parallelism \in Nat \ {0}
    /\ MaxQueries \in Nat /\ MaxPeers \in Nat /\ MaxMoves \in Nat
    /\ Nowhere \notin Endpoints /\ Home \in [Nodes -> Endpoints]

VARIABLES
    kind,       \* which of the two coroutines this is
    pc,         \* "walk": between two rounds; "ask": awaits queries; "done"
    shortlist,  \* the contacts it knows
    visited,    \* those it has asked (or passed over)
    asking,     \* those whose queries are running
    count,      \* query_count, or the number of nodes processed
    lookup,     \* what only iterative_get_peers has
    sampler     \* what only bep51_once has

vars == <<kind, pc, shortlist, visited, asking, count, lookup, sampler>>

\* late: the deadline has passed; previous: previous_frontier; peers: those
\* found; size: the number of queries of the round.
Lookup == [late : BOOLEAN, previous : SUBSET Nodes, peers : SUBSET Peers,
           size : 0..Parallelism]

\* endpoint: of each contact; waits: the endpoints whose next sample is not due
\* (_bep51_state); limit: max_nodes; target: where the running query went;
\* heeded: how many of its queries an endpoint has answered with an interval;
\* moves: bounded counter.
Sampler == [endpoint : [Nodes -> Endpoints], waits : SUBSET Endpoints,
            limit : {0, 1, K}, target : Endpoints \cup {Nowhere},
            heeded : [Endpoints -> Nat], moves : 0..MaxMoves]

TypeOK ==
    /\ kind \in {"get_peers", "bep51"}
    /\ pc \in {"walk", "ask", "done"}
    /\ shortlist \subseteq Nodes /\ visited \subseteq shortlist
    /\ asking \subseteq visited
    /\ count \in Nat
    /\ lookup \in Lookup
    /\ sampler \in Sampler

\* The k closest nodes of a set.
Closest(S, k) == {n \in S : Cardinality({m \in S : m < n}) < k}

Larger(a, b) == IF a > b THEN a ELSE b
NotHeeded == [e \in Endpoints |-> 0]

\* Both start with the closest contacts of the routing table, which may be any.
\* How far bep51_once goes depends on the utilization of the torrent queue; at
\* the high watermark it does nothing.  The fields of the coroutine that this
\* is not have one value.
Init ==
    /\ kind \in {"get_peers", "bep51"}
    /\ pc = "walk"
    /\ shortlist \in SUBSET Nodes
    /\ Cardinality(shortlist) <=
          IF kind = "get_peers" THEN Larger(K, Parallelism) ELSE K
    /\ visited = {} /\ asking = {} /\ count = 0
    /\ lookup = [late |-> FALSE, previous |-> {}, peers |-> {}, size |-> 0]
    /\ sampler \in
          [endpoint : {Home},
           waits : IF kind = "bep51" THEN SUBSET Endpoints ELSE {{}},
           limit : IF kind = "bep51" THEN {0, 1, K} ELSE {0},
           target : {Nowhere}, heeded : {NotHeeded}, moves : {0}]

-----------------------------------------------------------------------------
(* iterative_get_peers *)

\* Mutated form: the budget is not looked at.
WithinLimits_NoBudget ==
    /\ ~ lookup.late
    /\ Cardinality(lookup.peers) < MaxPeers

\* The condition of the while loop, looked at once per round.
WithinLimits ==
    /\ ~ lookup.late
    /\ count < MaxQueries
    /\ Cardinality(lookup.peers) < MaxPeers

Frontier == Closest(shortlist, K)
Batch == Closest((shortlist \cap Allowed) \ visited, Parallelism)

\* Mutated form: the search stops when a round has brought no closer node,
\* though some of the closest have not been asked.
Converged_Early == lookup.previous = Frontier

\* The last round changed nothing, and all of the closest nodes were asked.
Converged == lookup.previous = Frontier /\ Frontier \subseteq visited

Goes == WithinLimits /\ Batch # {} /\ ~ Converged

StartRound ==
    /\ kind = "get_peers" /\ pc = "walk"
    /\ Goes
    /\ pc' = "ask"
    /\ asking' = Batch
    /\ visited' = visited \cup Batch
    /\ count' = count + Cardinality(Batch)
    /\ lookup' = [lookup EXCEPT !.previous = Frontier,
                               !.size = Cardinality(Batch)]
    /\ UNCHANGED <<kind, shortlist, sampler>>

\* One of the parallel queries ends; asyncio.gather waits for the others.
QueryEnds(n) ==
    /\ kind = "get_peers" /\ n \in asking
    /\ asking' = asking \ {n}
    /\ UNCHANGED <<kind, pc, shortlist, visited, count, lookup, sampler>>

\* The peers one answer adds: its loop stops when there are enough, but only
\* after it has added one.
Enough(peers, values) ==
    LET new == values \ peers
        room == MaxPeers - Cardinality(peers)
    IN  peers \cup Closest(new, IF room > 0 THEN room ELSE 1)

\* The peers after each of the first answers; what an answer has is arbitrary.
Collected(found) ==
    /\ found[0] = lookup.peers
    /\ \A i \in 1..lookup.size :
          \E values \in SUBSET Peers : found[i] = Enough(found[i - 1], values)

\* All answers have come; they are worked through in the order of the queries.
EndRound ==
    /\ kind = "get_peers" /\ pc = "ask" /\ asking = {}
    /\ \E named \in SUBSET Allowed :
          shortlist' = shortlist \cup named
    /\ \E found \in [0..lookup.size -> SUBSET Peers] :
          /\ Collected(found)
          /\ lookup' = [lookup EXCEPT !.peers = found[lookup.size]]
    /\ pc' = "walk"
    /\ UNCHANGED <<kind, visited, asking, count, sampler>>

DeadlinePasses ==
    /\ kind = "get_peers" /\ pc # "done" /\ ~ lookup.late
    /\ lookup' = [lookup EXCEPT !.late = TRUE]
    /\ UNCHANGED <<kind, pc, shortlist, visited, asking, count, sampler>>

-----------------------------------------------------------------------------
(* bep51_once *)

Unvisited == shortlist \ visited

\* Mutated form: a node whose sample is not due is passed over, and met again.
Marked_WhenAsked(n) ==
    IF sampler.endpoint[n] \in sampler.waits THEN visited ELSE visited \cup {n}

Marked(n) == visited \cup {n}

\* The closest node not looked at yet is asked, unless its endpoint wants to be
\* left alone.  There is no await on the way to the next node in that case.
Visit(n) ==
    /\ kind = "bep51" /\ pc = "walk"
    /\ count < sampler.limit
    /\ n \in Closest(Unvisited, 1)
    /\ visited' = Marked(n)
    /\ IF sampler.endpoint[n] \in sampler.waits
       THEN UNCHANGED <<pc, asking, sampler>>
       ELSE /\ pc' = "ask"
            /\ asking' = {n}
            /\ sampler' = [sampler EXCEPT !.target = sampler.endpoint[n]]
    /\ UNCHANGED <<kind, shortlist, count, lookup>>

\* Mutated form: only a node that does not know the method is remembered.
Remembered_Unsupported(n, supported) ==
    IF supported THEN sampler.waits
    ELSE sampler.waits \cup {sampler.endpoint[n]}

\* _remember_bep51, with the endpoint the contact has by now.  The time that is
\* remembered is later than the start of this call, DHT_BEP51_GLOBAL_INTERVAL
\* being positive, and nothing is forgotten before the next one.
Remembered(n, supported) == sampler.waits \cup {sampler.endpoint[n]}

\* The answer to a sample_infohashes query: samples, with closer nodes, or the
\* error 204 of a node that does not know it.
Heed(n, supported) ==
    /\ kind = "bep51" /\ pc = "ask" /\ n \in asking
    /\ pc' = "walk"
    /\ asking' = {}
    /\ sampler' = [sampler EXCEPT !.waits = Remembered(n, supported),
                                  !.heeded[sampler.target] = @ + 1]
    /\ IF supported
       THEN /\ count' = count + 1
            /\ \E named \in SUBSET Allowed : shortlist' = shortlist \cup named
       ELSE UNCHANGED <<count, shortlist>>
    /\ UNCHANGED <<kind, visited, lookup>>

\* The query fails: another error, a timeout, no room.  Nothing is remembered.
Fail(n) ==
    /\ kind = "bep51" /\ pc = "ask" /\ n \in asking
    /\ pc' = "walk"
    /\ asking' = {}
    /\ UNCHANGED <<kind, shortlist, visited, count, lookup, sampler>>

\* A contact that is being asked answers a query of somebody else from another
\* endpoint: the routing table moves it there.
Move(n, e) ==
    /\ kind = "bep51" /\ n \in asking /\ sampler.moves < MaxMoves
    /\ e # sampler.endpoint[n]
    /\ sampler' = [sampler EXCEPT !.endpoint[n] = e, !.moves = @ + 1]
    /\ UNCHANGED <<kind, pc, shortlist, visited, asking, count, lookup>>

-----------------------------------------------------------------------------
GoesOn == IF kind = "get_peers" THEN Goes
          ELSE count < sampler.limit /\ Unvisited # {}

\* The loop is left; peers[: MAX_PEERS_PER_TORRENT] is returned.
Finish ==
    /\ pc = "walk" /\ ~ GoesOn
    /\ pc' = "done"
    /\ UNCHANGED <<kind, shortlist, visited, asking, count, lookup, sampler>>

Answers ==
    \/ \E n \in Nodes : QueryEnds(n)
    \/ \E n \in Nodes, supported \in BOOLEAN : Heed(n, supported)
    \/ \E n \in Nodes : Fail(n)

Steps ==
    \/ StartRound \/ EndRound \/ Finish
    \/ \E n \in Nodes : Visit(n)

Next ==
    \/ Steps \/ Answers \/ DeadlinePasses
    \/ \E n \in Nodes, e \in Endpoints : Move(n, e)

Spec == Init /\ [][Next]_vars

\* Every query ends (Krpc's QueriesEnd), and the event loop goes on.
FairSpec == Spec /\ WF_vars(Steps) /\ WF_vars(Answers)

-----------------------------------------------------------------------------
(* Properties *)

\* A lookup asks at most MAX_DHT_QUERIES_PER_TORRENT nodes and the rest of a
\* round, although the budget and the peers are looked at once per round; each
\* answer of a round that comes too late for the limit adds one peer more at
\* most.  No more than max_nodes nodes are sampled, and none twice.
WalkBounded ==
    /\ TypeOK
    /\ kind = "get_peers" =>
          /\ count <= MaxQueries + Parallelism - 1
          /\ Cardinality(visited) = count
          /\ Cardinality(lookup.peers) <= MaxPeers + Parallelism - 1
    /\ kind = "bep51" => count <= sampler.limit

\* A lookup that is not cut short (deadline, budget, enough peers) has asked
\* the K closest of all nodes it knows, of those that may be asked: it does not
\* stop while a closer node is left that may know the peers.
ClosestAsked ==
    kind = "get_peers" /\ pc = "done" /\ WithinLimits =>
        Closest(shortlist, K) \cap Allowed \subseteq visited

\* Many IDs may share an endpoint, but an endpoint that has told when it wants
\* to be asked again is not asked once more in the same call; a contact that
\* moves while it is asked is remembered at its new endpoint, and lets its old
\* one be asked again.
HeededOnce ==
    \A e \in Endpoints : sampler.heeded[e] <= 1 + sampler.moves

\* Each walk comes to its end, whatever the nodes name and however many of them
\* are passed over or fail.
SearchEnds == <>(pc = "done")
=============================================================================
