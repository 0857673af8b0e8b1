--------------------------- MODULE DHTNodeProofs ---------------------------
(***************************************************************************)
(* Proofs about three parts of DHTNode that keep their state to            *)
(* themselves: the walks (Searches), the announced peers (PeerStore) and   *)
(* the tokens (TokenManager), for any number of nodes, keys and peers and  *)
(* any limits and intervals that the configuration allows, and without a   *)
(* bound on the clocks (MaxNow and MaxTime are arbitrary).                 *)
(***************************************************************************)
EXTENDS Searches, PeerStore, TokenManager, FiniteSetTheorems,
        WellFoundedInduction, TLAPS

-----------------------------------------------------------------------------
(* Counting *)

(***************************************************************************)
(* A set of numbers that is not empty has a smallest member.               *)
(***************************************************************************)
LEMMA Smallest ==
  ASSUME NEW S \in SUBSET Nat, S # {}
  PROVE  \E n \in S : \A m \in S : ~ (m < n)
<1>1. PICK n \in S : \A m \in S : ~ (<<m, n>> \in OpToRel(<, Nat))
  BY WFMin, NatLessThanWellFounded, Zenon
<1>2. \A m \in S : ~ (m < n)
  BY <1>1, Zenon DEF OpToRel
<1> QED  BY <1>2

\* The members of a set of numbers that are below one.
Below(S, n) == {m \in S : m < n}

(***************************************************************************)
(* The nodes of any set are finitely many, and so are those of a subset.   *)
(***************************************************************************)
LEMMA BelowFinite ==
  ASSUME NEW S \in SUBSET Nat, IsFiniteSet(S), NEW n
  PROVE  IsFiniteSet(Below(S, n)) /\ Cardinality(Below(S, n)) \in Nat
<1>1. Below(S, n) \in SUBSET S
  BY DEF Below
<1>2. IsFiniteSet(Below(S, n))
  BY <1>1, FS_Subset
<1> QED  BY <1>2, FS_CardinalityType

(***************************************************************************)
(* More members of a set are below a larger one of it.                     *)
(***************************************************************************)
LEMMA BelowGrows ==
  ASSUME NEW S \in SUBSET Nat, IsFiniteSet(S), NEW n \in S, NEW m \in S, n < m
  PROVE  Cardinality(Below(S, n)) < Cardinality(Below(S, m))
<1>1. n \in Nat /\ m \in Nat /\ ~ (n < n)
  OBVIOUS
<1>2. n \in Below(S, m) /\ n \notin Below(S, n)
  BY <1>1 DEF Below
<1>3. Below(S, n) \in SUBSET Below(S, m)
  <2>1. ASSUME NEW x \in Below(S, n) PROVE x \in Below(S, m)
    <3>1. x \in S /\ x \in Nat /\ x < n
      BY DEF Below
    <3>2. x < m
      BY <1>1, <3>1
    <3> QED  BY <3>1, <3>2 DEF Below
  <2> QED  BY <2>1
<1>4. /\ Cardinality(Below(S, n)) <= Cardinality(Below(S, m))
      /\ Cardinality(Below(S, n)) = Cardinality(Below(S, m)) => Below(S, m) = Below(S, n)
  BY <1>3, FS_Subset, BelowFinite
<1>5. Cardinality(Below(S, n)) \in Nat /\ Cardinality(Below(S, m)) \in Nat
  BY BelowFinite
<1> QED  BY <1>2, <1>4, <1>5

(***************************************************************************)
(* The closest k nodes of a set are some of it, and at most k.             *)
(***************************************************************************)
LEMMA ClosestFew ==
  ASSUME NEW S \in SUBSET Nat, IsFiniteSet(S), NEW k \in Nat
  PROVE  /\ Closest(S, k) \in SUBSET S
         /\ IsFiniteSet(Closest(S, k))
         /\ Cardinality(Closest(S, k)) \in Nat /\ Cardinality(Closest(S, k)) <= k
<1>1. Closest(S, k) \in SUBSET S
  BY DEF Closest
<1>2. IsFiniteSet(Closest(S, k))
  BY <1>1, FS_Subset
<1>3. Cardinality(Closest(S, k)) \in Nat
  BY <1>2, FS_CardinalityType
<1> DEFINE T == Closest(S, k)
           rank == [n \in T |-> Cardinality(Below(S, n))]
<1>4. ASSUME NEW n \in T PROVE rank[n] \in 0..(k - 1)
  <2>1. rank[n] < k
    BY DEF Closest, Below
  <2>2. rank[n] \in Nat
    BY BelowFinite
  <2> QED  BY <2>1, <2>2
<1>5. ASSUME NEW n \in T, NEW m \in T, n # m PROVE rank[n] # rank[m]
  <2>1. n \in S /\ m \in S /\ n \in Nat /\ m \in Nat
    BY <1>1
  <2>2. rank[n] = Cardinality(Below(S, n)) /\ rank[m] = Cardinality(Below(S, m))
    OBVIOUS
  <2>3. rank[n] \in Nat /\ rank[m] \in Nat
    BY <2>2, BelowFinite
  <2>4. CASE n < m
    BY <2>1, <2>2, <2>3, <2>4, BelowGrows
  <2>5. CASE m < n
    BY <2>1, <2>2, <2>3, <2>5, BelowGrows
  <2> QED  BY <1>5, <2>1, <2>4, <2>5
<1>6. rank \in [T -> 0..(k - 1)]
  BY <1>4
<1>7. rank \in Injection(T, 0..(k - 1))
  <2> HIDE DEF rank, T
  <2> QED  BY <1>5, <1>6 DEF Injection, IsInjective
<1>8. IsFiniteSet(0..(k - 1)) /\ Cardinality(0..(k - 1)) = k
  BY FS_Interval
<1>9. Cardinality(T) <= Cardinality(0..(k - 1))
  <2> HIDE DEF rank, T
  <2> QED  BY <1>7, <1>8, FS_Injection
<1> QED  BY <1>1, <1>2, <1>3, <1>8, <1>9

(***************************************************************************)
(* There is a closest node of a set that is not empty.                     *)
(***************************************************************************)
LEMMA ClosestOfSome ==
  ASSUME NEW S \in SUBSET Nat, S # {}, NEW k \in Nat \ {0}
  PROVE  Closest(S, k) # {}
<1>1. PICK n \in S : \A m \in S : ~ (m < n)
  BY Smallest
<1>2. {m \in S : m < n} = {}
  BY <1>1
<1>3. Cardinality({m \in S : m < n}) = 0
  BY <1>2, FS_EmptySet
<1>4. n \in Closest(S, k)
  BY <1>3 DEF Closest
<1> QED  BY <1>4

-----------------------------------------------------------------------------
(* The inductive invariant of the walks *)

\* While the answers of a round are out, the limits were not reached before it.
RoundWithinLimits ==
    kind = "get_peers" =>
        /\ Cardinality(visited) = count
        /\ count <= MaxQueries + Parallelism - 1
        /\ pc = "ask" => Cardinality(lookup.peers) <= MaxPeers - 1
        /\ Cardinality(lookup.peers) <= MaxPeers + Parallelism - 1

\* The node asked is within the limit and not told to wait.
AskedWithinLimit ==
    kind = "bep51" =>
        /\ count <= sampler.limit
        /\ pc = "ask" => count < sampler.limit

OnlyWhenAsking == pc # "ask" => asking = {}

\* An endpoint that was heeded waits, or a contact has moved from it while it
\* was asked; one that is asked does not wait, and if its contact has moved,
\* one of the moves has not been used up.
MovesCounted ==
    /\ \A e \in Endpoints : e \notin sampler.waits => sampler.heeded[e] <= sampler.moves
    /\ \A e \in Endpoints : sampler.heeded[e] <= 1 + sampler.moves
    /\ kind = "bep51" /\ pc = "ask" =>
          /\ sampler.target \in Endpoints \ sampler.waits
          /\ \A n \in asking : sampler.endpoint[n] # sampler.target =>
                sampler.heeded[sampler.target] + 1 <= sampler.moves

WalkInv ==
    /\ TypeOK
    /\ RoundWithinLimits
    /\ AskedWithinLimit
    /\ OnlyWhenAsking
    /\ MovesCounted
    /\ ClosestAsked

(***************************************************************************)
(* What a lookup asks next.                                                *)
(***************************************************************************)
LEMMA BatchFacts ==
  ASSUME TypeOK
  PROVE  /\ Batch \in SUBSET shortlist /\ Batch \cap visited = {}
         /\ IsFiniteSet(Batch) /\ Cardinality(Batch) \in 0..Parallelism
         /\ IsFiniteSet(visited) /\ Cardinality(visited) \in Nat
         /\ Cardinality(visited \cup Batch) = Cardinality(visited) + Cardinality(Batch)
<1> DEFINE open == (shortlist \cap Allowed) \ visited
<1>1. shortlist \subseteq Nodes /\ Nodes \subseteq Nat /\ IsFiniteSet(Nodes)
      /\ Parallelism \in Nat /\ visited \subseteq shortlist
  BY SearchAssumption DEF TypeOK
<1>2. open \in SUBSET Nat /\ IsFiniteSet(open)
  BY <1>1, FS_Subset
<1>3. IsFiniteSet(visited) /\ Cardinality(visited) \in Nat
  BY <1>1, FS_Subset, FS_CardinalityType
<1>4. /\ Batch \in SUBSET open /\ IsFiniteSet(Batch)
      /\ Cardinality(Batch) \in Nat /\ Cardinality(Batch) <= Parallelism
  <2>1. Batch = Closest(open, Parallelism)
    BY DEF Batch
  <2> HIDE DEF open
  <2> QED  BY <1>1, <1>2, <2>1, ClosestFew
<1>5. Batch \cap visited = {} /\ Batch \in SUBSET shortlist
  BY <1>4
<1>6. Cardinality(visited \cup Batch) =
        Cardinality(visited) + Cardinality(Batch) - Cardinality(visited \cap Batch)
  BY <1>3, <1>4, FS_Union
<1>7. Cardinality(visited \cap Batch) = 0
  BY <1>5, FS_EmptySet
<1> HIDE DEF open
<1> QED  BY <1>1, <1>3, <1>4, <1>5, <1>6, <1>7

(***************************************************************************)
(* One answer fills up the peers to the limit, or adds one more.           *)
(***************************************************************************)
LEMMA EnoughFew ==
  ASSUME NEW known \in SUBSET Peers, NEW values \in SUBSET Peers, NEW i \in Nat,
         Cardinality(known) <= MaxPeers - 1 + i
  PROVE  /\ Enough(known, values) \in SUBSET Peers
         /\ Cardinality(Enough(known, values)) <= MaxPeers + i
<1> DEFINE new == values \ known
           room == IF MaxPeers - Cardinality(known) > 0
                   THEN MaxPeers - Cardinality(known) ELSE 1
<1>1. /\ Peers \in SUBSET Nat /\ IsFiniteSet(Peers) /\ MaxPeers \in Nat
  BY SearchAssumption
<1>2. IsFiniteSet(known) /\ Cardinality(known) \in Nat
  BY <1>1, FS_Subset, FS_CardinalityType
<1>3. new \in SUBSET Nat /\ IsFiniteSet(new) /\ new \in SUBSET Peers
  BY <1>1, FS_Subset
<1>4. room \in Nat /\ Cardinality(known) + room <= MaxPeers + i
  BY <1>1, <1>2
<1>5. Enough(known, values) = known \cup Closest(new, room)
  BY DEF Enough
<1>6. /\ Closest(new, room) \in SUBSET new /\ IsFiniteSet(Closest(new, room))
      /\ Cardinality(Closest(new, room)) \in Nat
      /\ Cardinality(Closest(new, room)) <= room
  <2> HIDE DEF new, room
  <2> QED  BY <1>3, <1>4, ClosestFew
<1> DEFINE added == Closest(new, room)
<1>7. known \cap added = {} /\ known \cup added \in SUBSET Peers
  BY <1>3, <1>6
<1> HIDE DEF new, room, added
<1>8. Cardinality(known \cup added) =
        Cardinality(known) + Cardinality(added) - Cardinality(known \cap added)
  BY <1>2, <1>6, FS_Union DEF added
<1>9. Cardinality(known \cap added) = 0
  BY <1>7, FS_EmptySet
<1> QED  BY <1>1, <1>2, <1>4, <1>5, <1>6, <1>7, <1>8, <1>9 DEF added

(***************************************************************************)
(* Each answer of a round adds one peer beyond the limit at most.          *)
(***************************************************************************)
LEMMA CollectedFew ==
  ASSUME lookup \in Lookup, Cardinality(lookup.peers) <= MaxPeers - 1,
         NEW found \in [0..lookup.size -> SUBSET Peers], Collected(found),
         NEW i \in 0..lookup.size
  PROVE  Cardinality(found[i]) <= MaxPeers - 1 + i
<1> DEFINE Few(j) == Cardinality(found[j]) <= MaxPeers - 1 + j
           many == {j \in 0..lookup.size : ~ Few(j)}
<1>1. lookup.size \in Nat /\ MaxPeers \in Nat
  BY SearchAssumption DEF Lookup
<1>2. many \in SUBSET Nat
  BY <1>1
<1>3. SUFFICES ASSUME many # {} PROVE FALSE
  OBVIOUS
<1>4. PICK j \in many : \A m \in many : ~ (m < j)
  <2> HIDE DEF many
  <2> QED  BY <1>2, <1>3, Smallest
<1>5. j # 0
  BY <1>1, <1>4 DEF Collected
<1>6. /\ j \in 1..lookup.size /\ j - 1 \in 0..lookup.size /\ j - 1 \in Nat
      /\ j - 1 < j /\ (j - 1) + 1 = j
  BY <1>1, <1>4, <1>5
<1>7. Few(j - 1)
  BY <1>4, <1>6
<1>8. PICK values \in SUBSET Peers : found[j] = Enough(found[j - 1], values)
  BY <1>6 DEF Collected
<1>9. found[j - 1] \in SUBSET Peers
  BY <1>6
<1>10. Cardinality(found[j]) <= MaxPeers + (j - 1)
  BY <1>6, <1>7, <1>8, <1>9, EnoughFew
<1>11. MaxPeers + (j - 1) = MaxPeers - 1 + j
  BY <1>1, <1>6
<1> QED  BY <1>4, <1>10, <1>11

(***************************************************************************)
(* The first state.                                                        *)
(***************************************************************************)
LEMMA WalkInvInit == Init => WalkInv
<1> SUFFICES ASSUME Init PROVE WalkInv
  OBVIOUS
<1>1. /\ kind \in {"get_peers", "bep51"} /\ pc = "walk" /\ shortlist \subseteq Nodes
      /\ visited = {} /\ asking = {} /\ count = 0
      /\ lookup = [late |-> FALSE, previous |-> {}, peers |-> {}, size |-> 0]
  BY DEF Init
<1>2. /\ MaxQueries \in Nat /\ MaxPeers \in Nat /\ MaxMoves \in Nat
      /\ Parallelism \in Nat \ {0} /\ K \in Nat \ {0} /\ Home \in [Nodes -> Endpoints]
  BY SearchAssumption
<1>3. lookup \in Lookup
  BY <1>1, <1>2 DEF Lookup
<1>4. PICK w \in SUBSET Endpoints, l \in {0, 1, K} :
        sampler = [endpoint |-> Home, waits |-> w, limit |-> l, target |-> Nowhere,
                   heeded |-> NotHeeded, moves |-> 0]
  <2>1. CASE kind = "bep51"
    BY <2>1 DEF Init
  <2>2. CASE kind = "get_peers"
    BY <2>2 DEF Init
  <2> QED  BY <1>1, <2>1, <2>2
<1>5. NotHeeded \in [Endpoints -> Nat] /\ \A e \in Endpoints : NotHeeded[e] = 0
  BY DEF NotHeeded
<1>6. sampler \in Sampler
  BY <1>2, <1>4, <1>5 DEF Sampler
<1>7. TypeOK
  BY <1>1, <1>3, <1>6 DEF TypeOK
<1>8. Cardinality({}) = 0
  BY FS_EmptySet
<1>9. RoundWithinLimits
  BY <1>1, <1>2, <1>8 DEF RoundWithinLimits
<1>10. AskedWithinLimit /\ OnlyWhenAsking /\ ClosestAsked
  BY <1>1, <1>2, <1>4 DEF AskedWithinLimit, OnlyWhenAsking, ClosestAsked
<1>11. MovesCounted
  BY <1>1, <1>4, <1>5 DEF MovesCounted
<1> QED  BY <1>7, <1>9, <1>10, <1>11 DEF WalkInv

-----------------------------------------------------------------------------
(* The steps of iterative_get_peers *)

(***************************************************************************)
(* A round starts.                                                         *)
(***************************************************************************)
LEMMA StartRoundInv == WalkInv /\ StartRound => WalkInv'
<1> SUFFICES ASSUME WalkInv, StartRound PROVE WalkInv'
  OBVIOUS
<1>1. /\ kind = "get_peers" /\ pc = "walk" /\ WithinLimits
      /\ pc' = "ask" /\ asking' = Batch /\ visited' = visited \cup Batch
      /\ count' = count + Cardinality(Batch)
      /\ lookup' = [lookup EXCEPT !.previous = Frontier, !.size = Cardinality(Batch)]
      /\ UNCHANGED <<kind, shortlist, sampler>>
  BY DEF StartRound, Goes
<1>2. TypeOK
  BY DEF WalkInv
<1>3. /\ Batch \in SUBSET shortlist /\ Cardinality(Batch) \in 0..Parallelism
      /\ Cardinality(visited \cup Batch) = Cardinality(visited) + Cardinality(Batch)
      /\ Cardinality(visited) \in Nat
  BY <1>2, BatchFacts
<1>4. Frontier \in SUBSET Nodes
  BY <1>2 DEF Frontier, Closest, TypeOK
<1>5. lookup' \in Lookup /\ lookup'.peers = lookup.peers
  BY <1>1, <1>2, <1>3, <1>4 DEF TypeOK, Lookup
<1>6. TypeOK'
  BY <1>1, <1>2, <1>3, <1>5 DEF TypeOK
<1>7. /\ Cardinality(visited) = count /\ Cardinality(lookup.peers) < MaxPeers
      /\ count < MaxQueries
      /\ Cardinality(lookup.peers) <= MaxPeers + Parallelism - 1
  BY <1>1 DEF WalkInv, RoundWithinLimits, WithinLimits
<1>8. /\ MaxQueries \in Nat /\ MaxPeers \in Nat /\ Parallelism \in Nat /\ count \in Nat
      /\ Cardinality(lookup.peers) \in Nat
  <2>1. lookup.peers \in SUBSET Peers /\ IsFiniteSet(Peers)
    BY <1>2, SearchAssumption DEF TypeOK, Lookup
  <2> QED  BY <1>2, <2>1, FS_Subset, FS_CardinalityType, SearchAssumption DEF TypeOK
<1>9. RoundWithinLimits'
  BY <1>1, <1>3, <1>5, <1>7, <1>8 DEF RoundWithinLimits
<1>10. AskedWithinLimit' /\ OnlyWhenAsking' /\ ClosestAsked'
  BY <1>1 DEF AskedWithinLimit, OnlyWhenAsking, ClosestAsked
<1>11. MovesCounted'
  BY <1>1 DEF WalkInv, MovesCounted
<1> QED  BY <1>6, <1>9, <1>10, <1>11 DEF WalkInv

(***************************************************************************)
(* The answers of a round are worked through.                              *)
(***************************************************************************)
LEMMA EndRoundInv == WalkInv /\ EndRound => WalkInv'
<1> SUFFICES ASSUME WalkInv, EndRound PROVE WalkInv'
  OBVIOUS
<1>1. /\ kind = "get_peers" /\ pc = "ask" /\ asking = {} /\ pc' = "walk"
      /\ UNCHANGED <<kind, visited, asking, count, sampler>>
  BY DEF EndRound
<1>2. PICK named \in SUBSET Allowed : shortlist' = shortlist \cup named
  BY DEF EndRound
<1>3. PICK found \in [0..lookup.size -> SUBSET Peers] :
        /\ Collected(found)
        /\ lookup' = [lookup EXCEPT !.peers = found[lookup.size]]
  BY DEF EndRound
<1>4. TypeOK /\ lookup \in Lookup /\ lookup.size \in 0..Parallelism
  BY DEF WalkInv, TypeOK, Lookup
<1>5. /\ MaxPeers \in Nat /\ Parallelism \in Nat /\ Allowed \subseteq Nodes
      /\ IsFiniteSet(Peers)
  BY SearchAssumption
<1>6. lookup.size \in 0..lookup.size /\ lookup.size \in Nat
  BY <1>4, <1>5
<1>7. found[lookup.size] \in SUBSET Peers
  BY <1>6
<1>8. lookup' \in Lookup /\ lookup'.peers = found[lookup.size]
  BY <1>3, <1>4, <1>7 DEF Lookup
<1>9. TypeOK'
  BY <1>1, <1>2, <1>4, <1>5, <1>8 DEF TypeOK
<1>10. Cardinality(lookup.peers) <= MaxPeers - 1
  BY <1>1 DEF WalkInv, RoundWithinLimits
<1>11. Cardinality(found[lookup.size]) <= MaxPeers - 1 + lookup.size
  BY <1>3, <1>4, <1>6, <1>10, CollectedFew
<1>12. Cardinality(found[lookup.size]) \in Nat
  BY <1>5, <1>7, FS_Subset, FS_CardinalityType
<1>13. Cardinality(lookup'.peers) <= MaxPeers + Parallelism - 1
  BY <1>4, <1>5, <1>6, <1>8, <1>11, <1>12
<1>14. RoundWithinLimits'
  BY <1>1, <1>13 DEF WalkInv, RoundWithinLimits
<1>15. AskedWithinLimit' /\ OnlyWhenAsking' /\ ClosestAsked' /\ MovesCounted'
  BY <1>1 DEF WalkInv, AskedWithinLimit, OnlyWhenAsking, ClosestAsked, MovesCounted
<1> QED  BY <1>9, <1>14, <1>15 DEF WalkInv

(***************************************************************************)
(* A query ends, or the deadline passes.                                   *)
(***************************************************************************)
LEMMA LookupQuietInv ==
  ASSUME WalkInv, DeadlinePasses \/ \E n \in Nodes : QueryEnds(n)
  PROVE  WalkInv'
<1>1. /\ kind = "get_peers" /\ asking' \in SUBSET asking /\ lookup' \in Lookup
      /\ lookup'.peers = lookup.peers
      /\ UNCHANGED <<kind, pc, shortlist, visited, count, sampler>>
  BY DEF DeadlinePasses, QueryEnds, WalkInv, TypeOK, Lookup
<1>2. pc' = "done" => UNCHANGED lookup
  BY DEF DeadlinePasses, QueryEnds
<1>3. TypeOK'
  BY <1>1 DEF WalkInv, TypeOK
<1>4. RoundWithinLimits' /\ AskedWithinLimit' /\ OnlyWhenAsking' /\ MovesCounted'
  BY <1>1 DEF WalkInv, RoundWithinLimits, AskedWithinLimit, OnlyWhenAsking, MovesCounted
<1>5. ClosestAsked'
  BY <1>1, <1>2 DEF WalkInv, ClosestAsked, WithinLimits
<1> QED  BY <1>3, <1>4, <1>5 DEF WalkInv

(***************************************************************************)
(* A walk ends.  A lookup that could have gone on has no closer node left. *)
(***************************************************************************)
LEMMA FinishInv == WalkInv /\ Finish => WalkInv'
<1> SUFFICES ASSUME WalkInv, Finish PROVE WalkInv'
  OBVIOUS
<1>1. /\ pc = "walk" /\ ~ GoesOn /\ pc' = "done"
      /\ UNCHANGED <<kind, shortlist, visited, asking, count, lookup, sampler>>
  BY DEF Finish
<1>2. TypeOK' /\ RoundWithinLimits' /\ AskedWithinLimit' /\ OnlyWhenAsking' /\ MovesCounted'
  BY <1>1 DEF WalkInv, TypeOK, RoundWithinLimits, AskedWithinLimit, OnlyWhenAsking, MovesCounted
<1>3. ASSUME kind = "get_peers", WithinLimits
      PROVE  Closest(shortlist, K) \cap Allowed \subseteq visited
  <2>1. Batch = {} \/ Converged
    BY <1>1, <1>3 DEF GoesOn, Goes
  <2>2. CASE Converged
    BY <2>2 DEF Converged, Frontier
  <2>3. CASE Batch = {}
    <3> DEFINE open == (shortlist \cap Allowed) \ visited
    <3>1. open \in SUBSET Nat /\ Parallelism \in Nat \ {0}
      BY SearchAssumption DEF WalkInv, TypeOK
    <3>2. Batch = Closest(open, Parallelism)
      BY DEF Batch
    <3>3. open = {}
      <4> HIDE DEF open
      <4> QED  BY <2>3, <3>1, <3>2, ClosestOfSome
    <3> QED  BY <3>3 DEF Closest
  <2> QED  BY <2>1, <2>2, <2>3
<1>4. ClosestAsked'
  BY <1>1, <1>3 DEF ClosestAsked, WithinLimits
<1> QED  BY <1>2, <1>4 DEF WalkInv

-----------------------------------------------------------------------------
(* The steps of bep51_once *)

(***************************************************************************)
(* What every step of bep51_once leaves alone.                             *)
(***************************************************************************)
LEMMA SamplerKeeps ==
  ASSUME WalkInv, kind = "bep51", UNCHANGED kind
  PROVE  RoundWithinLimits' /\ ClosestAsked'
BY DEF RoundWithinLimits, ClosestAsked

(***************************************************************************)
(* The next node is looked at, and asked if its endpoint does not wait.    *)
(***************************************************************************)
LEMMA VisitInv ==
  ASSUME WalkInv, NEW n \in Nodes, Visit(n)
  PROVE  WalkInv'
<1>1. /\ kind = "bep51" /\ pc = "walk" /\ count < sampler.limit
      /\ n \in shortlist /\ visited' = visited \cup {n}
      /\ UNCHANGED <<kind, shortlist, count, lookup>>
  BY DEF Visit, Marked, Closest, Unvisited
<1>2. TypeOK /\ sampler \in Sampler
  BY DEF WalkInv, TypeOK
<1>3. sampler.endpoint[n] \in Endpoints
  BY <1>2 DEF Sampler
<1>4. asking = {}
  BY <1>1 DEF WalkInv, OnlyWhenAsking
<1>5. CASE sampler.endpoint[n] \in sampler.waits
  <2>1. UNCHANGED <<pc, asking, sampler>>
    BY <1>5 DEF Visit
  <2>2. TypeOK'
    BY <1>1, <1>2, <2>1 DEF TypeOK
  <2>3. AskedWithinLimit' /\ OnlyWhenAsking' /\ MovesCounted'
    BY <1>1, <2>1 DEF WalkInv, AskedWithinLimit, OnlyWhenAsking, MovesCounted
  <2> QED  BY <1>1, <2>2, <2>3, SamplerKeeps DEF WalkInv
<1>6. CASE sampler.endpoint[n] \notin sampler.waits
  <2>1. /\ pc' = "ask" /\ asking' = {n}
        /\ sampler' = [sampler EXCEPT !.target = sampler.endpoint[n]]
    BY <1>6 DEF Visit
  <2>2. /\ sampler' \in Sampler /\ sampler'.target = sampler.endpoint[n]
        /\ sampler'.endpoint = sampler.endpoint /\ sampler'.waits = sampler.waits
        /\ sampler'.limit = sampler.limit /\ sampler'.heeded = sampler.heeded
        /\ sampler'.moves = sampler.moves
    BY <1>2, <1>3, <2>1 DEF Sampler
  <2>3. TypeOK'
    BY <1>1, <1>2, <2>1, <2>2 DEF TypeOK
  <2>4. AskedWithinLimit' /\ OnlyWhenAsking'
    BY <1>1, <2>1, <2>2 DEF WalkInv, AskedWithinLimit, OnlyWhenAsking
  <2>5. MovesCounted'
    BY <1>3, <1>6, <2>1, <2>2 DEF WalkInv, MovesCounted
  <2> QED  BY <1>1, <2>3, <2>4, <2>5, SamplerKeeps DEF WalkInv
<1> QED  BY <1>5, <1>6

(***************************************************************************)
(* An answer with an interval: its endpoint, or the one its contact has    *)
(* moved to, waits from now on.                                            *)
(***************************************************************************)
LEMMA HeedInv ==
  ASSUME WalkInv, NEW n \in Nodes, NEW supported \in BOOLEAN, Heed(n, supported)
  PROVE  WalkInv'
<1>1. /\ kind = "bep51" /\ pc = "ask" /\ n \in asking /\ pc' = "walk" /\ asking' = {}
      /\ sampler' = [sampler EXCEPT !.waits = Remembered(n, supported),
                                    !.heeded[sampler.target] = @ + 1]
      /\ UNCHANGED <<kind, visited, lookup>>
  BY DEF Heed
<1>2. Remembered(n, supported) = sampler.waits \cup {sampler.endpoint[n]}
  BY DEF Remembered
<1>3. TypeOK /\ sampler \in Sampler /\ count \in Nat
  BY DEF WalkInv, TypeOK
<1>4. /\ sampler.endpoint[n] \in Endpoints /\ sampler.heeded \in [Endpoints -> Nat]
      /\ sampler.waits \subseteq Endpoints /\ sampler.limit \in {0, 1, K}
      /\ sampler.moves \in 0..MaxMoves
  BY <1>3 DEF Sampler
<1>5. /\ sampler.target \in Endpoints \ sampler.waits
      /\ sampler.endpoint[n] # sampler.target =>
            sampler.heeded[sampler.target] + 1 <= sampler.moves
      /\ \A e \in Endpoints : e \notin sampler.waits => sampler.heeded[e] <= sampler.moves
      /\ \A e \in Endpoints : sampler.heeded[e] <= 1 + sampler.moves
  BY <1>1 DEF WalkInv, MovesCounted
<1>6. /\ sampler'.waits = sampler.waits \cup {sampler.endpoint[n]}
      /\ sampler'.heeded = [sampler.heeded EXCEPT ![sampler.target] = @ + 1]
      /\ sampler'.limit = sampler.limit /\ sampler'.moves = sampler.moves
      /\ sampler' \in Sampler
  <2>1. [sampler.heeded EXCEPT ![sampler.target] = @ + 1] \in [Endpoints -> Nat]
    BY <1>4, <1>5
  <2> QED  BY <1>1, <1>2, <1>3, <1>4, <2>1 DEF Sampler
<1>7. /\ count' \in Nat /\ count' <= count + 1 /\ shortlist \subseteq shortlist'
      /\ shortlist' \subseteq Nodes
  BY <1>3, SearchAssumption DEF Heed, TypeOK
<1>8. TypeOK'
  BY <1>1, <1>3, <1>6, <1>7 DEF TypeOK
<1>9. AskedWithinLimit'
  <2>1. count < sampler.limit /\ sampler.limit \in Nat
    BY <1>1, <1>4, SearchAssumption DEF WalkInv, AskedWithinLimit
  <2> QED  BY <1>1, <1>3, <1>6, <1>7, <2>1 DEF AskedWithinLimit
<1>10. OnlyWhenAsking'
  BY <1>1 DEF OnlyWhenAsking
<1>11. MovesCounted'
  <2>1. sampler.moves \in Nat
    BY <1>4, SearchAssumption
  <2>2. ASSUME NEW e \in Endpoints
        PROVE  /\ e \notin sampler'.waits => sampler'.heeded[e] <= sampler'.moves
               /\ sampler'.heeded[e] <= 1 + sampler'.moves
    <3>1. CASE e # sampler.target
      BY <1>4, <1>5, <1>6, <3>1
    <3>2. CASE e = sampler.target
      <4>1. sampler.heeded[e] \in Nat /\ sampler.heeded[e] <= sampler.moves
        BY <1>4, <1>5, <3>2
      <4>2. sampler'.heeded[e] = sampler.heeded[e] + 1
        BY <1>4, <1>6, <3>2
      <4>3. CASE sampler.endpoint[n] = sampler.target
        BY <1>6, <2>1, <3>2, <4>1, <4>2, <4>3
      <4>4. CASE sampler.endpoint[n] # sampler.target
        BY <1>5, <1>6, <2>1, <3>2, <4>1, <4>2, <4>4
      <4> QED  BY <4>3, <4>4
    <3> QED  BY <3>1, <3>2
  <2> QED  BY <1>1, <2>2 DEF MovesCounted
<1> QED  BY <1>1, <1>8, <1>9, <1>10, <1>11, SamplerKeeps DEF WalkInv

(***************************************************************************)
(* The query fails.                                                        *)
(***************************************************************************)
LEMMA FailInv ==
  ASSUME WalkInv, NEW n \in Nodes, Fail(n)
  PROVE  WalkInv'
<1>1. /\ kind = "bep51" /\ pc = "ask" /\ pc' = "walk" /\ asking' = {}
      /\ UNCHANGED <<kind, shortlist, visited, count, lookup, sampler>>
  BY DEF Fail
<1>2. TypeOK' /\ AskedWithinLimit' /\ OnlyWhenAsking' /\ MovesCounted'
  BY <1>1 DEF WalkInv, TypeOK, AskedWithinLimit, OnlyWhenAsking, MovesCounted
<1> QED  BY <1>1, <1>2, SamplerKeeps DEF WalkInv

(***************************************************************************)
(* A contact moves while it is asked.                                      *)
(***************************************************************************)
LEMMA MoveInv ==
  ASSUME WalkInv, NEW n \in Nodes, NEW e \in Endpoints, Move(n, e)
  PROVE  WalkInv'
<1>1. /\ kind = "bep51" /\ n \in asking /\ sampler.moves < MaxMoves
      /\ sampler' = [sampler EXCEPT !.endpoint[n] = e, !.moves = @ + 1]
      /\ UNCHANGED <<kind, pc, shortlist, visited, asking, count, lookup>>
  BY DEF Move
<1>2. TypeOK /\ sampler \in Sampler /\ pc = "ask"
  <2>1. TypeOK /\ sampler \in Sampler
    BY DEF WalkInv, TypeOK
  <2>2. pc = "ask"
    BY <1>1 DEF WalkInv, OnlyWhenAsking
  <2> QED  BY <2>1, <2>2
<1>3. /\ sampler.endpoint \in [Nodes -> Endpoints] /\ sampler.heeded \in [Endpoints -> Nat]
      /\ sampler.moves \in 0..MaxMoves /\ MaxMoves \in Nat
  BY <1>2, SearchAssumption DEF Sampler
<1>4. /\ sampler'.endpoint = [sampler.endpoint EXCEPT ![n] = e]
      /\ sampler'.moves = sampler.moves + 1 /\ sampler'.limit = sampler.limit
      /\ sampler'.waits = sampler.waits /\ sampler'.heeded = sampler.heeded
      /\ sampler'.target = sampler.target
      /\ sampler' \in Sampler
  <2>1. [sampler.endpoint EXCEPT ![n] = e] \in [Nodes -> Endpoints]
    BY <1>3
  <2>2. sampler.moves + 1 \in 0..MaxMoves
    BY <1>1, <1>3
  <2> QED  BY <1>1, <1>2, <2>1, <2>2 DEF Sampler
<1>5. TypeOK'
  BY <1>1, <1>2, <1>4 DEF TypeOK
<1>6. AskedWithinLimit' /\ OnlyWhenAsking'
  BY <1>1, <1>4 DEF WalkInv, AskedWithinLimit, OnlyWhenAsking
<1>7. MovesCounted'
  <2>1. /\ \A f \in Endpoints : f \notin sampler.waits => sampler.heeded[f] <= sampler.moves
        /\ \A f \in Endpoints : sampler.heeded[f] <= 1 + sampler.moves
        /\ sampler.target \in Endpoints \ sampler.waits
    BY <1>1, <1>2 DEF WalkInv, MovesCounted
  <2>2. \A f \in Endpoints : sampler.heeded[f] \in Nat
    BY <1>3
  <2>3. /\ \A f \in Endpoints : f \notin sampler'.waits => sampler'.heeded[f] <= sampler'.moves
        /\ \A f \in Endpoints : sampler'.heeded[f] <= 1 + sampler'.moves
    BY <1>3, <1>4, <2>1, <2>2
  <2>4. sampler'.heeded[sampler'.target] + 1 <= sampler'.moves
    BY <1>3, <1>4, <2>1, <2>2
  <2> QED  BY <1>4, <2>1, <2>3, <2>4 DEF MovesCounted
<1> QED  BY <1>1, <1>5, <1>6, <1>7, SamplerKeeps DEF WalkInv

(***************************************************************************)
(* Every step keeps the invariant.                                         *)
(***************************************************************************)
LEMMA WalkInvStep == WalkInv /\ [Next]_vars => WalkInv'
<1> SUFFICES ASSUME WalkInv, [Next]_vars PROVE WalkInv'
  OBVIOUS
<1>1. CASE UNCHANGED vars
  <2>1. UNCHANGED <<kind, pc, shortlist, visited, asking, count, lookup, sampler>>
    BY <1>1 DEF vars
  <2>2. TypeOK' /\ RoundWithinLimits' /\ AskedWithinLimit' /\ OnlyWhenAsking'
    BY <2>1 DEF WalkInv, TypeOK, RoundWithinLimits, AskedWithinLimit, OnlyWhenAsking
  <2>3. MovesCounted' /\ ClosestAsked'
    BY <2>1 DEF WalkInv, MovesCounted, ClosestAsked, WithinLimits
  <2> QED  BY <2>2, <2>3 DEF WalkInv
<1>2. CASE StartRound
  BY <1>2, StartRoundInv
<1>3. CASE EndRound
  BY <1>3, EndRoundInv
<1>4. CASE Finish
  BY <1>4, FinishInv
<1>5. CASE DeadlinePasses \/ \E n \in Nodes : QueryEnds(n)
  BY <1>5, LookupQuietInv
<1>6. CASE \E n \in Nodes : Visit(n)
  BY <1>6, VisitInv
<1>7. CASE \E n \in Nodes, supported \in BOOLEAN : Heed(n, supported)
  BY <1>7, HeedInv
<1>8. CASE \E n \in Nodes : Fail(n)
  BY <1>8, FailInv
<1>9. CASE \E n \in Nodes, e \in Endpoints : Move(n, e)
  BY <1>9, MoveInv
<1> QED
  BY <1>1, <1>2, <1>3, <1>4, <1>5, <1>6, <1>7, <1>8, <1>9 DEF Next, Steps, Answers

(***************************************************************************)
(* The invariant holds in every reachable state.                           *)
(***************************************************************************)
THEOREM WalkInvariance == Spec => []WalkInv
<1>1. Init => WalkInv
  BY WalkInvInit
<1>2. WalkInv /\ [Next]_vars => WalkInv'
  BY WalkInvStep
<1> QED  BY <1>1, <1>2, PTL DEF Spec

-----------------------------------------------------------------------------
(* The theorems about the walks *)

(***************************************************************************)
(* WalkBounded, for any number of nodes, peers and parallel queries and    *)
(* any budget: a lookup exceeds its budget of queries and its limit of     *)
(* peers by less than one round, and the sampling keeps within max_nodes.  *)
(***************************************************************************)
THEOREM WalkBoundedCorrect == Spec => []WalkBounded
<1>1. WalkInv => WalkBounded
  BY DEF WalkInv, RoundWithinLimits, AskedWithinLimit, WalkBounded
<1> QED  BY <1>1, WalkInvariance, PTL

(***************************************************************************)
(* ClosestAsked, for any number of nodes: a lookup that is not cut short   *)
(* has asked the K closest nodes it knows of, however the answers come.    *)
(***************************************************************************)
THEOREM ClosestAskedCorrect == Spec => []ClosestAsked
<1>1. WalkInv => ClosestAsked
  BY DEF WalkInv
<1> QED  BY <1>1, WalkInvariance, PTL

(***************************************************************************)
(* HeededOnce, for any number of endpoints and moves: an endpoint that has *)
(* told when it wants to be asked again is asked once more only after a    *)
(* contact has moved while it was asked.                                   *)
(***************************************************************************)
THEOREM HeededOnceCorrect == Spec => []HeededOnce
<1>1. WalkInv => HeededOnce
  BY DEF WalkInv, MovesCounted, HeededOnce
<1> QED  BY <1>1, WalkInvariance, PTL

-----------------------------------------------------------------------------
(* OrderedDicts *)

\* The keys stand in one order.
Linear(d) ==
    /\ \A x \in d.keys : <<x, x>> \notin d.before
    /\ \A x, y, z \in d.keys :
          <<x, y>> \in d.before /\ <<y, z>> \in d.before => <<x, z>> \in d.before
    /\ \A x, y \in d.keys : x # y => <<x, y>> \in d.before \/ <<y, x>> \in d.before

\* The order of a dictionary is that of some of the keys in another.
Suborder(d, e) ==
    /\ d.keys \subseteq e.keys
    /\ \A x, y \in d.keys : <<x, y>> \in d.before <=> <<x, y>> \in e.before

(***************************************************************************)
(* The keys that are left keep their order.                                *)
(***************************************************************************)
LEMMA OnlyKeeps ==
  ASSUME NEW S, NEW d \in Ordered(S), NEW T
  PROVE  /\ Only(d, T) \in Ordered(S)
         /\ Only(d, T).keys = d.keys \cap T
         /\ Suborder(Only(d, T), d)
BY DEF Only, Ordered, Suborder

\* A smaller dictionary keeps the order of the one it is taken from.
LEMMA SuborderLinear ==
  ASSUME NEW d, NEW e, Linear(e), Suborder(d, e)
  PROVE  Linear(d)
BY DEF Linear, Suborder

(***************************************************************************)
(* A key that is set becomes the last one.                                 *)
(***************************************************************************)
LEMMA LastIsLast ==
  ASSUME NEW S, NEW d \in Ordered(S), NEW x \in S
  PROVE  /\ WithLast(d, x) \in Ordered(S)
         /\ WithLast(d, x).keys = d.keys \cup {x}
         /\ \A y \in d.keys \ {x} : <<y, x>> \in WithLast(d, x).before
         /\ \A y \in d.keys : <<x, y>> \notin WithLast(d, x).before
         /\ <<x, x>> \notin WithLast(d, x).before
         /\ \A y, z \in d.keys \ {x} :
               <<y, z>> \in WithLast(d, x).before <=> <<y, z>> \in d.before
<1> DEFINE others == d.keys \ {x}
<1>1. /\ WithLast(d, x).keys = others \cup {x}
      /\ WithLast(d, x).before = (d.before \cap (others \X others)) \cup (others \X {x})
  BY DEF WithLast
<1>2. WithLast(d, x) \in Ordered(S)
  BY DEF WithLast, Ordered
<1> QED  BY <1>1, <1>2

\* Moving a key to the end leaves the keys in a linear order.
LEMMA LastLinear ==
  ASSUME NEW S, NEW d \in Ordered(S), NEW x \in S, Linear(d)
  PROVE  Linear(WithLast(d, x))
<1> DEFINE e == WithLast(d, x)
<1>1. /\ e.keys = d.keys \cup {x}
      /\ \A y \in d.keys \ {x} : <<y, x>> \in e.before
      /\ \A y \in d.keys : <<x, y>> \notin e.before
      /\ <<x, x>> \notin e.before
      /\ \A y, z \in d.keys \ {x} : <<y, z>> \in e.before <=> <<y, z>> \in d.before
  BY LastIsLast
<1> HIDE DEF e
<1>2. \A y \in e.keys : <<y, y>> \notin e.before
  BY <1>1 DEF Linear
<1>3. ASSUME NEW u \in e.keys, NEW v \in e.keys, NEW w \in e.keys,
             <<u, v>> \in e.before, <<v, w>> \in e.before
      PROVE  <<u, w>> \in e.before
  <2>1. u # x /\ v # x
    BY <1>1, <1>3
  <2>2. CASE w = x
    BY <1>1, <2>1, <2>2
  <2>3. CASE w # x
    BY <1>1, <1>3, <2>1, <2>3 DEF Linear
  <2> QED  BY <2>2, <2>3
<1>4. ASSUME NEW u \in e.keys, NEW v \in e.keys, u # v
      PROVE  <<u, v>> \in e.before \/ <<v, u>> \in e.before
  BY <1>1, <1>4 DEF Linear
<1>5. Linear(e)
  BY <1>2, <1>3, <1>4 DEF Linear
<1> QED  BY <1>5 DEF e

\* Those before a key.
Older(d, x) == {y \in d.keys : <<y, x>> \in d.before}

(***************************************************************************)
(* Some key is the oldest: all others are newer.                           *)
(***************************************************************************)
LEMMA OneIsOldest ==
  ASSUME NEW d, Linear(d), IsFiniteSet(d.keys), d.keys # {}
  PROVE  \E o \in d.keys : Older(d, o) = {} /\ \A y \in d.keys \ {o} : <<o, y>> \in d.before
<1>1. ASSUME NEW x \in d.keys
      PROVE  IsFiniteSet(Older(d, x)) /\ Cardinality(Older(d, x)) \in Nat
  <2>1. Older(d, x) \in SUBSET d.keys
    BY DEF Older
  <2> QED  BY <2>1, FS_Subset, FS_CardinalityType
<1> DEFINE sizes == {Cardinality(Older(d, x)) : x \in d.keys}
<1>2. sizes \in SUBSET Nat /\ sizes # {}
  BY <1>1
<1>3. PICK n \in sizes : \A m \in sizes : ~ (m < n)
  <2> HIDE DEF sizes
  <2> QED  BY <1>2, Smallest
<1>4. PICK o \in d.keys : n = Cardinality(Older(d, o))
  BY <1>3
<1>5. ASSUME NEW y \in Older(d, o) PROVE FALSE
  <2>1. y \in d.keys /\ <<y, o>> \in d.before
    BY DEF Older
  <2>2. Older(d, y) \in SUBSET Older(d, o)
    BY <2>1 DEF Older, Linear
  <2>3. y \notin Older(d, y)
    BY <2>1 DEF Older, Linear
  <2>4. /\ Cardinality(Older(d, y)) <= Cardinality(Older(d, o))
        /\ Cardinality(Older(d, y)) # Cardinality(Older(d, o))
    BY <1>1, <1>5, <2>1, <2>2, <2>3, FS_Subset
  <2>5. Cardinality(Older(d, y)) \in sizes
    BY <2>1
  <2>6. /\ Cardinality(Older(d, y)) \in Nat /\ Cardinality(Older(d, o)) \in Nat
    BY <1>1, <2>1
  <2> HIDE DEF sizes
  <2> QED  BY <1>3, <1>4, <2>4, <2>5, <2>6
<1>6. Older(d, o) = {}
  BY <1>5
<1>7. \A y \in d.keys \ {o} : <<o, y>> \in d.before
  BY <1>6 DEF Older, Linear
<1> QED  BY <1>6, <1>7

(***************************************************************************)
(* popitem(last=False) makes room: it drops one key, and all that stay are *)
(* newer.                                                                  *)
(***************************************************************************)
LEMMA RoomMade ==
  ASSUME NEW S, NEW d \in Ordered(S), Linear(d), IsFiniteSet(d.keys),
         NEW limit \in Nat \ {0}, Cardinality(d.keys) <= limit
  PROVE  /\ WithoutOldest(d, limit) \in Ordered(S)
         /\ Suborder(WithoutOldest(d, limit), d)
         /\ Cardinality(WithoutOldest(d, limit).keys) < limit
         /\ IsFiniteSet(WithoutOldest(d, limit).keys)
         /\ \A o \in d.keys : o \notin WithoutOldest(d, limit).keys =>
               /\ Cardinality(d.keys \ {o}) = limit - 1
               /\ \A y \in d.keys \ {o} : <<o, y>> \in d.before
<1> DEFINE e == WithoutOldest(d, limit)
<1>1. Cardinality(d.keys) \in Nat
  BY FS_CardinalityType
<1>2. CASE Cardinality(d.keys) < limit
  <2>1. e = d
    BY <1>2 DEF WithoutOldest
  <2>2. Suborder(d, d)
    BY DEF Suborder
  <2> QED  BY <1>2, <2>1, <2>2
<1>3. CASE Cardinality(d.keys) = limit
  <2>1. d.keys # {}
    BY <1>3, FS_EmptySet
  <2>2. PICK o \in d.keys : Older(d, o) = {} /\ \A y \in d.keys \ {o} : <<o, y>> \in d.before
    BY <2>1, OneIsOldest
  <2> DEFINE left == {x \in d.keys : \E y \in d.keys : <<y, x>> \in d.before}
  <2>3. e = Only(d, left)
    BY <1>3 DEF WithoutOldest
  <2>4. left = d.keys \ {o}
    BY <2>2 DEF Older
  <2>5. /\ e \in Ordered(S) /\ e.keys = d.keys \cap left /\ Suborder(e, d)
    <3> HIDE DEF left, e
    <3> QED  BY <2>3, OnlyKeeps
  <2>6. e.keys = d.keys \ {o}
    BY <2>4, <2>5
  <2>7. IsFiniteSet(d.keys \ {o}) /\ Cardinality(d.keys \ {o}) = limit - 1
    BY <1>3, FS_RemoveElement
  <2> HIDE DEF left, e
  <2>8. \A x \in d.keys : x \notin e.keys => x = o
    BY <2>6
  <2>9. /\ Cardinality(e.keys) < limit /\ IsFiniteSet(e.keys)
    BY <2>6, <2>7
  <2>10. \A x \in d.keys : x \notin e.keys =>
            /\ Cardinality(d.keys \ {x}) = limit - 1
            /\ \A y \in d.keys \ {x} : <<x, y>> \in d.before
    BY <2>2, <2>7, <2>8
  <2> QED  BY <2>5, <2>9, <2>10 DEF e
<1> QED  BY <1>1, <1>2, <1>3

-----------------------------------------------------------------------------
(* The inductive invariant of the store *)

\* The keys and the peers of a key stand in one order, within the limits, and a
\* key is there as long as it has peers.
Dictionaries ==
    /\ Linear(store) /\ \A k \in Keys : Linear(peers[k])
    /\ Cardinality(store.keys) <= MaxKeys
    /\ \A k \in Keys : Cardinality(peers[k].keys) <= MaxPerKey
    /\ \A k \in Keys : k \in store.keys <=> peers[k].keys # {}

\* The order is the order of the announcements: no peer of a key was announced
\* later than all of a key after it.
OrderIsAge ==
    /\ \A k \in Keys : \A p, q \in peers[k].keys :
          <<p, q>> \in peers[k].before => seen[k][q] >= seen[k][p]
    /\ \A j, k \in store.keys : <<j, k>> \in store.before =>
          \A p \in Announcers : \E q \in Announcers : seen[k][q] >= seen[j][p]

\* A peer that is stored was announced.
Announced == \A k \in Keys : \A p \in peers[k].keys : seen[k][p] # Never

\* What has made a fresh announcement go.
Displaced(k, p) ==
    \/ Cardinality(NewerKeys(k, p)) >= MaxKeys
    \/ Cardinality(NewerPeers(k, p)) >= MaxPerKey

OnlyDisplaced ==
    \A k \in Keys, p \in Announcers : Fresh(k, p) /\ p \notin peers[k].keys => Displaced(k, p)

\* A peer of a key was announced at a time or later.
Since(f, k, t) == \E p \in Announcers : f[k][p] # Never /\ f[k][p] >= t

\* The cached keys were announced within the time to live before they were drawn,
\* and they are sent before the cache is due again.
SamplesSince ==
    /\ \A k \in cache.keys : Since(seen, k, cache.at - TTL - Interval)
    /\ \A k \in answered.keys : Since(seen, k, answered.at - TTL - Interval)

StoreInv ==
    /\ StoreTypeOK
    /\ Dictionaries
    /\ OrderIsAge
    /\ Announced
    /\ OnlyDisplaced
    /\ SamplesSince

(***************************************************************************)
(* The types, one by one.                                                  *)
(***************************************************************************)
LEMMA StoreTypes ==
  ASSUME StoreTypeOK
  PROVE  /\ now_ns \in Nat /\ MaxNow \in Nat /\ now_ns <= MaxNow
         /\ store \in Ordered(Keys) /\ store.keys \in SUBSET Keys
         /\ \A k \in Keys : peers[k] \in Ordered(Announcers)
         /\ \A k \in Keys : peers[k].keys \in SUBSET Announcers
         /\ \A k \in Keys, p \in Announcers : seen[k][p] \in Int /\ seen[k][p] <= now_ns
         /\ cache.at \in Int /\ answered.at \in Int
         /\ cache.keys \in SUBSET Keys /\ answered.keys \in SUBSET Keys
<1>1. now_ns \in Nat /\ MaxNow \in Nat /\ now_ns <= MaxNow
  BY StoreAssumption DEF StoreTypeOK
<1>2. store \in Ordered(Keys) /\ \A k \in Keys : peers[k] \in Ordered(Announcers)
  BY DEF StoreTypeOK
<1>3. store.keys \in SUBSET Keys /\ \A k \in Keys : peers[k].keys \in SUBSET Announcers
  BY <1>2 DEF Ordered
<1>4. \A k \in Keys, p \in Announcers : seen[k][p] \in -1..now_ns
  BY DEF StoreTypeOK
<1>5. \A k \in Keys, p \in Announcers : seen[k][p] \in Int /\ seen[k][p] <= now_ns
  BY <1>1, <1>4
<1>6. /\ cache.at \in Int /\ answered.at \in Int
      /\ cache.keys \in SUBSET Keys /\ answered.keys \in SUBSET Keys
  BY DEF StoreTypeOK, Sample
<1> QED  BY <1>1, <1>2, <1>3, <1>5, <1>6

(***************************************************************************)
(* Sets of keys and of peers are finite.                                   *)
(***************************************************************************)
LEMMA SomeFinite ==
  ASSUME NEW T, T \in SUBSET Keys \/ T \in SUBSET Announcers
  PROVE  IsFiniteSet(T) /\ Cardinality(T) \in Nat
BY FS_Subset, FS_CardinalityType, StoreAssumption

(***************************************************************************)
(* After _prune: the peers that are left are the alive ones, and a fresh   *)
(* announcement is not among them only if it was displaced.                *)
(***************************************************************************)
LEMMA PrunedFacts ==
  ASSUME StoreInv
  PROVE  /\ PrunedStore \in Ordered(Keys) /\ Suborder(PrunedStore, store)
         /\ Linear(PrunedStore)
         /\ IsFiniteSet(PrunedStore.keys) /\ Cardinality(PrunedStore.keys) <= MaxKeys
         /\ \A k \in Keys : k \in PrunedStore.keys <=> Alive(k) # {}
<1>1. /\ store \in Ordered(Keys) /\ store.keys \in SUBSET Keys
  BY StoreTypes DEF StoreInv
<1> DEFINE live == {k \in Keys : Alive(k) # {}}
<1>2. PrunedStore = Only(store, live)
  BY DEF PrunedStore
<1>3. /\ PrunedStore \in Ordered(Keys) /\ PrunedStore.keys = store.keys \cap live
      /\ Suborder(PrunedStore, store)
  <2> HIDE DEF live
  <2> QED  BY <1>1, <1>2, OnlyKeeps
<1>4. Linear(PrunedStore)
  BY <1>3, SuborderLinear DEF StoreInv, Dictionaries
<1>5. IsFiniteSet(PrunedStore.keys) /\ Cardinality(PrunedStore.keys) <= MaxKeys
  <2>1. IsFiniteSet(store.keys) /\ Cardinality(store.keys) \in Nat
    BY <1>1, SomeFinite
  <2>2. PrunedStore.keys \in SUBSET store.keys
    BY <1>3
  <2>3. /\ IsFiniteSet(PrunedStore.keys)
        /\ Cardinality(PrunedStore.keys) <= Cardinality(store.keys)
    BY <2>1, <2>2, FS_Subset
  <2>4. Cardinality(PrunedStore.keys) \in Nat
    BY <2>3, FS_CardinalityType
  <2>5. Cardinality(store.keys) <= MaxKeys /\ MaxKeys \in Nat
    BY StoreAssumption DEF StoreInv, Dictionaries
  <2> QED  BY <2>1, <2>3, <2>4, <2>5
<1>6. ASSUME NEW k \in Keys PROVE k \in PrunedStore.keys <=> Alive(k) # {}
  <2>1. Alive(k) # {} => k \in store.keys
    BY DEF Alive, StoreInv, Dictionaries
  <2> QED  BY <1>3, <2>1
<1> QED  BY <1>3, <1>4, <1>5, <1>6

\* After _prune the peers of each key are the alive ones, in their order.
LEMMA PrunedPeersFacts ==
  ASSUME StoreInv, NEW k \in Keys
  PROVE  /\ PrunedPeers[k] \in Ordered(Announcers) /\ PrunedPeers[k].keys = Alive(k)
         /\ Suborder(PrunedPeers[k], peers[k]) /\ Linear(PrunedPeers[k])
         /\ Alive(k) \in SUBSET Announcers
         /\ IsFiniteSet(Alive(k)) /\ Cardinality(Alive(k)) <= MaxPerKey
<1>1. peers[k] \in Ordered(Announcers) /\ peers[k].keys \in SUBSET Announcers
  BY StoreTypes DEF StoreInv
<1>2. PrunedPeers[k] = Only(peers[k], Alive(k)) /\ Alive(k) \in SUBSET peers[k].keys
  BY DEF PrunedPeers, Alive
<1>3. /\ PrunedPeers[k] \in Ordered(Announcers)
      /\ PrunedPeers[k].keys = peers[k].keys \cap Alive(k)
      /\ Suborder(PrunedPeers[k], peers[k])
  BY <1>1, <1>2, OnlyKeeps
<1>4. Linear(PrunedPeers[k])
  BY <1>3, SuborderLinear DEF StoreInv, Dictionaries
<1>5. IsFiniteSet(Alive(k)) /\ Cardinality(Alive(k)) <= MaxPerKey
  <2>1. IsFiniteSet(peers[k].keys) /\ Cardinality(peers[k].keys) \in Nat
    BY <1>1, SomeFinite
  <2>2. IsFiniteSet(Alive(k)) /\ Cardinality(Alive(k)) <= Cardinality(peers[k].keys)
    BY <1>2, <2>1, FS_Subset
  <2>3. Cardinality(Alive(k)) \in Nat
    BY <2>2, FS_CardinalityType
  <2>4. Cardinality(peers[k].keys) <= MaxPerKey /\ MaxPerKey \in Nat
    BY StoreAssumption DEF StoreInv, Dictionaries
  <2> QED  BY <2>1, <2>2, <2>3, <2>4
<1> QED  BY <1>1, <1>2, <1>3, <1>4, <1>5

\* A stored announcement within the time to live survives _prune.
LEMMA FreshAlive ==
  ASSUME StoreInv, NEW k \in Keys, NEW p \in Announcers, Fresh(k, p), p \notin Alive(k)
  PROVE  Displaced(k, p)
BY DEF StoreInv, OnlyDisplaced, Alive, Fresh

-----------------------------------------------------------------------------
(* The steps of the store *)

\* Announcements are only ever replaced by later ones.
Grows(f, g) ==
    \A k \in Keys, p \in Announcers : f[k][p] \in Int /\ g[k][p] \in Int /\ g[k][p] >= f[k][p]

(***************************************************************************)
(* What was announced since a time still was.                              *)
(***************************************************************************)
LEMMA SinceKept ==
  ASSUME NEW f, NEW g, Grows(f, g), NEW k \in Keys, NEW t \in Int, Since(f, k, t),
         f \in [Keys -> [Announcers -> -1..now_ns]]
  PROVE  Since(g, k, t)
<1>1. PICK p \in Announcers : f[k][p] # Never /\ f[k][p] >= t
  BY DEF Since
<1>2. f[k][p] \in Int /\ f[k][p] >= -1 /\ g[k][p] \in Int /\ g[k][p] >= f[k][p]
  <2>1. f[k][p] \in -1..now_ns
    OBVIOUS
  <2> QED  BY <2>1 DEF Grows
<1>3. g[k][p] # Never /\ g[k][p] >= t
  BY <1>1, <1>2 DEF Never
<1> QED  BY <1>3 DEF Since

(***************************************************************************)
(* Both answers and the cache are as recent as they were.                  *)
(***************************************************************************)
LEMMA SamplesKept ==
  ASSUME StoreInv, Grows(seen, seen'), UNCHANGED <<cache, answered>>
  PROVE  SamplesSince'
<1>1. /\ cache.at - TTL - Interval \in Int /\ answered.at - TTL - Interval \in Int
      /\ cache.keys \in SUBSET Keys /\ answered.keys \in SUBSET Keys
      /\ seen \in [Keys -> [Announcers -> -1..now_ns]]
  BY StoreTypes, StoreAssumption DEF StoreInv, StoreTypeOK
<1>2. /\ \A k \in cache.keys : Since(seen', k, cache.at - TTL - Interval)
      /\ \A k \in answered.keys : Since(seen', k, answered.at - TTL - Interval)
  BY <1>1, SinceKept DEF StoreInv, SamplesSince
<1> QED  BY <1>2 DEF SamplesSince

(***************************************************************************)
(* What has displaced an announcement stays newer.                         *)
(***************************************************************************)
LEMMA DisplacedKept ==
  ASSUME Grows(seen, seen'), NEW k \in Keys, NEW p \in Announcers,
         seen'[k][p] = seen[k][p], Displaced(k, p)
  PROVE  Displaced(k, p)'
<1>1. NewerKeys(k, p) \in SUBSET NewerKeys(k, p)'
  <2>1. ASSUME NEW j \in Keys \ {k}, NEW q \in Announcers, seen[j][q] >= seen[k][p]
        PROVE  seen'[j][q] >= seen'[k][p]
    BY <2>1 DEF Grows
  <2> QED  BY <2>1 DEF NewerKeys
<1>2. NewerPeers(k, p) \in SUBSET NewerPeers(k, p)'
  <2>1. ASSUME NEW q \in Announcers \ {p}, seen[k][q] >= seen[k][p]
        PROVE  seen'[k][q] >= seen'[k][p]
    BY <2>1 DEF Grows
  <2> QED  BY <2>1 DEF NewerPeers
<1>3. /\ NewerKeys(k, p)' \in SUBSET Keys /\ NewerPeers(k, p)' \in SUBSET Announcers
      /\ NewerKeys(k, p) \in SUBSET Keys /\ NewerPeers(k, p) \in SUBSET Announcers
  BY DEF NewerKeys, NewerPeers
<1>4. /\ IsFiniteSet(NewerKeys(k, p)') /\ IsFiniteSet(NewerPeers(k, p)')
      /\ Cardinality(NewerKeys(k, p)') \in Nat /\ Cardinality(NewerPeers(k, p)') \in Nat
      /\ Cardinality(NewerKeys(k, p)) \in Nat /\ Cardinality(NewerPeers(k, p)) \in Nat
  BY <1>3, SomeFinite
<1>5. /\ Cardinality(NewerKeys(k, p)) <= Cardinality(NewerKeys(k, p)')
      /\ Cardinality(NewerPeers(k, p)) <= Cardinality(NewerPeers(k, p)')
  BY <1>1, <1>2, <1>4, FS_Subset
<1> QED  BY <1>4, <1>5, StoreAssumption DEF Displaced

(***************************************************************************)
(* The store after _prune.                                                 *)
(***************************************************************************)
LEMMA PruneInv ==
  ASSUME StoreInv, Prune, UNCHANGED now_ns
  PROVE  Dictionaries' /\ OrderIsAge' /\ Announced' /\ OnlyDisplaced'
<1>1. store' = PrunedStore /\ peers' = PrunedPeers /\ seen' = seen
  BY DEF Prune
<1>2. Dictionaries'
  BY <1>1, PrunedFacts, PrunedPeersFacts DEF Dictionaries
<1>3. OrderIsAge'
  BY <1>1, PrunedFacts, PrunedPeersFacts DEF StoreInv, OrderIsAge, Suborder
<1>4. ASSUME NEW k \in Keys, NEW p \in Announcers, Fresh(k, p)', p \notin peers'[k].keys
      PROVE  Displaced(k, p)'
  <2>1. Fresh(k, p) /\ p \notin Alive(k)
    BY <1>1, <1>4, PrunedPeersFacts DEF Fresh
  <2>2. Displaced(k, p)
    BY <2>1, FreshAlive
  <2> QED  BY <1>1, <2>2 DEF Displaced, NewerKeys, NewerPeers
<1>5. OnlyDisplaced'
  BY <1>4 DEF OnlyDisplaced
<1>6. Announced'
  BY <1>1, PrunedPeersFacts DEF StoreInv, Announced, Alive
<1> QED  BY <1>2, <1>3, <1>5, <1>6

\* _prune keeps the store well typed.
LEMMA PruneTypes ==
  ASSUME StoreInv, Prune
  PROVE  /\ store' \in Ordered(Keys) /\ peers' \in [Keys -> Ordered(Announcers)]
         /\ Grows(seen, seen') /\ seen' = seen
<1>1. store' = PrunedStore /\ peers' = PrunedPeers /\ seen' = seen
  BY DEF Prune
<1>2. PrunedPeers \in [Keys -> Ordered(Announcers)]
  BY PrunedPeersFacts DEF PrunedPeers
<1>3. \A k \in Keys, p \in Announcers : seen[k][p] \in Int /\ seen[k][p] >= seen[k][p]
  BY StoreTypes DEF StoreInv
<1> QED  BY <1>1, <1>2, <1>3, PrunedFacts DEF Grows

\* The dictionaries before the key and the peer become the last ones.
Room(k) == IF k \in PrunedStore.keys THEN PrunedStore ELSE WithoutOldest(PrunedStore, MaxKeys)
Kept(k, p) == IF p \in Alive(k) THEN PrunedPeers[k]
              ELSE WithoutOldest(PrunedPeers[k], MaxPerKey)

(***************************************************************************)
(* There is room for the key.  One that leaves was the oldest of a full    *)
(* store.                                                                  *)
(***************************************************************************)
LEMMA RoomFacts ==
  ASSUME StoreInv, NEW k \in Keys
  PROVE  /\ Room(k) \in Ordered(Keys) /\ Suborder(Room(k), PrunedStore) /\ Linear(Room(k))
         /\ IsFiniteSet(Room(k).keys) /\ Cardinality(Room(k).keys \cup {k}) <= MaxKeys
         /\ \A o \in PrunedStore.keys : o \notin Room(k).keys =>
               /\ k \notin PrunedStore.keys
               /\ Cardinality(PrunedStore.keys \ {o}) = MaxKeys - 1
               /\ \A j \in PrunedStore.keys \ {o} : <<o, j>> \in PrunedStore.before
<1>1. /\ PrunedStore \in Ordered(Keys) /\ Linear(PrunedStore)
      /\ IsFiniteSet(PrunedStore.keys) /\ Cardinality(PrunedStore.keys) <= MaxKeys
      /\ MaxKeys \in Nat \ {0}
  BY PrunedFacts, StoreAssumption
<1>2. CASE k \in PrunedStore.keys
  <2>1. Room(k) = PrunedStore
    BY <1>2 DEF Room
  <2>2. Room(k).keys \cup {k} = Room(k).keys /\ Suborder(PrunedStore, PrunedStore)
    BY <1>2, <2>1 DEF Suborder
  <2> QED  BY <1>1, <2>1, <2>2
<1>3. CASE k \notin PrunedStore.keys
  <2>1. Room(k) = WithoutOldest(PrunedStore, MaxKeys)
    BY <1>3 DEF Room
  <2>2. /\ Room(k) \in Ordered(Keys) /\ Suborder(Room(k), PrunedStore)
        /\ Cardinality(Room(k).keys) < MaxKeys /\ IsFiniteSet(Room(k).keys)
        /\ \A o \in PrunedStore.keys : o \notin Room(k).keys =>
              /\ Cardinality(PrunedStore.keys \ {o}) = MaxKeys - 1
              /\ \A j \in PrunedStore.keys \ {o} : <<o, j>> \in PrunedStore.before
    BY <1>1, <2>1, RoomMade
  <2>3. Linear(Room(k))
    BY <1>1, <2>2, SuborderLinear
  <2>4. k \notin Room(k).keys
    BY <1>3, <2>2 DEF Suborder
  <2>5. /\ Cardinality(Room(k).keys \cup {k}) = Cardinality(Room(k).keys) + 1
        /\ Cardinality(Room(k).keys) \in Nat
    BY <2>2, <2>4, FS_AddElement, FS_CardinalityType
  <2>6. Cardinality(Room(k).keys \cup {k}) <= MaxKeys
    BY <1>1, <2>2, <2>5
  <2> QED  BY <1>3, <2>2, <2>3, <2>6
<1> QED  BY <1>2, <1>3

(***************************************************************************)
(* There is room for the peer.                                             *)
(***************************************************************************)
LEMMA KeptFacts ==
  ASSUME StoreInv, NEW k \in Keys, NEW p \in Announcers
  PROVE  /\ Kept(k, p) \in Ordered(Announcers) /\ Suborder(Kept(k, p), PrunedPeers[k])
         /\ Linear(Kept(k, p)) /\ IsFiniteSet(Kept(k, p).keys)
         /\ Cardinality(Kept(k, p).keys \cup {p}) <= MaxPerKey
         /\ \A o \in Alive(k) : o \notin Kept(k, p).keys =>
               /\ p \notin Alive(k)
               /\ Cardinality(Alive(k) \ {o}) = MaxPerKey - 1
               /\ \A q \in Alive(k) \ {o} : <<o, q>> \in PrunedPeers[k].before
<1>1. /\ PrunedPeers[k] \in Ordered(Announcers) /\ Linear(PrunedPeers[k])
      /\ PrunedPeers[k].keys = Alive(k)
      /\ IsFiniteSet(Alive(k)) /\ Cardinality(Alive(k)) <= MaxPerKey
      /\ MaxPerKey \in Nat \ {0}
  BY PrunedPeersFacts, StoreAssumption
<1>2. CASE p \in Alive(k)
  <2>1. Kept(k, p) = PrunedPeers[k]
    BY <1>2 DEF Kept
  <2>2. Kept(k, p).keys \cup {p} = Alive(k) /\ Suborder(PrunedPeers[k], PrunedPeers[k])
    BY <1>1, <1>2, <2>1 DEF Suborder
  <2> QED  BY <1>1, <2>1, <2>2
<1>3. CASE p \notin Alive(k)
  <2>1. Kept(k, p) = WithoutOldest(PrunedPeers[k], MaxPerKey)
    BY <1>3 DEF Kept
  <2> DEFINE d == PrunedPeers[k]
             e == Kept(k, p)
  <2>2. /\ e \in Ordered(Announcers) /\ Suborder(e, d)
        /\ Cardinality(e.keys) < MaxPerKey /\ IsFiniteSet(e.keys)
        /\ \A o \in d.keys : o \notin e.keys =>
              /\ Cardinality(d.keys \ {o}) = MaxPerKey - 1
              /\ \A q \in d.keys \ {o} : <<o, q>> \in d.before
    <3> HIDE DEF d, e
    <3>1. /\ d \in Ordered(Announcers) /\ Linear(d) /\ IsFiniteSet(d.keys)
          /\ Cardinality(d.keys) <= MaxPerKey /\ e = WithoutOldest(d, MaxPerKey)
      BY <1>1, <2>1 DEF d, e
    <3> QED  BY <1>1, <3>1, RoomMade
  <2>3. Linear(e)
    BY <1>1, <2>2, SuborderLinear
  <2>4. p \notin e.keys
    BY <1>1, <1>3, <2>2 DEF Suborder
  <2>5. /\ Cardinality(e.keys \cup {p}) = Cardinality(e.keys) + 1
        /\ Cardinality(e.keys) \in Nat
    <3> HIDE DEF e
    <3> QED  BY <2>2, <2>4, FS_AddElement, FS_CardinalityType
  <2>6. Cardinality(e.keys \cup {p}) <= MaxPerKey
    BY <1>1, <2>2, <2>5
  <2> QED  BY <1>1, <1>3, <2>2, <2>3, <2>6
<1> QED  BY <1>2, <1>3

(***************************************************************************)
(* The store after PeerStore.add.                                          *)
(***************************************************************************)
LEMMA AddFacts ==
  ASSUME StoreInv, NEW k \in Keys, NEW p \in Announcers, Add(k, p)
  PROVE  /\ store' = WithLast(Room(k), k) /\ store'.keys = Room(k).keys \cup {k}
         /\ peers'[k] = WithLast(Kept(k, p), p) /\ peers'[k].keys = Kept(k, p).keys \cup {p}
         /\ \A j \in Keys \ {k} :
               /\ j \in Room(k).keys => peers'[j] = PrunedPeers[j]
               /\ j \notin Room(k).keys => peers'[j] = Empty
         /\ seen' = [seen EXCEPT ![k][p] = now_ns]
         /\ DOMAIN peers' = Keys /\ peers' = [j \in Keys |-> peers'[j]]
<1>1. store' = WithLast(Room(k), k)
  BY DEF Add, Room
<1>2. peers' = [j \in Keys |-> IF j = k THEN WithLast(Kept(k, p), p)
                              ELSE IF j \in Room(k).keys THEN PrunedPeers[j] ELSE Empty]
  BY DEF Add, Room, Kept
<1>3. seen' = [seen EXCEPT ![k][p] = now_ns]
  BY DEF Add
<1>4. WithLast(Room(k), k).keys = Room(k).keys \cup {k}
  BY RoomFacts, LastIsLast
<1>5. WithLast(Kept(k, p), p).keys = Kept(k, p).keys \cup {p}
  BY KeptFacts, LastIsLast
<1> QED  BY <1>1, <1>2, <1>3, <1>4, <1>5

\* PeerStore.add dates the announcement now, later than every other one.
LEMMA AddSeen ==
  ASSUME StoreInv, NEW k \in Keys, NEW p \in Announcers, Add(k, p)
  PROVE  /\ Grows(seen, seen') /\ seen'[k][p] = now_ns
         /\ seen' \in [Keys -> [Announcers -> -1..now_ns]]
         /\ \A j \in Keys, q \in Announcers :
               (j # k \/ q # p) => seen'[j][q] = seen[j][q]
<1>1. /\ seen \in [Keys -> [Announcers -> -1..now_ns]]
      /\ now_ns \in Nat /\ seen' = [seen EXCEPT ![k][p] = now_ns]
  BY StoreTypes, AddFacts DEF StoreInv, StoreTypeOK
<1>2. seen' = [seen EXCEPT ![k] = [seen[k] EXCEPT ![p] = now_ns]]
  BY <1>1
<1>3. seen[k] \in [Announcers -> -1..now_ns] /\ now_ns \in -1..now_ns
  BY <1>1
<1>4. [seen[k] EXCEPT ![p] = now_ns] \in [Announcers -> -1..now_ns]
  BY <1>3
<1>5. seen' \in [Keys -> [Announcers -> -1..now_ns]]
  BY <1>1, <1>2, <1>4
<1>6. seen'[k][p] = now_ns
  BY <1>1, <1>2, <1>3
<1>7. ASSUME NEW j \in Keys, NEW q \in Announcers, j # k \/ q # p
      PROVE  seen'[j][q] = seen[j][q]
  <2>1. CASE j # k
    BY <1>1, <1>2, <2>1
  <2>2. CASE j = k
    BY <1>1, <1>2, <1>3, <1>7, <2>2
  <2> QED  BY <2>1, <2>2
<1>8. ASSUME NEW j \in Keys, NEW q \in Announcers
      PROVE  seen[j][q] \in Int /\ seen'[j][q] \in Int /\ seen'[j][q] >= seen[j][q]
  <2>1. seen[j][q] \in Int /\ seen[j][q] <= now_ns
    BY StoreTypes DEF StoreInv
  <2>2. CASE j = k /\ q = p
    BY <1>1, <1>6, <2>1, <2>2
  <2>3. CASE j # k \/ q # p
    BY <1>7, <2>1, <2>3
  <2> QED  BY <2>2, <2>3
<1> QED  BY <1>5, <1>6, <1>7, <1>8 DEF Grows

\* PeerStore.add leaves both levels dictionaries within their limits.
LEMMA AddDictionaries ==
  ASSUME StoreInv, NEW k \in Keys, NEW p \in Announcers, Add(k, p)
  PROVE  /\ store' \in Ordered(Keys) /\ peers' \in [Keys -> Ordered(Announcers)]
         /\ Dictionaries'
<1>1. /\ store' = WithLast(Room(k), k) /\ store'.keys = Room(k).keys \cup {k}
      /\ store' \in Ordered(Keys) /\ Linear(store') /\ Cardinality(store'.keys) <= MaxKeys
  <2>1. /\ Room(k) \in Ordered(Keys) /\ Linear(Room(k))
        /\ Cardinality(Room(k).keys \cup {k}) <= MaxKeys
    BY RoomFacts
  <2>2. store' = WithLast(Room(k), k) /\ store'.keys = Room(k).keys \cup {k}
    BY AddFacts
  <2>3. WithLast(Room(k), k) \in Ordered(Keys)
    BY <2>1, LastIsLast
  <2>4. Linear(WithLast(Room(k), k))
    BY <2>1, LastLinear
  <2> QED  BY <2>1, <2>2, <2>3, <2>4
<1>2. /\ peers'[k] \in Ordered(Announcers) /\ peers'[k].keys = Kept(k, p).keys \cup {p}
      /\ Linear(peers'[k]) /\ Cardinality(peers'[k].keys) <= MaxPerKey
  <2>1. /\ Kept(k, p) \in Ordered(Announcers) /\ Linear(Kept(k, p))
        /\ Cardinality(Kept(k, p).keys \cup {p}) <= MaxPerKey
    BY KeptFacts
  <2>2. peers'[k] = WithLast(Kept(k, p), p) /\ peers'[k].keys = Kept(k, p).keys \cup {p}
    BY AddFacts
  <2>3. WithLast(Kept(k, p), p) \in Ordered(Announcers)
    BY <2>1, LastIsLast
  <2>4. Linear(WithLast(Kept(k, p), p))
    BY <2>1, LastLinear
  <2> QED  BY <2>1, <2>2, <2>3, <2>4
<1>3. /\ Empty \in Ordered(Announcers) /\ Linear(Empty) /\ Empty.keys = {}
      /\ Cardinality(Empty.keys) <= MaxPerKey
  <2>1. Cardinality({}) = 0 /\ MaxPerKey \in Nat
    BY FS_EmptySet, StoreAssumption
  <2> QED  BY <2>1 DEF Empty, Ordered, Linear
<1>4. ASSUME NEW j \in Keys \ {k}
      PROVE  /\ peers'[j] \in Ordered(Announcers) /\ Linear(peers'[j])
             /\ Cardinality(peers'[j].keys) <= MaxPerKey
             /\ j \in store'.keys <=> peers'[j].keys # {}
  <2>1. CASE j \in Room(k).keys
    <3>1. peers'[j] = PrunedPeers[j]
      BY <2>1, AddFacts
    <3>2. Alive(j) # {}
      BY <2>1, RoomFacts, PrunedFacts DEF Suborder
    <3> QED  BY <1>1, <2>1, <3>1, <3>2, PrunedPeersFacts
  <2>2. CASE j \notin Room(k).keys
    <3>1. peers'[j] = Empty
      BY <2>2, AddFacts
    <3> QED  BY <1>1, <1>3, <2>2, <3>1
  <2> QED  BY <2>1, <2>2
<1>5. ASSUME NEW j \in Keys
      PROVE  /\ peers'[j] \in Ordered(Announcers) /\ Linear(peers'[j])
             /\ Cardinality(peers'[j].keys) <= MaxPerKey
             /\ j \in store'.keys <=> peers'[j].keys # {}
  <2>1. CASE j = k
    BY <1>1, <1>2, <2>1
  <2>2. CASE j # k
    BY <1>4, <2>2
  <2> QED  BY <2>1, <2>2
<1>6. peers' \in [Keys -> Ordered(Announcers)]
  BY <1>5, AddFacts
<1>7. Dictionaries'
  BY <1>1, <1>5 DEF Dictionaries
<1> QED  BY <1>1, <1>6, <1>7

\* After PeerStore.add the order of both levels is still that of the
\* announcements.
LEMMA AddOrder ==
  ASSUME StoreInv, NEW k \in Keys, NEW p \in Announcers, Add(k, p)
  PROVE  OrderIsAge'
<1>1. /\ now_ns \in Nat /\ seen'[k][p] = now_ns
      /\ \A j \in Keys, q \in Announcers : seen[j][q] \in Int /\ seen[j][q] <= now_ns
      /\ \A j \in Keys, q \in Announcers : (j # k \/ q # p) => seen'[j][q] = seen[j][q]
  BY StoreTypes, AddSeen DEF StoreInv
<1>2. /\ \A j \in Keys : \A q, r \in peers[j].keys :
            <<q, r>> \in peers[j].before => seen[j][r] >= seen[j][q]
      /\ \A i, j \in store.keys : <<i, j>> \in store.before =>
            \A q \in Announcers : \E r \in Announcers : seen[j][r] >= seen[i][q]
  BY DEF StoreInv, OrderIsAge
<1>3. ASSUME NEW j \in Keys, NEW q \in peers'[j].keys, NEW r \in peers'[j].keys,
             <<q, r>> \in peers'[j].before
      PROVE  seen'[j][r] >= seen'[j][q]
  <2>1. CASE j = k
    <3>1. /\ Kept(k, p) \in Ordered(Announcers) /\ peers'[k] = WithLast(Kept(k, p), p)
          /\ peers'[k].keys = Kept(k, p).keys \cup {p}
          /\ Suborder(Kept(k, p), PrunedPeers[k]) /\ Suborder(PrunedPeers[k], peers[k])
      BY AddFacts, KeptFacts, PrunedPeersFacts
    <3>2. Kept(k, p).keys \in SUBSET Announcers
      BY <3>1 DEF Ordered
    <3>3. q # p /\ q \in Kept(k, p).keys
      <4>1. /\ \A y \in Kept(k, p).keys : <<p, y>> \notin WithLast(Kept(k, p), p).before
            /\ <<p, p>> \notin WithLast(Kept(k, p), p).before
        BY <3>1, LastIsLast
      <4> QED  BY <1>3, <2>1, <3>1, <4>1
    <3>4. CASE r = p
      BY <1>1, <2>1, <3>2, <3>3, <3>4
    <3>5. CASE r # p
      <4>1. r \in Kept(k, p).keys /\ <<q, r>> \in Kept(k, p).before
        <5>1. \A y, z \in Kept(k, p).keys \ {p} :
                 <<y, z>> \in WithLast(Kept(k, p), p).before <=> <<y, z>> \in Kept(k, p).before
          BY <3>1, LastIsLast
        <5> QED  BY <1>3, <2>1, <3>1, <3>3, <3>5, <5>1
      <4>2. q \in peers[k].keys /\ r \in peers[k].keys /\ <<q, r>> \in peers[k].before
        BY <3>1, <3>3, <4>1 DEF Suborder
      <4> QED  BY <1>1, <1>2, <2>1, <3>2, <3>3, <3>5, <4>1, <4>2
    <3> QED  BY <3>4, <3>5
  <2>2. CASE j # k
    <3>1. peers'[j] = PrunedPeers[j]
      <4>1. peers'[j] # Empty
        BY <1>3 DEF Empty
      <4> QED  BY <2>2, <4>1, AddFacts
    <3>2. Suborder(PrunedPeers[j], peers[j]) /\ PrunedPeers[j].keys \in SUBSET Announcers
      BY PrunedPeersFacts
    <3>3. /\ q \in peers[j].keys /\ r \in peers[j].keys /\ <<q, r>> \in peers[j].before
          /\ q \in Announcers /\ r \in Announcers
      BY <1>3, <3>1, <3>2 DEF Suborder
    <3> QED  BY <1>1, <1>2, <2>2, <3>3
  <2> QED  BY <2>1, <2>2
<1>4. ASSUME NEW i \in store'.keys, NEW j \in store'.keys, <<i, j>> \in store'.before,
             NEW q \in Announcers
      PROVE  \E r \in Announcers : seen'[j][r] >= seen'[i][q]
  <2>1. /\ Room(k) \in Ordered(Keys) /\ store' = WithLast(Room(k), k)
        /\ store'.keys = Room(k).keys \cup {k}
        /\ Suborder(Room(k), PrunedStore) /\ Suborder(PrunedStore, store)
    BY AddFacts, RoomFacts, PrunedFacts
  <2>2. i # k /\ i \in Room(k).keys
    <3>1. /\ \A y \in Room(k).keys : <<k, y>> \notin WithLast(Room(k), k).before
          /\ <<k, k>> \notin WithLast(Room(k), k).before
      BY <2>1, LastIsLast
    <3> QED  BY <1>4, <2>1, <3>1
  <2>3. Room(k).keys \in SUBSET Keys
    BY <2>1 DEF Ordered
  <2>4. CASE j = k
    <3>1. seen'[i][q] = seen[i][q] /\ seen[i][q] <= now_ns /\ seen[i][q] \in Int
      BY <1>1, <2>2, <2>3
    <3>2. seen'[j][p] >= seen'[i][q]
      BY <1>1, <2>4, <3>1
    <3> QED  BY <3>2
  <2>5. CASE j # k
    <3>1. j \in Room(k).keys /\ <<i, j>> \in Room(k).before
      <4>1. \A y, z \in Room(k).keys \ {k} :
               <<y, z>> \in WithLast(Room(k), k).before <=> <<y, z>> \in Room(k).before
        BY <2>1, LastIsLast
      <4> QED  BY <1>4, <2>1, <2>2, <2>5, <4>1
    <3>2. i \in store.keys /\ j \in store.keys /\ <<i, j>> \in store.before
      BY <2>1, <2>2, <3>1 DEF Suborder
    <3>3. PICK r \in Announcers : seen[j][r] >= seen[i][q]
      BY <1>2, <3>2
    <3>4. seen'[j][r] = seen[j][r] /\ seen'[i][q] = seen[i][q]
      BY <1>1, <2>2, <2>3, <2>5, <3>1
    <3> QED  BY <3>3, <3>4
  <2> QED  BY <2>4, <2>5
<1>5. /\ \A j \in Keys : \A q, r \in peers'[j].keys :
            <<q, r>> \in peers'[j].before => seen'[j][r] >= seen'[j][q]
  BY <1>3
<1>6. \A i, j \in store'.keys : <<i, j>> \in store'.before =>
            \A q \in Announcers : \E r \in Announcers : seen'[j][r] >= seen'[i][q]
  BY <1>4
<1> QED  BY <1>5, <1>6 DEF OrderIsAge

\* After PeerStore.add whatever is stored has been announced.
LEMMA AddAnnounced ==
  ASSUME StoreInv, NEW k \in Keys, NEW p \in Announcers, Add(k, p)
  PROVE  Announced'
<1> SUFFICES ASSUME NEW j \in Keys, NEW q \in peers'[j].keys PROVE seen'[j][q] # Never
  BY DEF Announced
<1>1. CASE j = k /\ q = p
  <2>1. seen'[j][q] = now_ns /\ now_ns \in Nat
    BY <1>1, AddSeen, StoreTypes DEF StoreInv
  <2> QED  BY <2>1 DEF Never
<1>2. CASE j # k \/ q # p
  <2>1. q \in Alive(j)
    <3>1. CASE j = k
      <4>1. q \in Kept(k, p).keys
        <5>1. peers'[k].keys = Kept(k, p).keys \cup {p}
          BY AddFacts
        <5> QED  BY <1>2, <3>1, <5>1
      <4>2. Suborder(Kept(k, p), PrunedPeers[k]) /\ PrunedPeers[k].keys = Alive(k)
        BY KeptFacts, PrunedPeersFacts
      <4> QED  BY <3>1, <4>1, <4>2 DEF Suborder
    <3>2. CASE j # k
      <4>1. peers'[j] # Empty
        BY DEF Empty
      <4>2. peers'[j] = PrunedPeers[j]
        BY <3>2, <4>1, AddFacts
      <4> QED  BY <4>2, PrunedPeersFacts
    <3> QED  BY <3>1, <3>2
  <2>2. q \in peers[j].keys /\ q \in Announcers
    BY <2>1, PrunedPeersFacts DEF Alive
  <2>3. seen'[j][q] = seen[j][q]
    BY <1>2, <2>2, AddSeen
  <2> QED  BY <2>2, <2>3 DEF StoreInv, Announced
<1> QED  BY <1>1, <1>2

(***************************************************************************)
(* The announcement that leaves a full dictionary was displaced.           *)
(***************************************************************************)
LEMMA AddDisplaced ==
  ASSUME StoreInv, NEW k \in Keys, NEW p \in Announcers, Add(k, p), UNCHANGED now_ns
  PROVE  OnlyDisplaced'
<1> SUFFICES ASSUME NEW j \in Keys, NEW q \in Announcers,
                    Fresh(j, q)', q \notin peers'[j].keys
             PROVE  Displaced(j, q)'
  BY DEF OnlyDisplaced
<1>1. j # k \/ q # p
  BY AddFacts
<1>2. /\ Grows(seen, seen') /\ seen'[j][q] = seen[j][q] /\ Fresh(j, q)
      /\ seen'[k][p] = now_ns /\ seen[j][q] \in Int /\ seen[j][q] <= now_ns
  BY <1>1, AddSeen, StoreTypes DEF Fresh, StoreInv
<1>3. CASE q \notin Alive(j)
  BY <1>2, <1>3, FreshAlive, DisplacedKept
<1>4. CASE q \in Alive(j) /\ j = k
  <2>1. /\ p \notin Alive(k) /\ Cardinality(Alive(k) \ {q}) = MaxPerKey - 1
        /\ \A r \in Alive(k) \ {q} : <<q, r>> \in PrunedPeers[k].before
    <3>1. q \in Alive(k) /\ q \notin Kept(k, p).keys
      BY <1>4, AddFacts
    <3> QED  BY <3>1, KeptFacts
  <2>2. /\ Alive(k) \in SUBSET Announcers /\ PrunedPeers[k].keys = Alive(k)
        /\ Suborder(PrunedPeers[k], peers[k])
    BY PrunedPeersFacts
  <2>3. ASSUME NEW r \in Alive(k) \ {q} PROVE r \in NewerPeers(k, q)'
    <3>1. <<q, r>> \in peers[k].before /\ q \in peers[k].keys /\ r \in peers[k].keys
      BY <1>4, <2>1, <2>2 DEF Suborder
    <3>2. seen[k][r] >= seen[k][q]
      BY <3>1 DEF StoreInv, OrderIsAge
    <3>3. seen'[k][r] >= seen'[k][q]
      <4>1. seen'[k][r] \in Int /\ seen'[k][r] >= seen[k][r] /\ seen[k][r] \in Int
        BY <1>2, <2>2 DEF Grows
      <4> QED  BY <1>2, <1>4, <3>2, <4>1
    <3> QED  BY <2>2, <3>3 DEF NewerPeers
  <2>4. p \in NewerPeers(k, q)'
    BY <1>1, <1>2, <1>4 DEF NewerPeers
  <2> DEFINE T == Alive(k) \ {q}
  <2>5. T \cup {p} \in SUBSET NewerPeers(k, q)' /\ NewerPeers(k, q)' \in SUBSET Announcers
    <3>1. NewerPeers(k, q)' \in SUBSET Announcers
      BY DEF NewerPeers
    <3> QED  BY <2>3, <2>4, <3>1
  <2>6. T \in SUBSET Announcers /\ p \notin T
    BY <2>1, <2>2
  <2> HIDE DEF T
  <2>7. Cardinality(T \cup {p}) = Cardinality(T) + 1
    BY <2>6, SomeFinite, FS_AddElement
  <2>8. /\ Cardinality(T \cup {p}) <= Cardinality(NewerPeers(k, q)')
    BY <2>5, SomeFinite, FS_Subset
  <2>9. Cardinality(T) = MaxPerKey - 1 /\ MaxPerKey \in Nat
    BY <2>1, StoreAssumption DEF T
  <2>10. Cardinality(NewerPeers(k, q)') \in Nat
    BY <2>5, SomeFinite
  <2>11. Cardinality(NewerPeers(k, q)') >= MaxPerKey
    BY <2>7, <2>8, <2>9, <2>10
  <2> QED  BY <1>4, <2>11 DEF Displaced
<1>5. CASE q \in Alive(j) /\ j # k
  <2>1. j \in PrunedStore.keys /\ j \notin Room(k).keys
    BY <1>5, AddFacts, PrunedFacts, PrunedPeersFacts
  <2>2. /\ k \notin PrunedStore.keys /\ Cardinality(PrunedStore.keys \ {j}) = MaxKeys - 1
        /\ \A m \in PrunedStore.keys \ {j} : <<j, m>> \in PrunedStore.before
    BY <2>1, RoomFacts
  <2>3. /\ PrunedStore.keys \in SUBSET Keys /\ Suborder(PrunedStore, store)
    BY PrunedFacts DEF Ordered
  <2>4. ASSUME NEW m \in PrunedStore.keys \ {j} PROVE m \in NewerKeys(j, q)'
    <3>1. <<j, m>> \in store.before /\ j \in store.keys /\ m \in store.keys
      BY <2>1, <2>2, <2>3 DEF Suborder
    <3>2. PICK r \in Announcers : seen[m][r] >= seen[j][q]
      BY <3>1 DEF StoreInv, OrderIsAge
    <3>3. seen'[m][r] >= seen'[j][q]
      <4>1. seen'[m][r] \in Int /\ seen'[m][r] >= seen[m][r] /\ seen[m][r] \in Int
        BY <1>2, <2>3 DEF Grows
      <4> QED  BY <1>2, <3>2, <4>1
    <3> QED  BY <2>3, <3>3 DEF NewerKeys
  <2>5. k \in NewerKeys(j, q)'
    BY <1>2, <1>5 DEF NewerKeys
  <2> DEFINE T == PrunedStore.keys \ {j}
  <2>6. T \cup {k} \in SUBSET NewerKeys(j, q)' /\ NewerKeys(j, q)' \in SUBSET Keys
    <3>1. NewerKeys(j, q)' \in SUBSET Keys
      BY DEF NewerKeys
    <3> QED  BY <2>4, <2>5, <3>1
  <2>7. T \in SUBSET Keys /\ k \notin T
    BY <2>2, <2>3
  <2> HIDE DEF T
  <2>8. Cardinality(T \cup {k}) = Cardinality(T) + 1
    BY <2>7, SomeFinite, FS_AddElement
  <2>9. Cardinality(T \cup {k}) <= Cardinality(NewerKeys(j, q)')
    BY <2>6, SomeFinite, FS_Subset
  <2>10. Cardinality(T) = MaxKeys - 1 /\ MaxKeys \in Nat
    BY <2>2, StoreAssumption DEF T
  <2>11. Cardinality(NewerKeys(j, q)') \in Nat
    BY <2>6, SomeFinite
  <2>12. Cardinality(NewerKeys(j, q)') >= MaxKeys
    BY <2>8, <2>9, <2>10, <2>11
  <2> QED  BY <2>12 DEF Displaced
<1> QED  BY <1>3, <1>4, <1>5

(***************************************************************************)
(* An announcement is added.                                               *)
(***************************************************************************)
LEMMA AnnounceInv ==
  ASSUME StoreInv, NEW k \in Keys, NEW p \in Announcers, AnnouncePeer(k, p)
  PROVE  StoreInv'
<1>1. Add(k, p) /\ UNCHANGED <<now_ns, cache, answered>>
  BY DEF AnnouncePeer
<1>2. /\ store' \in Ordered(Keys) /\ peers' \in [Keys -> Ordered(Announcers)]
      /\ Dictionaries' /\ OrderIsAge' /\ Announced' /\ OnlyDisplaced'
  BY <1>1, AddDictionaries, AddOrder, AddAnnounced, AddDisplaced
<1>3. Grows(seen, seen') /\ seen' \in [Keys -> [Announcers -> -1..now_ns]]
  BY <1>1, AddSeen
<1>4. StoreTypeOK'
  BY <1>1, <1>2, <1>3 DEF StoreInv, StoreTypeOK
<1>5. SamplesSince'
  BY <1>1, <1>3, SamplesKept
<1> QED  BY <1>2, <1>4, <1>5 DEF StoreInv

(***************************************************************************)
(* The peers of a key are read.                                            *)
(***************************************************************************)
LEMMA GetPeersInv == StoreInv /\ GetPeers => StoreInv'
<1> SUFFICES ASSUME StoreInv, GetPeers PROVE StoreInv'
  OBVIOUS
<1>1. Prune /\ UNCHANGED <<now_ns, cache, answered>>
  BY DEF GetPeers
<1>2. /\ store' \in Ordered(Keys) /\ peers' \in [Keys -> Ordered(Announcers)]
      /\ Grows(seen, seen') /\ seen' = seen
  BY <1>1, PruneTypes
<1>3. Dictionaries' /\ OrderIsAge' /\ Announced' /\ OnlyDisplaced'
  BY <1>1, PruneInv
<1>4. StoreTypeOK'
  BY <1>1, <1>2 DEF StoreInv, StoreTypeOK
<1>5. SamplesSince'
  BY <1>1, <1>2, SamplesKept
<1> QED  BY <1>3, <1>4, <1>5 DEF StoreInv

(***************************************************************************)
(* Samples are sent: new ones, of keys that are alive, or the cached ones  *)
(* before they are due.                                                    *)
(***************************************************************************)
LEMMA SampleInv == StoreInv /\ SampleInfohashes => StoreInv'
<1> SUFFICES ASSUME StoreInv, SampleInfohashes PROVE StoreInv'
  OBVIOUS
<1>1. /\ Prune /\ UNCHANGED now_ns
      /\ answered' = [at |-> now_ns, keys |-> cache'.keys]
  BY DEF SampleInfohashes
<1>2. /\ store' \in Ordered(Keys) /\ peers' \in [Keys -> Ordered(Announcers)]
      /\ seen' = seen
  BY <1>1, PruneTypes
<1>3. Dictionaries' /\ OrderIsAge' /\ Announced' /\ OnlyDisplaced'
  BY <1>1, PruneInv
<1>4. /\ now_ns \in Nat /\ TTL \in Nat /\ Interval \in Nat /\ cache.at \in Int
      /\ cache.keys \in SUBSET Keys /\ cache \in Sample
      /\ \A k \in Keys, p \in Announcers : seen[k][p] \in -1..now_ns
  BY StoreTypes, StoreAssumption DEF StoreInv, StoreTypeOK
<1>5. /\ cache' \in Sample /\ cache'.keys \in SUBSET Keys /\ cache'.at \in Int
      /\ \A k \in cache'.keys : Since(seen, k, cache'.at - TTL - Interval)
      /\ now_ns <= cache'.at
  <2>1. CASE CacheDue
    <3>1. PICK ks \in SUBSET Keys :
             Draw(ks) /\ cache' = [at |-> now_ns + Interval, keys |-> ks]
      BY <2>1 DEF SampleInfohashes
    <3>2. ASSUME NEW k \in ks PROVE Since(seen, k, now_ns - TTL)
      <4>1. k \in Keys /\ k \in PrunedStore.keys
        BY <3>1 DEF Draw
      <4>2. PICK p \in Alive(k) : TRUE
        BY <4>1, PrunedFacts
      <4>3. p \in peers[k].keys /\ p \in Announcers /\ seen[k][p] >= now_ns - TTL
        BY <4>1, PrunedPeersFacts DEF Alive
      <4>4. seen[k][p] # Never
        BY <4>1, <4>3 DEF StoreInv, Announced
      <4> QED  BY <4>3, <4>4 DEF Since
    <3>3. now_ns + Interval - TTL - Interval = now_ns - TTL
      BY <1>4
    <3>4. cache' \in Sample
      BY <1>4, <3>1 DEF Sample
    <3>5. cache'.at = now_ns + Interval /\ cache'.keys = ks
      BY <3>1
    <3> QED  BY <1>4, <3>1, <3>2, <3>3, <3>4, <3>5
  <2>2. CASE ~ CacheDue
    <3>1. cache' = cache /\ ~ (now_ns >= cache.at)
      BY <2>2 DEF SampleInfohashes, CacheDue
    <3> QED  BY <1>4, <3>1 DEF StoreInv, SamplesSince
  <2> QED  BY <2>1, <2>2
<1>6. ASSUME NEW k \in cache'.keys PROVE Since(seen, k, now_ns - TTL - Interval)
  <2>1. PICK p \in Announcers :
           seen[k][p] # Never /\ seen[k][p] >= cache'.at - TTL - Interval
    BY <1>5 DEF Since
  <2>2. seen[k][p] \in Int
    BY <1>4, <1>5
  <2>3. seen[k][p] >= now_ns - TTL - Interval
    BY <1>4, <1>5, <2>1, <2>2
  <2> QED  BY <2>1, <2>3 DEF Since
<1>7. answered' \in Sample /\ answered'.at = now_ns /\ answered'.keys = cache'.keys
  BY <1>1, <1>4, <1>5 DEF Sample
<1>8. SamplesSince'
  BY <1>2, <1>5, <1>6, <1>7 DEF SamplesSince
<1>9. StoreTypeOK'
  BY <1>1, <1>2, <1>5, <1>7 DEF StoreInv, StoreTypeOK
<1> QED  BY <1>3, <1>8, <1>9 DEF StoreInv

(***************************************************************************)
(* Time passes: fewer announcements are fresh.                             *)
(***************************************************************************)
LEMMA TimeInv == StoreInv /\ TimePasses => StoreInv'
<1> SUFFICES ASSUME StoreInv, TimePasses PROVE StoreInv'
  OBVIOUS
<1>1. /\ now_ns < MaxNow /\ now_ns' = now_ns + 1
      /\ UNCHANGED <<store, peers, seen, cache, answered>>
  BY DEF TimePasses
<1>2. /\ now_ns \in Nat /\ MaxNow \in Nat /\ TTL \in Nat
      /\ \A k \in Keys, p \in Announcers : seen[k][p] \in Int
  BY StoreTypes, StoreAssumption DEF StoreInv
<1>3. now_ns' \in 0..MaxNow
  BY <1>1, <1>2
<1>4. seen' \in [Keys -> [Announcers -> -1..now_ns']]
  <2>1. seen \in [Keys -> [Announcers -> -1..now_ns]]
    BY DEF StoreInv, StoreTypeOK
  <2>2. -1..now_ns \subseteq -1..now_ns'
    BY <1>1, <1>2
  <2> DEFINE T == -1..now_ns
             U == -1..now_ns'
  <2>3. [Keys -> [Announcers -> T]] \subseteq [Keys -> [Announcers -> U]]
    <3>1. T \subseteq U
      BY <2>2
    <3> HIDE DEF T, U
    <3> QED  BY <3>1
  <2> QED  BY <1>1, <2>1, <2>3
<1>5. StoreTypeOK'
  BY <1>1, <1>3, <1>4 DEF StoreInv, StoreTypeOK
<1>6. Dictionaries' /\ OrderIsAge' /\ Announced' /\ SamplesSince'
  BY <1>1 DEF StoreInv, Dictionaries, OrderIsAge, Announced, SamplesSince
<1>7. ASSUME NEW k \in Keys, NEW p \in Announcers, Fresh(k, p)', p \notin peers'[k].keys
      PROVE  Displaced(k, p)'
  <2>1. Fresh(k, p)
    BY <1>1, <1>2, <1>7 DEF Fresh
  <2>2. Displaced(k, p)
    BY <1>1, <1>7, <2>1 DEF StoreInv, OnlyDisplaced
  <2> QED  BY <1>1, <2>2 DEF Displaced, NewerKeys, NewerPeers
<1>8. OnlyDisplaced'
  BY <1>7 DEF OnlyDisplaced
<1> QED  BY <1>5, <1>6, <1>8 DEF StoreInv

\* An empty store meets the invariant.
LEMMA StoreInvInit == StoreInit => StoreInv
<1> SUFFICES ASSUME StoreInit PROVE StoreInv
  OBVIOUS
<1>1. /\ now_ns = 0 /\ store = Empty /\ \A k \in Keys : peers[k] = Empty
      /\ peers = [k \in Keys |-> Empty]
      /\ seen = [k \in Keys |-> [p \in Announcers |-> Never]]
      /\ cache = [at |-> Never, keys |-> {}] /\ answered = [at |-> Never, keys |-> {}]
  BY DEF StoreInit
<1>2. /\ \A S : Empty \in Ordered(S) /\ Linear(Empty) /\ Empty.keys = {}
      /\ Empty.before = {}
  BY DEF Empty, Ordered, Linear
<1>3. Cardinality({}) = 0 /\ MaxKeys \in Nat /\ MaxPerKey \in Nat /\ MaxNow \in Nat
  BY FS_EmptySet, StoreAssumption
<1>4. StoreTypeOK
  <2>1. Never \in -1..now_ns /\ Never \in Int /\ now_ns \in 0..MaxNow
    BY <1>1, <1>3 DEF Never
  <2>2. seen \in [Keys -> [Announcers -> -1..now_ns]]
    BY <1>1, <2>1
  <2>3. cache \in Sample /\ answered \in Sample
    BY <1>1, <2>1 DEF Sample
  <2> QED  BY <1>1, <1>2, <2>1, <2>2, <2>3 DEF StoreTypeOK
<1>5. Dictionaries /\ OrderIsAge
  BY <1>1, <1>2, <1>3 DEF Dictionaries, OrderIsAge
<1>6. OnlyDisplaced /\ SamplesSince /\ Announced
  BY <1>1, <1>2 DEF OnlyDisplaced, SamplesSince, Fresh, Announced
<1> QED  BY <1>4, <1>5, <1>6 DEF StoreInv

(***************************************************************************)
(* Every step keeps the invariant.                                         *)
(***************************************************************************)
LEMMA StoreInvStep == StoreInv /\ [StoreNext]_storeVars => StoreInv'
<1> SUFFICES ASSUME StoreInv, [StoreNext]_storeVars PROVE StoreInv'
  OBVIOUS
<1>1. CASE \E k \in Keys, p \in Announcers : AnnouncePeer(k, p)
  BY <1>1, AnnounceInv
<1>2. CASE GetPeers
  BY <1>2, GetPeersInv
<1>3. CASE SampleInfohashes
  BY <1>3, SampleInv
<1>4. CASE TimePasses
  BY <1>4, TimeInv
<1>5. CASE UNCHANGED storeVars
  <2>1. UNCHANGED <<now_ns, store, peers, seen, cache, answered>>
    BY <1>5 DEF storeVars
  <2>2. StoreTypeOK' /\ Dictionaries' /\ OrderIsAge' /\ SamplesSince' /\ Announced'
    BY <2>1 DEF StoreInv, StoreTypeOK, Dictionaries, OrderIsAge, SamplesSince, Announced
  <2>3. OnlyDisplaced'
    BY <2>1 DEF StoreInv, OnlyDisplaced, Fresh, Displaced, NewerKeys, NewerPeers
  <2> QED  BY <2>2, <2>3 DEF StoreInv
<1> QED  BY <1>1, <1>2, <1>3, <1>4, <1>5 DEF StoreNext

(***************************************************************************)
(* The invariant holds in every reachable state.                           *)
(***************************************************************************)
THEOREM StoreInvariance == StoreSpec => []StoreInv
<1>1. StoreInit => StoreInv
  BY StoreInvInit
<1>2. StoreInv /\ [StoreNext]_storeVars => StoreInv'
  BY StoreInvStep
<1> QED  BY <1>1, <1>2, PTL DEF StoreSpec

-----------------------------------------------------------------------------
(* The theorems about the store *)

(***************************************************************************)
(* NewestKept, for any number of keys and peers and any limits: the store  *)
(* keeps within them, and a fresh announcement that is gone was displaced  *)
(* by as many newer ones as there is room for.                             *)
(***************************************************************************)
THEOREM NewestKeptCorrect == StoreSpec => []NewestKept
<1>1. ASSUME StoreInv PROVE NewestKept
  <2>1. StoreTypeOK /\ Cardinality(store.keys) <= MaxKeys /\ store.keys \in SUBSET Keys
    BY <1>1, StoreTypes DEF StoreInv, Dictionaries
  <2>2. ASSUME NEW k \in store.keys PROVE Cardinality(peers[k].keys) \in 1..MaxPerKey
    <3>1. k \in Keys /\ peers[k].keys \in SUBSET Announcers
      BY <1>1, <2>1, StoreTypes DEF StoreInv
    <3>2. /\ peers[k].keys # {} /\ Cardinality(peers[k].keys) <= MaxPerKey
      BY <1>1, <3>1 DEF StoreInv, Dictionaries
    <3>3. IsFiniteSet(peers[k].keys) /\ Cardinality(peers[k].keys) \in Nat
      BY <3>1, SomeFinite
    <3>4. Cardinality(peers[k].keys) # 0
      BY <3>2, <3>3, FS_EmptySet
    <3> QED  BY <3>2, <3>3, <3>4, StoreAssumption
  <2>3. ASSUME NEW k \in Keys, NEW p \in Announcers, Fresh(k, p), ~ Stored(k, p)
        PROVE  Displaced(k, p)
    <3>1. p \notin peers[k].keys
      BY <1>1, <2>3 DEF Stored, StoreInv, Dictionaries
    <3> QED  BY <1>1, <2>3, <3>1 DEF StoreInv, OnlyDisplaced
  <2> QED  BY <2>1, <2>2, <2>3 DEF NewestKept, Displaced
<1> QED  BY <1>1, StoreInvariance, PTL

(***************************************************************************)
(* SamplesRecent, for any time to live and any interval: the samples that  *)
(* are sent are of keys announced within both, though nothing invalidates  *)
(* the cache.                                                              *)
(***************************************************************************)
THEOREM SamplesRecentCorrect == StoreSpec => []SamplesRecent
<1>1. StoreInv => SamplesRecent
  BY DEF StoreInv, SamplesSince, SamplesRecent, Since
<1> QED  BY <1>1, StoreInvariance, PTL

-----------------------------------------------------------------------------
(* The inductive invariant of the tokens *)

\* When a token was issued, from the age of its secret: during one rotation
\* interval, and long ago if its secret is gone.
Dated(t) ==
    /\ t.secret = tm.current =>
          tm.current_created <= t.at /\ t.at < tm.current_created + Rotation
    /\ t.secret = tm.previous =>
          /\ tm.previous_created <= t.at /\ t.at < tm.previous_created + Rotation
          /\ tm.previous_created + Rotation <= tm.current_created
    /\ t.secret # tm.current /\ t.secret # tm.previous => now - t.at > Rotation

TokenInv ==
    /\ TokenTypeOK
    /\ tm.rotated = tm.current_created /\ tm.previous # tm.current
    /\ \A t \in issued : Dated(t)

(***************************************************************************)
(* The attributes that _rotate_if_due leaves, in its three cases.          *)
(***************************************************************************)
LEMMA RotationCases ==
  ASSUME TokenTypeOK
  PROVE  /\ ~ Due => AfterRotation = tm /\ Draws = drawn
         /\ Due =>
              /\ AfterRotation.current = drawn + 1
              /\ AfterRotation.current_created = now /\ AfterRotation.rotated = now
              /\ AfterRotation \in [current : 1..Draws, previous : 1..Draws,
                     current_created : 0..now, previous_created : 0..now,
                     rotated : 0..now]
         /\ Due /\ ~ Missed =>
              /\ AfterRotation.previous = tm.current
              /\ AfterRotation.previous_created = tm.current_created
              /\ Draws = drawn + 1
         /\ Due /\ Missed =>
              /\ AfterRotation.previous = drawn + 2
              /\ AfterRotation.previous_created = now
              /\ Draws = drawn + 2
<1>1. now \in Nat /\ drawn \in Nat /\ now \in 0..now
  BY IntervalsAssumption DEF TokenTypeOK
<1>2. /\ tm.current \in 1..drawn /\ tm.current_created \in 0..now
  BY DEF TokenTypeOK
<1>3. CASE Due /\ Missed
  BY <1>1, <1>2, <1>3 DEF AfterRotation, Draws
<1>4. CASE Due /\ ~ Missed
  BY <1>1, <1>2, <1>4 DEF AfterRotation, Draws
<1>5. CASE ~ Due
  BY <1>5 DEF AfterRotation, Draws
<1> QED  BY <1>3, <1>4, <1>5

(***************************************************************************)
(* The first state.                                                        *)
(***************************************************************************)
LEMMA TokenInvInit == TokenInit => TokenInv
<1> SUFFICES ASSUME TokenInit PROVE TokenInv
  OBVIOUS
<1>1. now \in 0..MaxTime
  BY IntervalsAssumption DEF TokenInit
<1> QED  BY <1>1 DEF TokenInit, TokenInv, TokenTypeOK

(***************************************************************************)
(* A rotation dates the tokens issued so far: those of the secret that     *)
(* leaves were issued more than one rotation interval ago.                 *)
(***************************************************************************)
LEMMA RotationInv ==
  ASSUME TokenInv, tm' = AfterRotation, drawn' = Draws, now' = now, NEW t \in issued
  PROVE  Dated(t)'
<1>1. /\ now \in Nat /\ t.at \in 0..now /\ t.secret \in 1..drawn /\ drawn \in Nat
      /\ tm.current_created \in 0..now /\ tm.previous_created \in 0..now
      /\ tm.current \in 1..drawn /\ tm.previous \in 1..drawn
      /\ tm.rotated = tm.current_created /\ Rotation \in Nat \ {0}
  BY IntervalsAssumption DEF TokenInv, TokenTypeOK
<1>2. Dated(t)
  BY DEF TokenInv
<1>3. CASE ~ Due
  BY <1>2, <1>3, RotationCases DEF Dated, TokenInv
<1>4. CASE Due /\ ~ Missed
  <2>1. /\ tm'.current = drawn + 1 /\ tm'.current_created = now
        /\ tm'.previous = tm.current /\ tm'.previous_created = tm.current_created
    BY <1>4, RotationCases DEF TokenInv
  <2>2. now - tm.current_created >= Rotation
    BY <1>1, <1>4 DEF Due
  <2> QED  BY <1>1, <1>2, <2>1, <2>2 DEF Dated
<1>5. CASE Due /\ Missed
  <2>1. /\ tm'.current = drawn + 1 /\ tm'.current_created = now
        /\ tm'.previous = drawn + 2 /\ tm'.previous_created = now
    BY <1>5, RotationCases DEF TokenInv
  <2>2. now - tm.current_created >= 2 * Rotation
    BY <1>1, <1>5 DEF Missed
  <2> QED  BY <1>1, <1>2, <2>1, <2>2 DEF Dated
<1> QED  BY <1>3, <1>4, <1>5

(***************************************************************************)
(* The attributes after a rotation have their types, and a token issued    *)
(* now is dated.                                                           *)
(***************************************************************************)
LEMMA RotatedType ==
  ASSUME TokenInv, tm' = AfterRotation, drawn' = Draws, now' = now
  PROVE  /\ drawn' \in Nat /\ drawn <= drawn'
         /\ tm' \in [current : 1..drawn', previous : 1..drawn',
                     current_created : 0..now, previous_created : 0..now,
                     rotated : 0..now]
         /\ tm'.rotated = tm'.current_created /\ tm'.previous # tm'.current
         /\ now < tm'.current_created + Rotation
<1>1. /\ now \in Nat /\ drawn \in Nat /\ Rotation \in Nat \ {0}
      /\ tm \in [current : 1..drawn, previous : 1..drawn,
                 current_created : 0..now, previous_created : 0..now, rotated : 0..now]
      /\ tm.rotated = tm.current_created /\ tm.previous # tm.current
  BY IntervalsAssumption DEF TokenInv, TokenTypeOK
<1>2. CASE ~ Due
  BY <1>1, <1>2, RotationCases DEF TokenInv, Due
<1>3. CASE Due /\ ~ Missed
  BY <1>1, <1>3, RotationCases DEF TokenInv
<1>4. CASE Due /\ Missed
  BY <1>1, <1>4, RotationCases DEF TokenInv
<1> QED  BY <1>2, <1>3, <1>4

(***************************************************************************)
(* Every step keeps the invariant.                                         *)
(***************************************************************************)
LEMMA TokenInvStep == TokenInv /\ [TokenNext]_tokenVars => TokenInv'
<1> SUFFICES ASSUME TokenInv, [TokenNext]_tokenVars PROVE TokenInv'
  OBVIOUS
<1>1. CASE Issue
  <2>1. tm' = AfterRotation /\ drawn' = Draws /\ now' = now
    BY <1>1 DEF Issue
  <2>2. PICK new : /\ new = [secret |-> tm'.current, at |-> now]
                   /\ issued' = issued \cup {new}
    BY <1>1 DEF Issue
  <2>3. TokenTypeOK'
    <3>1. issued \subseteq [secret : 1..drawn', at : 0..now]
      BY <2>1, RotatedType DEF TokenInv, TokenTypeOK
    <3>2. new \in [secret : 1..drawn', at : 0..now]
      BY <2>1, <2>2, RotatedType, IntervalsAssumption DEF TokenInv, TokenTypeOK
    <3> QED  BY <2>1, <2>2, <3>1, <3>2, RotatedType DEF TokenInv, TokenTypeOK
  <2>4. Dated(new)'
    BY <2>1, <2>2, RotatedType, IntervalsAssumption DEF Dated, TokenInv, TokenTypeOK
  <2>5. \A t \in issued : Dated(t)'
    BY <2>1, RotationInv
  <2> QED  BY <2>1, <2>2, <2>3, <2>4, <2>5, RotatedType DEF TokenInv
<1>2. CASE Validate
  <2>1. tm' = AfterRotation /\ drawn' = Draws /\ now' = now /\ issued' = issued
    BY <1>2 DEF Validate
  <2>2. TokenTypeOK'
    <3>1. issued \subseteq [secret : 1..drawn', at : 0..now]
      BY <2>1, RotatedType DEF TokenInv, TokenTypeOK
    <3> QED  BY <2>1, <3>1, RotatedType DEF TokenInv, TokenTypeOK
  <2>3. \A t \in issued : Dated(t)'
    BY <2>1, RotationInv
  <2> QED  BY <2>1, <2>2, <2>3, RotatedType DEF TokenInv
<1>3. CASE Tick
  <2>1. TokenTypeOK'
    BY <1>3, IntervalsAssumption DEF Tick, TokenInv, TokenTypeOK
  <2>2. ASSUME NEW t \in issued PROVE Dated(t)'
    BY <1>3, IntervalsAssumption DEF Tick, TokenInv, TokenTypeOK, Dated
  <2> QED  BY <1>3, <2>1, <2>2 DEF Tick, TokenInv
<1>4. CASE UNCHANGED tokenVars
  BY <1>4 DEF tokenVars, TokenInv, TokenTypeOK, Dated
<1> QED  BY <1>1, <1>2, <1>3, <1>4 DEF TokenNext

(***************************************************************************)
(* The invariant holds in every reachable state.                           *)
(***************************************************************************)
THEOREM TokenInvariance == TokenSpec => []TokenInv
<1>1. TokenInit => TokenInv
  BY TokenInvInit
<1>2. TokenInv /\ [TokenNext]_tokenVars => TokenInv'
  BY TokenInvStep
<1> QED  BY <1>1, <1>2, PTL DEF TokenSpec

-----------------------------------------------------------------------------
(* The theorems about the tokens *)

\* The secrets differ, and each has made the tokens of one rotation interval
\* only: those of the previous secret in the interval that began when it was
\* drawn and was over when the current one was drawn, those of a secret that is
\* gone longer than an interval ago.
SecretsDated ==
    /\ tm.previous # tm.current
    /\ \A t \in issued : Dated(t)

(***************************************************************************)
(* Which tokens a secret has made, by _rotate_if_due(), however rarely     *)
(* issue() and validate() call it.                                         *)
(***************************************************************************)
THEOREM SecretsDatedCorrect == TokenSpec => []SecretsDated
<1>1. TokenInv => SecretsDated
  BY DEF TokenInv, SecretsDated
<1> QED  BY <1>1, TokenInvariance, PTL

(***************************************************************************)
(* What the three properties need of a state.                              *)
(***************************************************************************)
LEMMA TokenFacts ==
  ASSUME TokenInv, NEW t \in issued
  PROVE  /\ now \in Nat /\ t.at \in Nat /\ t.at <= now
         /\ tm.current_created \in Nat /\ tm.previous_created \in Nat
         /\ t.secret < drawn + 1 /\ drawn \in Nat /\ t.secret \in Nat
         /\ tm.rotated = tm.current_created
         /\ Rotation \in Nat \ {0} /\ Validity \in Nat /\ Validity <= 2 * Rotation
         /\ Dated(t)
BY IntervalsAssumption DEF TokenInv, TokenTypeOK

(***************************************************************************)
(* No token outlives DHT_TOKEN_VALIDITY.                                   *)
(***************************************************************************)
THEOREM TokenExpiresCorrect == TokenSpec => []TokenExpires
<1>1. ASSUME TokenInv, NEW t \in issued, Accepts(t.secret) PROVE now - t.at <= Validity
  <2>1. CASE ~ Due
    BY <1>1, <2>1, TokenFacts, RotationCases DEF TokenInv, Accepts, Dated
  <2>2. CASE Due /\ ~ Missed
    BY <1>1, <2>2, TokenFacts, RotationCases DEF TokenInv, Accepts, Dated
  <2>3. CASE Due /\ Missed
    BY <1>1, <2>3, TokenFacts, RotationCases DEF TokenInv, Accepts, Dated
  <2> QED  BY <2>1, <2>2, <2>3
<1>2. TokenInv => TokenExpires
  BY <1>1 DEF TokenExpires
<1> QED  BY <1>2, TokenInvariance, PTL

(***************************************************************************)
(* A token lives for DHT_TOKEN_VALIDITY less one rotation interval.        *)
(***************************************************************************)
THEOREM TokenLivesCorrect == TokenSpec => []TokenLives
<1>1. ASSUME TokenInv, NEW t \in issued, now - t.at <= Validity - Rotation
      PROVE  Accepts(t.secret)
  <2>1. t.secret = tm.current \/ t.secret = tm.previous
    BY <1>1, TokenFacts DEF Dated
  <2>2. CASE ~ Due
    BY <1>1, <2>1, <2>2, TokenFacts, RotationCases DEF TokenInv, Accepts, Dated
  <2>3. CASE Due
    <3>1. now - tm.current_created >= Rotation
      BY <1>1, <2>3, TokenFacts DEF Due
    <3>2. t.secret = tm.current
      BY <1>1, <2>1, <3>1, TokenFacts DEF Dated
    <3>3. ~ Missed
      BY <1>1, <3>2, TokenFacts DEF Dated, Missed
    <3> QED  BY <1>1, <2>3, <3>2, <3>3, TokenFacts, RotationCases
             DEF TokenInv, Accepts, Dated
  <2> QED  BY <2>2, <2>3
<1>2. TokenInv => TokenLives
  BY <1>1 DEF TokenLives
<1> QED  BY <1>2, TokenInvariance, PTL

(***************************************************************************)
(* No token survives two missed rotations.                                 *)
(***************************************************************************)
THEOREM NoneSurvivesMissedCorrect == TokenSpec => []NoneSurvivesMissed
<1>1. ASSUME TokenInv, Missed, NEW t \in issued PROVE ~ Accepts(t.secret)
  <2>1. Due
    BY <1>1, TokenFacts DEF Due, Missed
  <2> QED  BY <1>1, <2>1, TokenFacts, RotationCases DEF TokenInv, Accepts
<1>2. TokenInv => NoneSurvivesMissed
  BY <1>1 DEF NoneSurvivesMissed
<1> QED  BY <1>2, TokenInvariance, PTL
=============================================================================
