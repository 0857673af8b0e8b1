----------------------------- MODULE KrpcProofs -----------------------------
(***************************************************************************)
(* Proofs about Krpc, for every number of queries, slots, tokens and       *)
(* transaction IDs: the slots and the pending table match the queries that *)
(* are out, answers belong to the query that gets them, and the query      *)
(* layer implements Exchange.                                              *)
(***************************************************************************)
EXTENDS Krpc, FiniteSetTheorems, WellFoundedInduction, TLAPS

-----------------------------------------------------------------------------
(* The inductive invariant *)

Places == {"idle", "rate", "slot", "woken", "sent", "done"}
Outcomes == {"none", "answer", "error", "timeout", "closed", "cancelled"}
Futures == {"open", "answer", "error", "closed", "cancelled"}

\* No slot is lost or doubled, and who waits while one is free waits behind a
\* task that has been woken.
SlotsCounted ==
    /\ free + Cardinality(At("woken")) + Cardinality(At("sent")) = Slots
    /\ At("slot") # {} => free = 0 \/ At("woken") # {}

\* The pending table holds the queries that are out, each once.
Entries ==
    /\ \A t \in Tids : pending[t] # None => pc[pending[t]] = "sent"
    /\ \A q \in Queries : pc[q] = "sent" => \E t \in Tids : pending[t] = q
    /\ \A t, u \in Tids : pending[t] # None /\ pending[t] = pending[u] => t = u

\* Nobody can be answered under an ID that another query has now.
AskedPending == \A a \in asked : pending[a.tid] \in {None, a.query}

\* A datagram that has set the future passed the tests of the query, and an
\* honest sender answered that query.
RepliesBelong ==
    \A q \in Queries :
        /\ fut[q] \in {"answer", "error"} =>
              /\ reply[q].from = Endpoint[q]
              /\ Endpoint[q] \in Faulty \/ reply[q].re = q
        /\ fut[q] = "answer" => Expected[q] \in {NoId, reply[q].id}
        /\ fut[q] = "closed" => closing
        /\ outcome[q] = "answer" => fut[q] = "answer"
        /\ fut[q] # "open" => pc[q] \in {"sent", "done"}

IInv ==
    /\ TypeOK
    /\ SlotsCounted
    /\ Entries
    /\ AskedPending
    /\ RepliesBelong
    /\ VerifiedWereAsked

-----------------------------------------------------------------------------
(* Counting *)

Where(f, p) == {q \in Queries : f[q] = p}

(***************************************************************************)
(* The tasks at a place are finitely many.                                 *)
(***************************************************************************)
LEMMA WhereFinite ==
  ASSUME NEW f, NEW p
  PROVE  IsFiniteSet(Where(f, p)) /\ Cardinality(Where(f, p)) \in Nat
<1>1. Where(f, p) \subseteq Queries
  BY DEF Where
<1>2. IsFiniteSet(Where(f, p))
  BY <1>1, FS_Subset, QueryAssumption
<1> QED  BY <1>2, FS_CardinalityType

\* Nobody but one task enters or leaves a place.
OnlyMoves(f, g, q, p) == \A r \in Queries : r # q => (g[r] = p <=> f[r] = p)

(***************************************************************************)
(* One that moves to a place makes one more there.                         *)
(***************************************************************************)
LEMMA MovedIn ==
  ASSUME NEW f, NEW g, NEW q \in Queries, NEW p,
         OnlyMoves(f, g, q, p), f[q] # p, g[q] = p
  PROVE  Cardinality(Where(g, p)) = Cardinality(Where(f, p)) + 1
<1>1. IsFiniteSet(Where(f, p)) /\ q \notin Where(f, p)
  BY WhereFinite DEF Where
<1>2. Where(g, p) = Where(f, p) \cup {q}
  BY DEF Where, OnlyMoves
<1> QED  BY <1>1, <1>2, FS_AddElement

(***************************************************************************)
(* One that leaves a place makes one less there.                           *)
(***************************************************************************)
LEMMA MovedOut ==
  ASSUME NEW f, NEW g, NEW q \in Queries, NEW p,
         OnlyMoves(f, g, q, p), f[q] = p, g[q] # p
  PROVE  Cardinality(Where(g, p)) = Cardinality(Where(f, p)) - 1
<1>1. OnlyMoves(g, f, q, p)
  BY DEF OnlyMoves
<1>2. Cardinality(Where(f, p)) = Cardinality(Where(g, p)) + 1
  BY <1>1, MovedIn
<1>3. Cardinality(Where(g, p)) \in Nat
  BY WhereFinite
<1> QED  BY <1>2, <1>3

(***************************************************************************)
(* The count of a place that it neither leaves nor enters stays.           *)
(***************************************************************************)
LEMMA MovedElsewhere ==
  ASSUME NEW f, NEW g, NEW q \in Queries, NEW p,
         OnlyMoves(f, g, q, p), f[q] # p, g[q] # p
  PROVE  Cardinality(Where(g, p)) = Cardinality(Where(f, p))
<1>1. Where(g, p) = Where(f, p)
  BY DEF Where, OnlyMoves
<1> QED  BY <1>1

(***************************************************************************)
(* A place is empty when nobody is counted there, and only then.           *)
(***************************************************************************)
LEMMA SomebodyThere ==
  ASSUME NEW f, NEW p, NEW q \in Queries, f[q] = p
  PROVE  Cardinality(Where(f, p)) > 0
<1>1. q \in Where(f, p)
  BY DEF Where
<1>2. Cardinality(Where(f, p)) # 0
  BY <1>1, WhereFinite, FS_EmptySet
<1> QED  BY <1>2, WhereFinite

(***************************************************************************)
(* The tasks woken are those woken before and those woken now.             *)
(***************************************************************************)
LEMMA WokenToo ==
  ASSUME NEW f, NEW g, NEW W \in SUBSET Queries,
         \A r \in Queries : g[r] = IF r \in W THEN "woken" ELSE f[r],
         \A r \in W : f[r] = "slot"
  PROVE  /\ Cardinality(Where(g, "woken")) = Cardinality(Where(f, "woken")) + Cardinality(W)
         /\ Cardinality(Where(g, "sent")) = Cardinality(Where(f, "sent"))
<1>1. IsFiniteSet(W) /\ IsFiniteSet(Where(f, "woken"))
  BY WhereFinite, FS_Subset, QueryAssumption
<1>2. Where(f, "woken") \cap W = {}
  BY DEF Where
<1>3. Where(g, "woken") = Where(f, "woken") \cup W
  BY DEF Where
<1>4. Where(g, "sent") = Where(f, "sent")
  BY DEF Where
<1> DEFINE S == Where(f, "woken")
<1>5. /\ IsFiniteSet(S) /\ IsFiniteSet(W) /\ S \cap W = {}
      /\ Cardinality(S) \in Nat /\ Cardinality(W) \in Nat
  BY <1>1, <1>2, FS_CardinalityType
<1> HIDE DEF S
<1>6. Cardinality(S \cup W) = Cardinality(S) + Cardinality(W) - Cardinality(S \cap W)
  BY <1>5, FS_Union
<1>7. Cardinality(S \cap W) = 0
  BY <1>5, FS_EmptySet
<1>8. Cardinality(S \cup W) = Cardinality(S) + Cardinality(W)
  BY <1>5, <1>6, <1>7
<1> QED  BY <1>3, <1>4, <1>8 DEF S

-----------------------------------------------------------------------------
(* Moving and waking *)

(***************************************************************************)
(* q moves to another place and wakes W: where everybody is then, and how  *)
(* many are woken and out.                                                 *)
(***************************************************************************)
LEMMA Moved ==
  ASSUME TypeOK, NEW q \in Queries, pc[q] # "slot", NEW place \in Places,
         place # "woken", place # pc[q],
         NEW W \in SUBSET At("slot"), Move(q, place, W)
  PROVE  /\ pc' \in [Queries -> Places] /\ pc'[q] = place
         /\ \A p \in Queries \ {q} : pc'[p] = IF p \in W THEN "woken" ELSE pc[p]
         /\ \A p \in Queries \ {q} : pc'[p] = pc[p] \/ (pc[p] = "slot" /\ pc'[p] = "woken")
         /\ Cardinality(W) \in Nat
         /\ Cardinality(At("woken")') =
               Cardinality(At("woken")) - (IF pc[q] = "woken" THEN 1 ELSE 0) + Cardinality(W)
         /\ Cardinality(At("sent")') =
               Cardinality(At("sent")) - (IF pc[q] = "sent" THEN 1 ELSE 0)
                                       + (IF place = "sent" THEN 1 ELSE 0)
         /\ At("slot")' = IF place = "slot" THEN (At("slot") \ W) \cup {q} ELSE At("slot") \ W
<1> DEFINE g == [pc EXCEPT ![q] = place]
           h == pc'
<1>1. /\ pc \in [Queries -> Places] /\ W \subseteq Queries
      /\ \A w \in W : pc[w] = "slot" /\ w # q
  BY DEF TypeOK, Places, At
<1>2. /\ g[q] = place /\ g \in [Queries -> Places]
      /\ \A r \in Queries \ {q} : g[r] = pc[r]
  BY <1>1
<1>3. h = [p \in Queries |-> IF p = q THEN place ELSE IF p \in W THEN "woken" ELSE pc[p]]
  BY DEF Move
<1>4. \A r \in Queries : h[r] = IF r \in W THEN "woken" ELSE g[r]
  BY <1>1, <1>2, <1>3
<1>5. \A r \in W : g[r] = "slot"
  BY <1>1, <1>2
<1>6. h \in [Queries -> Places]
  BY <1>1, <1>3 DEF Places
<1> HIDE DEF g, h
<1>7. /\ Cardinality(Where(h, "woken")) = Cardinality(Where(g, "woken")) + Cardinality(W)
      /\ Cardinality(Where(h, "sent")) = Cardinality(Where(g, "sent"))
  BY <1>1, <1>4, <1>5, WokenToo
<1>8. \A p : OnlyMoves(pc, g, q, p)
  BY <1>2 DEF OnlyMoves
<1>9. \A f, p : Cardinality(Where(f, p)) \in Nat
  BY WhereFinite
<1>10. Cardinality(Where(g, "woken")) =
          Cardinality(Where(pc, "woken")) - (IF pc[q] = "woken" THEN 1 ELSE 0)
  <2>1. CASE pc[q] = "woken"
    <3>1. Cardinality(Where(g, "woken")) = Cardinality(Where(pc, "woken")) - 1
      BY <1>2, <1>8, <2>1, MovedOut
    <3> QED  BY <1>9, <2>1, <3>1
  <2>2. CASE pc[q] # "woken"
    <3>1. Cardinality(Where(g, "woken")) = Cardinality(Where(pc, "woken"))
      BY <1>2, <1>8, <2>2, MovedElsewhere
    <3> QED  BY <1>9, <2>2, <3>1
  <2> QED  BY <2>1, <2>2
<1>11. Cardinality(Where(g, "sent")) =
          Cardinality(Where(pc, "sent")) - (IF pc[q] = "sent" THEN 1 ELSE 0)
                                         + (IF place = "sent" THEN 1 ELSE 0)
  <2>1. CASE pc[q] = "sent"
    <3>1. Cardinality(Where(g, "sent")) = Cardinality(Where(pc, "sent")) - 1
      BY <1>2, <1>8, <2>1, MovedOut
    <3> QED  BY <1>9, <2>1, <3>1
  <2>2. CASE pc[q] # "sent" /\ place = "sent"
    <3>1. Cardinality(Where(g, "sent")) = Cardinality(Where(pc, "sent")) + 1
      BY <1>2, <1>8, <2>2, MovedIn
    <3> QED  BY <1>9, <2>2, <3>1
  <2>3. CASE pc[q] # "sent" /\ place # "sent"
    <3>1. Cardinality(Where(g, "sent")) = Cardinality(Where(pc, "sent"))
      BY <1>2, <1>8, <2>3, MovedElsewhere
    <3> QED  BY <1>9, <2>3, <3>1
  <2> QED  BY <2>1, <2>2, <2>3
<1>12. Cardinality(W) \in Nat
  BY <1>1, FS_Subset, FS_CardinalityType, QueryAssumption
<1>13. /\ Where(pc, "woken") = At("woken") /\ Where(pc, "sent") = At("sent")
       /\ Where(h, "woken") = At("woken")' /\ Where(h, "sent") = At("sent")'
  BY DEF Where, At, h
<1>14. At("slot")' = IF place = "slot" THEN (At("slot") \ W) \cup {q} ELSE At("slot") \ W
  BY <1>1, <1>3, <1>6 DEF At, h
<1>15. \A p \in Queries \ {q} : h[p] = IF p \in W THEN "woken" ELSE pc[p]
  BY <1>3
<1>16. \A p \in Queries \ {q} : h[p] = pc[p] \/ (pc[p] = "slot" /\ h[p] = "woken")
  BY <1>1, <1>15
<1>17. h[q] = place
  BY <1>3
<1> HIDE DEF Move
<1> QED  BY <1>6, <1>7, <1>10, <1>11, <1>12, <1>13, <1>14, <1>15, <1>16, <1>17 DEF h

(***************************************************************************)
(* Whom n calls of _wake_up_next() wake.                                   *)
(***************************************************************************)
LEMMA WakesWaiting ==
  ASSUME NEW n \in Nat, NEW W \in Wakes(n)
  PROVE  /\ W \in SUBSET At("slot")
         /\ Cardinality(W) \in Nat /\ Cardinality(W) <= n
         /\ Cardinality(W) < n => W = At("slot")
<1>1. /\ W \in SUBSET At("slot") /\ Cardinality(W) <= n
      /\ Cardinality(W) < n => W = At("slot")
  BY DEF Wakes
<1>2. W \subseteq Queries
  BY <1>1 DEF At
<1>3. Cardinality(W) \in Nat
  BY <1>2, FS_Subset, FS_CardinalityType, QueryAssumption
<1> QED  BY <1>1, <1>3

(***************************************************************************)
(* If somebody still waits, as many were woken as were called, and if any  *)
(* were called, somebody is woken.                                         *)
(***************************************************************************)
LEMMA SomebodyWoken ==
  ASSUME TypeOK, NEW n \in Nat, n > 0, NEW W \in Wakes(n), NEW q \in Queries,
         pc[q] # "slot", NEW place, Move(q, place, W), At("slot")' = At("slot") \ W,
         At("slot")' # {}
  PROVE  At("woken")' # {}
<1>1. W # At("slot")
  OBVIOUS
<1>2. Cardinality(W) = n
  BY <1>1, WakesWaiting
<1>3. W # {}
  BY <1>2, FS_EmptySet
<1>4. PICK w \in W : w \in Queries /\ pc[w] = "slot"
  BY <1>3, WakesWaiting DEF At
<1>5. pc'[w] = "woken"
  BY <1>4 DEF Move
<1> QED  BY <1>4, <1>5 DEF At

-----------------------------------------------------------------------------
(* Transaction IDs *)

(***************************************************************************)
(* Each query that is out has one ID: while a slot is left, an ID is left, *)
(* and _next_tid() finds one that is not in use.                           *)
(***************************************************************************)
LEMMA NextTidUnused ==
  ASSUME TypeOK, Entries, Cardinality(At("sent")) < Slots
  PROVE  NextTid \in Tids /\ pending[NextTid] = None
<1> DEFINE unused == {t \in Tids : pending[t] = None}
           used == {t \in Tids : pending[t] # None}
           steps(t) == (t - counter - 1) % TidSpace
<1>1. IsFiniteSet(Tids) /\ Cardinality(Tids) = TidSpace
  BY QueryAssumption, FS_Interval DEF Tids
<1>2. IsFiniteSet(used) /\ used \subseteq Tids
  BY <1>1, FS_Subset
<1>3. Cardinality(used) <= Cardinality(At("sent"))
  <2> DEFINE f == [t \in used |-> pending[t]]
  <2>1. f \in Injection(used, At("sent"))
    <3>1. \A t \in used : pending[t] \in At("sent")
      BY DEF TypeOK, Entries, At
    <3>2. f \in [used -> At("sent")]
      BY <3>1
    <3>3. \A t, u \in used : f[t] = f[u] => t = u
      BY DEF Entries
    <3> QED  BY <3>2, <3>3 DEF Injection, IsInjective
  <2>2. IsFiniteSet(At("sent"))
    BY WhereFinite DEF At, Where
  <2> QED  BY <1>2, <2>1, <2>2, FS_Injection, Zenon DEF ExistsInjection
<1>4. unused # {}
  <2>1. Cardinality(At("sent")) \in Nat /\ Cardinality(used) \in Nat
    BY <1>2, WhereFinite, FS_CardinalityType DEF At, Where
  <2>2. SUFFICES ASSUME unused = {} PROVE FALSE
    OBVIOUS
  <2>3. used = Tids
    BY <2>2
  <2>4. Cardinality(used) = TidSpace
    BY <1>1, <2>3
  <2> HIDE DEF used, unused
  <2> QED  BY <1>3, <2>1, <2>4, QueryAssumption
<1>5. \A t \in unused : steps(t) \in Nat
  BY QueryAssumption DEF Tids, TypeOK
<1>6. \E t \in unused : \A u \in unused : steps(t) <= steps(u)
  <2> DEFINE values == {steps(t) : t \in unused}
  <2>1. values \subseteq Nat /\ values # {}
    BY <1>4, <1>5
  <2> HIDE DEF values
  <2>2. PICK x \in values : \A y \in values : <<y, x>> \notin OpToRel(<, Nat)
    BY <2>1, WFMin, NatLessThanWellFounded, Zenon
  <2>3. \A y \in values : ~ (y < x)
    BY <2>1, <2>2, Zenon DEF OpToRel
  <2>4. \A y \in values : x <= y
    BY <2>1, <2>3
  <2> QED  BY <2>4 DEF values
<1>7. NextTid \in unused
  BY <1>6 DEF NextTid
<1> QED  BY <1>7

-----------------------------------------------------------------------------
(* What the two ways to move a query do *)

(***************************************************************************)
(* Transmit by a task that has a slot: one query more is out, under an ID  *)
(* of its own, and what was asked under that ID before is forgotten.       *)
(***************************************************************************)
LEMMA Transmitted ==
  ASSUME IInv, NEW q \in Queries, pc[q] \in {"rate", "woken"},
         Cardinality(At("sent")) < Slots, NEW W \in SUBSET At("slot"), Transmit(q, W)
  PROVE  /\ counter' \in Tids
         /\ pending' \in [Tids -> Queries \cup {None}]
         /\ asked' \subseteq [tid : Tids, query : Queries]
         /\ Entries' /\ AskedPending'
<1>1. NextTid \in Tids /\ pending[NextTid] = None
  BY NextTidUnused DEF IInv
<1> DEFINE n == NextTid
<1>2. /\ Move(q, "sent", W) /\ counter' = n
      /\ pending' = [pending EXCEPT ![n] = q]
      /\ asked' = {a \in asked : a.tid # n} \cup {[tid |-> n, query |-> q]}
  BY DEF Transmit
<1>3. n \in Tids /\ pending[n] = None
  BY <1>1
<1> HIDE DEF n
<1>4. /\ pc \in [Queries -> Places] /\ pending \in [Tids -> Queries \cup {None}]
      /\ asked \subseteq [tid : Tids, query : Queries]
  BY DEF IInv, TypeOK, Places
<1>5. \A t \in Tids : pending'[t] = IF t = n THEN q ELSE pending[t]
  BY <1>2, <1>3, <1>4
<1>6. /\ pc'[q] = "sent"
      /\ \A p \in Queries \ {q} : pc'[p] = "sent" <=> pc[p] = "sent"
  BY <1>2, <1>4 DEF Move, At
<1>7. \A t \in Tids : pending[t] # q
  BY QueryAssumption DEF IInv, Entries
<1>8. Entries'
  <2>1. \A t \in Tids : pending'[t] # None => pc'[pending'[t]] = "sent"
    <3> SUFFICES ASSUME NEW t \in Tids, pending'[t] # None
                 PROVE  pc'[pending'[t]] = "sent"
      OBVIOUS
    <3>1. CASE t = n
      BY <1>5, <1>6, <3>1
    <3>2. CASE t # n
      BY <1>4, <1>5, <1>6, <3>2 DEF IInv, Entries
    <3> QED  BY <3>1, <3>2
  <2>2. \A p \in Queries : pc'[p] = "sent" => \E t \in Tids : pending'[t] = p
    <3> SUFFICES ASSUME NEW p \in Queries, pc'[p] = "sent"
                 PROVE  \E t \in Tids : pending'[t] = p
      OBVIOUS
    <3>1. CASE p = q
      BY <1>3, <1>5, <3>1
    <3>2. CASE p # q
      <4>1. PICK t \in Tids : pending[t] = p
        BY <1>6, <3>2 DEF IInv, Entries
      <4> QED  BY <1>3, <1>5, <4>1, QueryAssumption
    <3> QED  BY <3>1, <3>2
  <2>3. \A t, u \in Tids : pending'[t] # None /\ pending'[t] = pending'[u] => t = u
    BY <1>5, <1>7 DEF IInv, Entries
  <2> QED  BY <2>1, <2>2, <2>3 DEF Entries
<1>9. AskedPending'
  <2> SUFFICES ASSUME NEW a \in asked' PROVE pending'[a.tid] \in {None, a.query}
    BY DEF AskedPending
  <2>1. CASE a = [tid |-> n, query |-> q]
    BY <1>3, <1>5, <2>1
  <2>2. CASE a \in asked /\ a.tid # n
    BY <1>4, <1>5, <2>2 DEF IInv, AskedPending
  <2> QED  BY <1>2, <2>1, <2>2
<1>10. asked' \subseteq [tid : Tids, query : Queries]
  BY <1>2, <1>3, <1>4
<1> QED  BY <1>2, <1>3, <1>4, <1>8, <1>9, <1>10

(***************************************************************************)
(* ReleaseAndReturn by a task that has a slot: it ends, and its slot is    *)
(* free or another's who has waited for it.                                *)
(***************************************************************************)
LEMMA Released ==
  ASSUME IInv, NEW q \in Queries, pc[q] \in {"sent", "woken"},
         NEW o \in Outcomes, NEW n \in 1..(free + 1), ReleaseAndReturn(q, o, n)
  PROVE  /\ pc' \in [Queries -> Places] /\ pc'[q] = "done"
         /\ \A p \in Queries \ {q} :
               pc'[p] = pc[p] \/ (pc[p] = "slot" /\ pc'[p] = "woken")
         /\ outcome' = [outcome EXCEPT ![q] = o]
         /\ free' \in 0..Slots
         /\ SlotsCounted'
<1>1. PICK W \in Wakes(n) : /\ Move(q, "done", W)
                            /\ free' = free + 1 - Cardinality(W)
                            /\ outcome' = [outcome EXCEPT ![q] = o]
  BY DEF ReleaseAndReturn
<1>2. /\ TypeOK /\ SlotsCounted /\ free \in Nat /\ n \in Nat /\ n > 0 /\ n <= free + 1
  BY QueryAssumption DEF IInv, TypeOK
<1>3. W \in SUBSET At("slot") /\ Cardinality(W) \in Nat /\ Cardinality(W) <= n
  BY <1>2, WakesWaiting
<1>4. /\ pc' \in [Queries -> Places] /\ pc'[q] = "done"
      /\ \A p \in Queries \ {q} :
            pc'[p] = pc[p] \/ (pc[p] = "slot" /\ pc'[p] = "woken")
      /\ Cardinality(At("woken")') =
            Cardinality(At("woken")) - (IF pc[q] = "woken" THEN 1 ELSE 0) + Cardinality(W)
      /\ Cardinality(At("sent")') =
            Cardinality(At("sent")) - (IF pc[q] = "sent" THEN 1 ELSE 0)
      /\ At("slot")' = At("slot") \ W
  <2> DEFINE place == "done"
  <2>1. place \in Places /\ place \notin {"woken", "sent", "slot"} /\ pc[q] # place /\ pc[q] # "slot"
    BY DEF Places
  <2>2. Move(q, place, W)
    BY <1>1
  <2>3. Cardinality(At("sent")) \in Nat
    BY WhereFinite DEF At, Where
  <2> HIDE DEF place
  <2>4. /\ pc' \in [Queries -> Places] /\ pc'[q] = place
        /\ \A p \in Queries \ {q} :
              pc'[p] = pc[p] \/ (pc[p] = "slot" /\ pc'[p] = "woken")
        /\ Cardinality(At("woken")') =
              Cardinality(At("woken")) - (IF pc[q] = "woken" THEN 1 ELSE 0) + Cardinality(W)
        /\ Cardinality(At("sent")') =
              Cardinality(At("sent")) - (IF pc[q] = "sent" THEN 1 ELSE 0)
                                      + (IF place = "sent" THEN 1 ELSE 0)
        /\ At("slot")' = IF place = "slot" THEN (At("slot") \ W) \cup {q} ELSE At("slot") \ W
    BY <1>2, <1>3, <2>1, <2>2, Moved
  <2> QED  BY <2>1, <2>3, <2>4 DEF place
<1>5. /\ Cardinality(At("woken")) \in Nat /\ Cardinality(At("sent")) \in Nat
      /\ Cardinality(At("woken")') \in Nat /\ Cardinality(At("sent")') \in Nat
  <2>1. \A f, p : Cardinality(Where(f, p)) \in Nat
    BY WhereFinite
  <2>2. /\ At("woken") = Where(pc, "woken") /\ At("woken")' = Where(pc', "woken")
        /\ At("sent") = Where(pc, "sent") /\ At("sent")' = Where(pc', "sent")
    BY DEF At, Where
  <2> QED  BY <2>1, <2>2
<1>6. Cardinality(At("woken")') + Cardinality(At("sent")') =
        Cardinality(At("woken")) + Cardinality(At("sent")) + Cardinality(W) - 1
  BY <1>3, <1>4, <1>5
<1>7. free' + Cardinality(At("woken")') + Cardinality(At("sent")') = Slots
  BY <1>1, <1>2, <1>3, <1>5, <1>6, QueryAssumption DEF SlotsCounted
<1>8. free' \in 0..Slots
  BY <1>1, <1>2, <1>3, <1>5, <1>7, QueryAssumption
<1>9. At("slot")' # {} => At("woken")' # {}
  BY <1>1, <1>2, <1>4, SomebodyWoken
<1> QED  BY <1>1, <1>4, <1>7, <1>8, <1>9 DEF SlotsCounted

-----------------------------------------------------------------------------
(***************************************************************************)
(* Where a task moves to another place than `woken' or `sent', the slots   *)
(* are what they were.                                                     *)
(***************************************************************************)
LEMMA Elsewhere ==
  ASSUME IInv, NEW q \in Queries, pc[q] \notin {"woken", "sent"}, NEW place \in Places,
         place \notin {"woken", "sent"}, pc' = [pc EXCEPT ![q] = place]
  PROVE  /\ At("woken")' = At("woken")
         /\ Cardinality(At("woken")') = Cardinality(At("woken"))
         /\ Cardinality(At("sent")') = Cardinality(At("sent"))
<1> DEFINE g == pc'
<1>1. g[q] = place /\ \A p : OnlyMoves(pc, g, q, p)
  BY DEF IInv, TypeOK, OnlyMoves
<1> HIDE DEF g
<1>2. Cardinality(Where(g, "woken")) = Cardinality(Where(pc, "woken"))
  <2>1. pc[q] # "woken" /\ g[q] # "woken"
    BY <1>1
  <2> QED  BY <1>1, <2>1, MovedElsewhere
<1>3. Cardinality(Where(g, "sent")) = Cardinality(Where(pc, "sent"))
  <2>1. pc[q] # "sent" /\ g[q] # "sent"
    BY <1>1
  <2> QED  BY <1>1, <2>1, MovedElsewhere
<1>4. At("woken")' = At("woken")
  BY <1>1 DEF g, At, OnlyMoves
<1> QED  BY <1>2, <1>3, <1>4 DEF g, At, Where

(***************************************************************************)
(* How many tasks are at a place is a number.                              *)
(***************************************************************************)
LEMMA Numbers ==
  /\ Cardinality(At("woken")) \in Nat /\ Cardinality(At("sent")) \in Nat
  /\ \A q \in Queries : \A p \in Places : pc[q] = p => Cardinality(At(p)) > 0
<1>1. \A p : Cardinality(At(p)) \in Nat
  BY WhereFinite DEF At, Where
<1>2. ASSUME NEW q \in Queries, NEW p \in Places, pc[q] = p
      PROVE  Cardinality(At(p)) > 0
  BY <1>2, SomebodyThere DEF At, Where
<1> QED  BY <1>1, <1>2

(***************************************************************************)
(* A task that has a slot goes out and wakes W: how many are woken and out *)
(* then.                                                                   *)
(***************************************************************************)
LEMMA GoneOut ==
  ASSUME IInv, NEW q \in Queries, pc[q] \in {"rate", "woken"},
         NEW W \in SUBSET At("slot"), Move(q, "sent", W)
  PROVE  /\ pc' \in [Queries -> Places] /\ pc'[q] = "sent"
         /\ \A p \in Queries \ {q} :
               pc'[p] = pc[p] \/ (pc[p] = "slot" /\ pc'[p] = "woken")
         /\ Cardinality(W) \in Nat
         /\ Cardinality(At("woken")') \in Nat /\ Cardinality(At("sent")') \in Nat
         /\ Cardinality(At("woken")') =
               Cardinality(At("woken")) - (IF pc[q] = "woken" THEN 1 ELSE 0) + Cardinality(W)
         /\ Cardinality(At("sent")') = Cardinality(At("sent")) + 1
         /\ At("slot")' = At("slot") \ W
<1> DEFINE place == "sent"
<1>1. TypeOK /\ place \in Places /\ place \notin {"woken", "slot", pc[q]} /\ pc[q] # "slot"
  BY DEF IInv, Places
<1>2. /\ Cardinality(At("woken")') \in Nat
      /\ Cardinality(At("sent")) \in Nat /\ Cardinality(At("sent")') \in Nat
  <2>1. \A f, p : Cardinality(Where(f, p)) \in Nat
    BY WhereFinite
  <2>2. /\ At("woken")' = Where(pc', "woken")
        /\ At("sent") = Where(pc, "sent") /\ At("sent")' = Where(pc', "sent")
    BY DEF At, Where
  <2> QED  BY <2>1, <2>2
<1>3. Move(q, place, W) /\ pc[q] # "sent" /\ place = "sent"
  OBVIOUS
<1> HIDE DEF place
<1>4. /\ pc' \in [Queries -> Places] /\ pc'[q] = place
      /\ \A p \in Queries \ {q} :
            pc'[p] = pc[p] \/ (pc[p] = "slot" /\ pc'[p] = "woken")
      /\ Cardinality(W) \in Nat
      /\ Cardinality(At("woken")') =
            Cardinality(At("woken")) - (IF pc[q] = "woken" THEN 1 ELSE 0) + Cardinality(W)
      /\ Cardinality(At("sent")') =
            Cardinality(At("sent")) - (IF pc[q] = "sent" THEN 1 ELSE 0)
                                    + (IF place = "sent" THEN 1 ELSE 0)
      /\ At("slot")' = IF place = "slot" THEN (At("slot") \ W) \cup {q} ELSE At("slot") \ W
  BY <1>1, <1>3, Moved
<1>5. Cardinality(At("sent")') = Cardinality(At("sent")) + 1
  BY <1>2, <1>3, <1>4
<1> QED  BY <1>1, <1>2, <1>3, <1>4, <1>5

-----------------------------------------------------------------------------
(***************************************************************************)
(* The invariant is inductive: one step per action.                        *)
(***************************************************************************)
LEMMA InvariantStep == IInv /\ [Next]_vars => IInv'
<1> SUFFICES ASSUME IInv, [Next]_vars PROVE IInv'
  OBVIOUS
<1> USE DEF IInv
<1>1. ASSUME NEW q \in Queries, Refuse(q) PROVE IInv'
  <2>1. /\ At("woken")' = At("woken")
        /\ Cardinality(At("woken")') = Cardinality(At("woken"))
        /\ Cardinality(At("sent")') = Cardinality(At("sent"))
    BY <1>1, Elsewhere DEF Places, Refuse, Return
  <2>2. At("slot")' \subseteq At("slot")
    BY <1>1 DEF TypeOK, At, Refuse, Return
  <2>3. TypeOK'
    BY <1>1, <2>1, <2>2, QueryAssumption DEF TypeOK, Places, Outcomes, Futures, Refuse, Return, sem, results
  <2>4. SlotsCounted'
    BY <1>1, <2>1, <2>2, QueryAssumption DEF TypeOK, SlotsCounted, Refuse, Return, sem, results
  <2>5. Entries'
    BY <1>1, <2>1, <2>2, QueryAssumption DEF TypeOK, Entries, Refuse, Return, sem, results
  <2>6. AskedPending'
    BY <1>1, <2>1, <2>2, QueryAssumption DEF TypeOK, AskedPending, Refuse, Return, sem, results
  <2>7. RepliesBelong'
    BY <1>1, <2>1, <2>2, QueryAssumption DEF TypeOK, RepliesBelong, Refuse, Return, sem, results
  <2>8. VerifiedWereAsked'
    BY <1>1, <2>1, <2>2, QueryAssumption DEF TypeOK, VerifiedWereAsked, Refuse, Return, sem, results
  <2> QED  BY <2>3, <2>4, <2>5, <2>6, <2>7, <2>8
<1>2. ASSUME NEW q \in Queries, Begin(q) PROVE IInv'
  <2>1. /\ At("woken")' = At("woken")
        /\ Cardinality(At("woken")') = Cardinality(At("woken"))
        /\ Cardinality(At("sent")') = Cardinality(At("sent"))
    BY <1>2, Elsewhere DEF Places, Begin
  <2>2. At("slot")' \subseteq At("slot")
    BY <1>2 DEF TypeOK, At, Begin
  <2>3. TypeOK'
    BY <1>2, <2>1, <2>2, QueryAssumption DEF TypeOK, Places, Outcomes, Futures, Begin, sem, results
  <2>4. SlotsCounted'
    BY <1>2, <2>1, <2>2, QueryAssumption DEF TypeOK, SlotsCounted, Begin, sem, results
  <2>5. Entries'
    BY <1>2, <2>1, <2>2, QueryAssumption DEF TypeOK, Entries, Begin, sem, results
  <2>6. AskedPending'
    BY <1>2, <2>1, <2>2, QueryAssumption DEF TypeOK, AskedPending, Begin, sem, results
  <2>7. RepliesBelong'
    BY <1>2, <2>1, <2>2, QueryAssumption DEF TypeOK, RepliesBelong, Begin, sem, results
  <2>8. VerifiedWereAsked'
    BY <1>2, <2>1, <2>2, QueryAssumption DEF TypeOK, VerifiedWereAsked, Begin, sem, results
  <2> QED  BY <2>3, <2>4, <2>5, <2>6, <2>7, <2>8
<1>3. ASSUME NEW q \in Queries, Grant(q) PROVE IInv'
  <2>1. /\ pc[q] = "rate" /\ free' = free - 1 /\ free # 0 /\ At("slot") = {}
        /\ Transmit(q, {}) /\ Move(q, "sent", {}) /\ {} \in SUBSET At("slot")
        /\ Cardinality(At("sent")) < Slots
    <3>1. free # 0 /\ At("slot") = {} /\ At("woken") = {}
      BY <1>3 DEF Grant, Locked
    <3>2. Cardinality(At("sent")) < Slots
      BY <3>1, Numbers, QueryAssumption DEF TypeOK, SlotsCounted
    <3> QED  BY <1>3, <3>1, <3>2 DEF Grant, Acquire, Transmit
  <2>2. /\ counter' \in Tids
        /\ pending' \in [Tids -> Queries \cup {None}]
        /\ asked' \subseteq [tid : Tids, query : Queries]
        /\ Entries' /\ AskedPending'
    BY <2>1, Transmitted
  <2>3. /\ pc' \in [Queries -> Places] /\ pc'[q] = "sent"
        /\ \A p \in Queries \ {q} :
              pc'[p] = pc[p] \/ (pc[p] = "slot" /\ pc'[p] = "woken")
        /\ Cardinality(At("woken")') \in Nat /\ Cardinality(At("sent")') \in Nat
        /\ Cardinality(At("woken")') = Cardinality(At("woken"))
        /\ Cardinality(At("sent")') = Cardinality(At("sent")) + 1
        /\ At("slot")' = {}
    <3> DEFINE none == {}
    <3>1. none \in SUBSET At("slot") /\ Move(q, "sent", none) /\ Cardinality(none) = 0
      BY <2>1, FS_EmptySet
    <3>2. pc[q] # "woken" /\ pc[q] \in {"rate", "woken"}
      BY <2>1
    <3>3. Cardinality(At("woken")) \in Nat
      BY Numbers
    <3> HIDE DEF none
    <3>4. /\ pc' \in [Queries -> Places] /\ pc'[q] = "sent"
          /\ \A p \in Queries \ {q} :
                pc'[p] = pc[p] \/ (pc[p] = "slot" /\ pc'[p] = "woken")
          /\ Cardinality(At("woken")') \in Nat /\ Cardinality(At("sent")') \in Nat
          /\ Cardinality(At("woken")') =
                Cardinality(At("woken")) - (IF pc[q] = "woken" THEN 1 ELSE 0) + Cardinality(none)
          /\ Cardinality(At("sent")') = Cardinality(At("sent")) + 1
          /\ At("slot")' = At("slot") \ none
      BY <3>1, <3>2, GoneOut
    <3> QED  BY <2>1, <3>1, <3>2, <3>3, <3>4
  <2>4. /\ free' + Cardinality(At("woken")') + Cardinality(At("sent")') = Slots
        /\ free' \in 0..Slots
        /\ At("slot")' = {}
    BY <2>1, <2>3, Numbers, QueryAssumption DEF TypeOK, SlotsCounted
  <2>5. TypeOK'
    BY <1>3, <2>2, <2>4, <2>3, QueryAssumption DEF TypeOK, Places, Futures, Outcomes, Grant, Acquire, Transmit, results
  <2>6. SlotsCounted'
    BY <2>4 DEF SlotsCounted
  <2>7. Entries'
    BY <2>2
  <2>8. AskedPending'
    BY <2>2
  <2>9. RepliesBelong'
    BY <1>3, <2>3 DEF TypeOK, RepliesBelong, Grant, Acquire, Transmit, results
  <2>10. VerifiedWereAsked'
    BY <1>3, <2>3 DEF VerifiedWereAsked, Grant, Acquire
  <2> QED  BY <2>5, <2>6, <2>7, <2>8, <2>9, <2>10
<1>4. ASSUME NEW q \in Queries, Queue(q) PROVE IInv'
  <2>1. /\ At("woken")' = At("woken")
        /\ Cardinality(At("woken")') = Cardinality(At("woken"))
        /\ Cardinality(At("sent")') = Cardinality(At("sent"))
    BY <1>4, Elsewhere DEF Places, Queue, Acquire
  <2>2. free = 0 \/ At("woken") # {}
    BY <1>4 DEF Queue, Locked, SlotsCounted
  <2>3. TypeOK'
    BY <1>4, <2>1, <2>2, QueryAssumption DEF TypeOK, Places, Outcomes, Futures, Queue, Acquire, sem, results
  <2>4. SlotsCounted'
    BY <1>4, <2>1, <2>2, QueryAssumption DEF TypeOK, SlotsCounted, Queue, Acquire, sem, results
  <2>5. Entries'
    BY <1>4, <2>1, <2>2, QueryAssumption DEF TypeOK, Entries, Queue, Acquire, sem, results
  <2>6. AskedPending'
    BY <1>4, <2>1, <2>2, QueryAssumption DEF TypeOK, AskedPending, Queue, Acquire, sem, results
  <2>7. RepliesBelong'
    BY <1>4, <2>1, <2>2, QueryAssumption DEF TypeOK, RepliesBelong, Queue, Acquire, sem, results
  <2>8. VerifiedWereAsked'
    BY <1>4, <2>1, <2>2, QueryAssumption DEF TypeOK, VerifiedWereAsked, Queue, Acquire, sem, results
  <2> QED  BY <2>3, <2>4, <2>5, <2>6, <2>7, <2>8
<1>5. ASSUME NEW q \in Queries, Resume(q) PROVE IInv'
  <2>1. PICK W \in Wakes(Left) : /\ Transmit(q, W)
                                 /\ free' = free - Cardinality(W)
    BY <1>5 DEF Resume
  <2> DEFINE n == Left
  <2>2. /\ n \in Nat /\ n <= free /\ free \in Nat /\ (n = 0 => free = 0)
        /\ W \in Wakes(n)
    BY <2>1, QueryAssumption DEF Left, TypeOK
  <2> HIDE DEF n
  <2>3. /\ pc[q] = "woken" /\ Move(q, "sent", W)
        /\ W \in SUBSET At("slot") /\ Cardinality(W) \in Nat /\ Cardinality(W) <= n
        /\ Cardinality(At("sent")) < Slots
    <3>1. Cardinality(At("woken")) > 0
      BY <1>5, Numbers DEF Resume, Places
    <3>2. Cardinality(At("sent")) < Slots
      BY <2>2, <3>1, Numbers, QueryAssumption DEF SlotsCounted
    <3>3. W \in SUBSET At("slot") /\ Cardinality(W) \in Nat /\ Cardinality(W) <= n
      BY <2>2, WakesWaiting
    <3> QED  BY <1>5, <2>1, <3>2, <3>3 DEF Resume, Transmit
  <2>4. /\ counter' \in Tids
        /\ pending' \in [Tids -> Queries \cup {None}]
        /\ asked' \subseteq [tid : Tids, query : Queries]
        /\ Entries' /\ AskedPending'
    BY <2>1, <2>3, Transmitted
  <2>5. /\ pc' \in [Queries -> Places] /\ pc'[q] = "sent"
        /\ \A p \in Queries \ {q} :
              pc'[p] = pc[p] \/ (pc[p] = "slot" /\ pc'[p] = "woken")
        /\ Cardinality(At("woken")') \in Nat /\ Cardinality(At("sent")') \in Nat
        /\ Cardinality(At("woken")') = Cardinality(At("woken")) - 1 + Cardinality(W)
        /\ Cardinality(At("sent")') = Cardinality(At("sent")) + 1
        /\ At("slot")' = At("slot") \ W
    <3>1. pc[q] \in {"rate", "woken"}
      BY <2>3
    <3> QED  BY <2>3, <3>1, GoneOut
  <2>6. /\ free' + Cardinality(At("woken")') + Cardinality(At("sent")') = Slots
        /\ free' \in 0..Slots
    <3>1. Cardinality(At("woken")) \in Nat /\ Cardinality(At("sent")) \in Nat
      BY Numbers
    <3>2. free' + Cardinality(At("woken")') + Cardinality(At("sent")') = Slots
      BY <2>1, <2>2, <2>3, <2>5, <3>1, QueryAssumption DEF SlotsCounted
    <3> QED  BY <2>1, <2>2, <2>3, <2>5, <3>2, QueryAssumption
  <2>7. At("slot")' # {} => free' = 0 \/ At("woken")' # {}
    <3>1. CASE n = 0
      BY <2>1, <2>2, <2>3, <3>1
    <3>2. CASE n > 0
      BY <2>2, <2>3, <2>5, <3>2, SomebodyWoken
    <3> QED  BY <2>2, <3>1, <3>2
  <2>8. TypeOK'
    BY <1>5, <2>1, <2>4, <2>5, <2>6, QueryAssumption DEF TypeOK, Places, Futures, Outcomes, Resume, Transmit, results
  <2>9. SlotsCounted'
    BY <2>6, <2>7 DEF SlotsCounted
  <2>10. RepliesBelong'
    BY <1>5, <2>1, <2>3, <2>5 DEF TypeOK, RepliesBelong, Resume, Transmit, results
  <2>11. VerifiedWereAsked'
    BY <1>5, <2>5 DEF VerifiedWereAsked, Resume
  <2> QED  BY <2>4, <2>8, <2>9, <2>10, <2>11
<1>6. ASSUME NEW q \in Queries, GrantClosed(q) PROVE IInv'
  <2>1. /\ At("woken")' = At("woken")
        /\ Cardinality(At("woken")') = Cardinality(At("woken"))
        /\ Cardinality(At("sent")') = Cardinality(At("sent"))
    BY <1>6, Elsewhere DEF Places, GrantClosed, Acquire, Return
  <2>2. At("slot")' \subseteq At("slot")
    BY <1>6 DEF TypeOK, At, GrantClosed, Acquire, Return
  <2>3. counter' \in Tids
    <3>1. Cardinality(At("sent")) < Slots
      BY <1>6, Numbers, QueryAssumption DEF TypeOK, SlotsCounted, GrantClosed, Locked
    <3> QED  BY <3>1, NextTidUnused, <1>6 DEF GrantClosed
  <2>4. TypeOK'
    BY <1>6, <2>1, <2>2, <2>3, QueryAssumption DEF TypeOK, Places, Outcomes, Futures, GrantClosed, Acquire, Return, sem, results
  <2>5. SlotsCounted'
    BY <1>6, <2>1, <2>2, <2>3, QueryAssumption DEF TypeOK, SlotsCounted, GrantClosed, Acquire, Return, sem, results
  <2>6. Entries'
    BY <1>6, <2>1, <2>2, <2>3, QueryAssumption DEF TypeOK, Entries, GrantClosed, Acquire, Return, sem, results
  <2>7. AskedPending'
    BY <1>6, <2>1, <2>2, <2>3, QueryAssumption DEF TypeOK, AskedPending, GrantClosed, Acquire, Return, sem, results
  <2>8. RepliesBelong'
    BY <1>6, <2>1, <2>2, <2>3, QueryAssumption DEF TypeOK, RepliesBelong, GrantClosed, Acquire, Return, sem, results
  <2>9. VerifiedWereAsked'
    BY <1>6, <2>1, <2>2, <2>3, QueryAssumption DEF TypeOK, VerifiedWereAsked, GrantClosed, Acquire, Return, sem, results
  <2> QED  BY <2>4, <2>5, <2>6, <2>7, <2>8, <2>9
<1>7. ASSUME NEW q \in Queries, ResumeClosed(q) PROVE IInv'
  <2>1. PICK o \in Outcomes, n \in 1..(free + 1) :
           ReleaseAndReturn(q, o, n) /\ (o = "answer" => fut[q] = "answer")
    BY <1>7, QueryAssumption DEF ResumeClosed, Outcomes, TypeOK, Left
  <2>2. pc[q] \in {"sent", "woken"}
    BY <1>7 DEF ResumeClosed
  <2>3. /\ pc' \in [Queries -> Places] /\ pc'[q] = "done"
        /\ \A p \in Queries \ {q} :
              pc'[p] = pc[p] \/ (pc[p] = "slot" /\ pc'[p] = "woken")
        /\ outcome' = [outcome EXCEPT ![q] = o]
        /\ free' \in 0..Slots
        /\ SlotsCounted'
    BY <2>1, <2>2, Released
  <2>4. counter' \in Tids
    <3>1. Cardinality(At("sent")) < Slots
      BY <1>7, Numbers DEF TypeOK, SlotsCounted, Places, ResumeClosed
    <3> QED  BY <3>1, NextTidUnused, <1>7 DEF ResumeClosed
  <2>5. TypeOK'
    BY <1>7, <2>1, <2>2, <2>3, <2>4, QueryAssumption DEF TypeOK, Places, Outcomes, Futures, ResumeClosed, sem, results
  <2>6. SlotsCounted'
    BY <1>7, <2>1, <2>2, <2>3, <2>4, QueryAssumption DEF TypeOK, SlotsCounted, ResumeClosed, sem, results
  <2>7. Entries'
    BY <1>7, <2>1, <2>2, <2>3, <2>4, QueryAssumption DEF TypeOK, Entries, ResumeClosed, sem, results
  <2>8. AskedPending'
    BY <1>7, <2>1, <2>2, <2>3, <2>4, QueryAssumption DEF TypeOK, AskedPending, ResumeClosed, sem, results
  <2>9. RepliesBelong'
    BY <1>7, <2>1, <2>2, <2>3, <2>4, QueryAssumption DEF TypeOK, RepliesBelong, ResumeClosed, sem, results
  <2>10. VerifiedWereAsked'
    BY <1>7, <2>1, <2>2, <2>3, <2>4, QueryAssumption DEF TypeOK, VerifiedWereAsked, ResumeClosed, sem, results
  <2> QED  BY <2>5, <2>6, <2>7, <2>8, <2>9, <2>10
<1>8. ASSUME NEW q \in Queries, Expire(q) PROVE IInv'
  <2>1. TypeOK'
    BY <1>8, QueryAssumption DEF TypeOK, Places, Outcomes, Futures, Expire, Settle, At, sem, results
  <2>2. SlotsCounted'
    BY <1>8, QueryAssumption DEF TypeOK, SlotsCounted, Expire, Settle, At, sem, results
  <2>3. Entries'
    BY <1>8, QueryAssumption DEF TypeOK, Entries, Expire, Settle, At, sem, results
  <2>4. AskedPending'
    BY <1>8, QueryAssumption DEF TypeOK, AskedPending, Expire, Settle, At, sem, results
  <2>5. RepliesBelong'
    BY <1>8, QueryAssumption DEF TypeOK, RepliesBelong, Expire, Settle, At, sem, results
  <2>6. VerifiedWereAsked'
    BY <1>8, QueryAssumption DEF TypeOK, VerifiedWereAsked, Expire, Settle, At, sem, results
  <2> QED  BY <2>1, <2>2, <2>3, <2>4, <2>5, <2>6
<1>9. ASSUME NEW q \in Queries, CancelWaiting(q) PROVE IInv'
  <2>1. /\ At("woken")' = At("woken")
        /\ Cardinality(At("woken")') = Cardinality(At("woken"))
        /\ Cardinality(At("sent")') = Cardinality(At("sent"))
    BY <1>9, Elsewhere DEF Places, CancelWaiting, Return
  <2>2. At("slot")' \subseteq At("slot")
    BY <1>9 DEF TypeOK, At, CancelWaiting, Return
  <2>3. TypeOK'
    BY <1>9, <2>1, <2>2, QueryAssumption DEF TypeOK, Places, Outcomes, Futures, CancelWaiting, Return, sem, results
  <2>4. SlotsCounted'
    BY <1>9, <2>1, <2>2, QueryAssumption DEF TypeOK, SlotsCounted, CancelWaiting, Return, sem, results
  <2>5. Entries'
    BY <1>9, <2>1, <2>2, QueryAssumption DEF TypeOK, Entries, CancelWaiting, Return, sem, results
  <2>6. AskedPending'
    BY <1>9, <2>1, <2>2, QueryAssumption DEF TypeOK, AskedPending, CancelWaiting, Return, sem, results
  <2>7. RepliesBelong'
    BY <1>9, <2>1, <2>2, QueryAssumption DEF TypeOK, RepliesBelong, CancelWaiting, Return, sem, results
  <2>8. VerifiedWereAsked'
    BY <1>9, <2>1, <2>2, QueryAssumption DEF TypeOK, VerifiedWereAsked, CancelWaiting, Return, sem, results
  <2> QED  BY <2>3, <2>4, <2>5, <2>6, <2>7, <2>8
<1>10. ASSUME NEW q \in Queries, CancelWoken(q) PROVE IInv'
  <2>1. PICK o \in Outcomes, n \in 1..(free + 1) :
           ReleaseAndReturn(q, o, n) /\ (o = "answer" => fut[q] = "answer")
    BY <1>10, QueryAssumption DEF CancelWoken, Outcomes, TypeOK
  <2>2. pc[q] \in {"sent", "woken"}
    BY <1>10 DEF CancelWoken
  <2>3. /\ pc' \in [Queries -> Places] /\ pc'[q] = "done"
        /\ \A p \in Queries \ {q} :
              pc'[p] = pc[p] \/ (pc[p] = "slot" /\ pc'[p] = "woken")
        /\ outcome' = [outcome EXCEPT ![q] = o]
        /\ free' \in 0..Slots
        /\ SlotsCounted'
    BY <2>1, <2>2, Released
  <2>4. TypeOK'
    BY <1>10, <2>1, <2>2, <2>3, QueryAssumption DEF TypeOK, Places, Outcomes, Futures, CancelWoken, sem, results
  <2>5. SlotsCounted'
    BY <1>10, <2>1, <2>2, <2>3, QueryAssumption DEF TypeOK, SlotsCounted, CancelWoken, sem, results
  <2>6. Entries'
    BY <1>10, <2>1, <2>2, <2>3, QueryAssumption DEF TypeOK, Entries, CancelWoken, sem, results
  <2>7. AskedPending'
    BY <1>10, <2>1, <2>2, <2>3, QueryAssumption DEF TypeOK, AskedPending, CancelWoken, sem, results
  <2>8. RepliesBelong'
    BY <1>10, <2>1, <2>2, <2>3, QueryAssumption DEF TypeOK, RepliesBelong, CancelWoken, sem, results
  <2>9. VerifiedWereAsked'
    BY <1>10, <2>1, <2>2, <2>3, QueryAssumption DEF TypeOK, VerifiedWereAsked, CancelWoken, sem, results
  <2> QED  BY <2>4, <2>5, <2>6, <2>7, <2>8, <2>9
<1>11. ASSUME NEW q \in Queries, CancelSent(q) PROVE IInv'
  <2>1. TypeOK'
    BY <1>11, QueryAssumption DEF TypeOK, Places, Outcomes, Futures, CancelSent, Settle, At, sem, results
  <2>2. SlotsCounted'
    BY <1>11, QueryAssumption DEF TypeOK, SlotsCounted, CancelSent, Settle, At, sem, results
  <2>3. Entries'
    BY <1>11, QueryAssumption DEF TypeOK, Entries, CancelSent, Settle, At, sem, results
  <2>4. AskedPending'
    BY <1>11, QueryAssumption DEF TypeOK, AskedPending, CancelSent, Settle, At, sem, results
  <2>5. RepliesBelong'
    BY <1>11, QueryAssumption DEF TypeOK, RepliesBelong, CancelSent, Settle, At, sem, results
  <2>6. VerifiedWereAsked'
    BY <1>11, QueryAssumption DEF TypeOK, VerifiedWereAsked, CancelSent, Settle, At, sem, results
  <2> QED  BY <2>1, <2>2, <2>3, <2>4, <2>5, <2>6
<1>12. ASSUME NEW q \in Queries, Finish(q) PROVE IInv'
  <2>1. PICK o \in Outcomes, n \in 1..(free + 1) :
           ReleaseAndReturn(q, o, n) /\ (o = "answer" => fut[q] = "answer")
    BY <1>12, QueryAssumption DEF Finish, Outcomes, Outcome, TypeOK
  <2>2. pc[q] \in {"sent", "woken"}
    BY <1>12 DEF Finish
  <2>3. /\ pc' \in [Queries -> Places] /\ pc'[q] = "done"
        /\ \A p \in Queries \ {q} :
              pc'[p] = pc[p] \/ (pc[p] = "slot" /\ pc'[p] = "woken")
        /\ outcome' = [outcome EXCEPT ![q] = o]
        /\ free' \in 0..Slots
        /\ SlotsCounted'
    BY <2>1, <2>2, Released
  <2>4. TypeOK'
    BY <1>12, <2>1, <2>2, <2>3, QueryAssumption DEF TypeOK, Places, Outcomes, Futures, Finish, sem, results
  <2>5. SlotsCounted'
    BY <1>12, <2>1, <2>2, <2>3, QueryAssumption DEF TypeOK, SlotsCounted, Finish, sem, results
  <2>6. Entries'
    BY <1>12, <2>1, <2>2, <2>3, QueryAssumption DEF TypeOK, Entries, Finish, sem, results
  <2>7. AskedPending'
    BY <1>12, <2>1, <2>2, <2>3, QueryAssumption DEF TypeOK, AskedPending, Finish, sem, results
  <2>8. RepliesBelong'
    BY <1>12, <2>1, <2>2, <2>3, QueryAssumption DEF TypeOK, RepliesBelong, Finish, sem, results
  <2>9. VerifiedWereAsked'
    BY <1>12, <2>1, <2>2, <2>3, QueryAssumption DEF TypeOK, VerifiedWereAsked, Finish, sem, results
  <2> QED  BY <2>4, <2>5, <2>6, <2>7, <2>8, <2>9
<1>13. ASSUME NEW d \in Arriving, Receive(d) PROVE IInv'
  <2>1. /\ d \in Datagrams
        /\ d.from \in Faulty \/ \E a \in asked : /\ d.tid = a.tid /\ d.re = a.query
                                                 /\ d.from = Endpoint[a.query]
    BY QueryAssumption DEF Arriving, Datagrams, TypeOK, Endpoints, Ids
  <2>2. PICK q \in Queries : q = pending[d.tid] /\ pc[q] = "sent"
    BY <1>13, <2>1 DEF Receive, TypeOK, Entries, Datagrams
  <2>3. /\ d.from = Endpoint[q] /\ d.from \in Endpoints /\ d.id \in Ids
        /\ d.kind = "r" => Expected[q] \in {NoId, d.id}
    BY <1>13, <2>1, <2>2 DEF Receive, Matches, Datagrams
  <2>4. Endpoint[q] \in Faulty \/ d.re = q
    BY <2>1, <2>2, <2>3, QueryAssumption DEF AskedPending
  <2>5. /\ fut' = IF fut[q] = "open"
                  THEN [fut EXCEPT ![q] = IF d.kind = "r" THEN "answer" ELSE "error"]
                  ELSE fut
        /\ reply' = IF fut[q] = "open" THEN [reply EXCEPT ![q] = d] ELSE reply
        /\ verified' = IF d.kind = "r" THEN verified \cup {[id |-> d.id, at |-> d.from]}
                                       ELSE verified
    BY <1>13, <2>2 DEF Receive, Settle
  <2>6. TypeOK'
    <3>1. fut' \in [Queries -> Futures]
      BY <2>5 DEF TypeOK, Futures
    <3>2. reply' \in [Queries -> Datagrams \cup {None}]
      BY <2>1, <2>5 DEF TypeOK
    <3>3. verified' \subseteq [id : Ids, at : Endpoints]
      BY <2>3, <2>5 DEF TypeOK
    <3> QED  BY <1>13, <3>1, <3>2, <3>3 DEF TypeOK, Futures, Receive, sem
  <2>7. SlotsCounted'
    BY <1>13, <2>1, <2>2, <2>3, <2>4, <2>5, QueryAssumption DEF TypeOK, SlotsCounted, Receive, At, sem, results
  <2>8. Entries'
    BY <1>13, <2>1, <2>2, <2>3, <2>4, <2>5, QueryAssumption DEF TypeOK, Entries, Receive, At, sem, results
  <2>9. AskedPending'
    BY <1>13, <2>1, <2>2, <2>3, <2>4, <2>5, QueryAssumption DEF TypeOK, AskedPending, Receive, At, sem, results
  <2>10. RepliesBelong'
    <3>1. fut[q] \in {"answer", "error"} => fut' = fut /\ reply' = reply
      BY <2>5
    <3>2. \A p \in Queries : p # q => fut'[p] = fut[p] /\ reply'[p] = reply[p]
      BY <2>5 DEF TypeOK
    <3>3. CASE fut[q] = "open"
      <4>1. reply'[q] = d /\ fut'[q] = IF d.kind = "r" THEN "answer" ELSE "error"
        BY <2>5, <3>3 DEF TypeOK
      <4> QED
        BY <1>13, <2>2, <2>3, <2>4, <3>2, <3>3, <4>1 DEF RepliesBelong, Receive
    <3>4. CASE fut[q] # "open"
      BY <1>13, <2>5, <3>4 DEF RepliesBelong, Receive
    <3> QED  BY <3>3, <3>4
  <2>11. VerifiedWereAsked'
    <3> SUFFICES ASSUME NEW v \in verified'
                 PROVE  \E p \in Queries : /\ pc[p] \in {"sent", "done"}
                                           /\ Endpoint[p] = v.at
                                           /\ Expected[p] \in {NoId, v.id}
      BY <1>13 DEF Receive, VerifiedWereAsked
    <3>1. CASE v \in verified
      BY <3>1 DEF VerifiedWereAsked
    <3>2. CASE d.kind = "r" /\ v = [id |-> d.id, at |-> d.from]
      BY <2>2, <2>3, <3>2
    <3> QED  BY <2>5, <3>1, <3>2
  <2> QED  BY <2>6, <2>7, <2>8, <2>9, <2>10, <2>11
<1>14. ASSUME CloseIngress PROVE IInv'
  <2>1. TypeOK'
    BY <1>14, QueryAssumption DEF TypeOK, Places, Outcomes, Futures, CloseIngress, At, sem, results
  <2>2. SlotsCounted'
    BY <1>14, QueryAssumption DEF TypeOK, SlotsCounted, CloseIngress, At, sem, results
  <2>3. Entries'
    BY <1>14, QueryAssumption DEF TypeOK, Entries, CloseIngress, At, sem, results
  <2>4. AskedPending'
    BY <1>14, QueryAssumption DEF TypeOK, AskedPending, CloseIngress, At, sem, results
  <2>5. RepliesBelong'
    BY <1>14, QueryAssumption DEF TypeOK, RepliesBelong, CloseIngress, At, sem, results
  <2>6. VerifiedWereAsked'
    BY <1>14, QueryAssumption DEF TypeOK, VerifiedWereAsked, CloseIngress, At, sem, results
  <2> QED  BY <2>1, <2>2, <2>3, <2>4, <2>5, <2>6
<1>15. ASSUME Refill PROVE IInv'
  <2>1. TypeOK'
    BY <1>15, QueryAssumption DEF TypeOK, Places, Outcomes, Futures, Refill, At, sem, results
  <2>2. SlotsCounted'
    BY <1>15, QueryAssumption DEF TypeOK, SlotsCounted, Refill, At, sem, results
  <2>3. Entries'
    BY <1>15, QueryAssumption DEF TypeOK, Entries, Refill, At, sem, results
  <2>4. AskedPending'
    BY <1>15, QueryAssumption DEF TypeOK, AskedPending, Refill, At, sem, results
  <2>5. RepliesBelong'
    BY <1>15, QueryAssumption DEF TypeOK, RepliesBelong, Refill, At, sem, results
  <2>6. VerifiedWereAsked'
    BY <1>15, QueryAssumption DEF TypeOK, VerifiedWereAsked, Refill, At, sem, results
  <2> QED  BY <2>1, <2>2, <2>3, <2>4, <2>5, <2>6
<1>16. ASSUME UNCHANGED vars PROVE IInv'
  <2>1. TypeOK'
    BY <1>16, QueryAssumption DEF TypeOK, Places, Outcomes, Futures, vars, At, sem, results
  <2>2. SlotsCounted'
    BY <1>16, QueryAssumption DEF TypeOK, SlotsCounted, vars, At, sem, results
  <2>3. Entries'
    BY <1>16, QueryAssumption DEF TypeOK, Entries, vars, At, sem, results
  <2>4. AskedPending'
    BY <1>16, QueryAssumption DEF TypeOK, AskedPending, vars, At, sem, results
  <2>5. RepliesBelong'
    BY <1>16, QueryAssumption DEF TypeOK, RepliesBelong, vars, At, sem, results
  <2>6. VerifiedWereAsked'
    BY <1>16, QueryAssumption DEF TypeOK, VerifiedWereAsked, vars, At, sem, results
  <2> QED  BY <2>1, <2>2, <2>3, <2>4, <2>5, <2>6
<1> QED
  BY <1>1, <1>2, <1>3, <1>4, <1>5, <1>6, <1>7, <1>8, <1>9, <1>10, <1>11, <1>12, <1>13, <1>14, <1>15, <1>16 DEF Next, Step

(***************************************************************************)
(* The initial states satisfy the invariant.                               *)
(***************************************************************************)
LEMMA InvariantInit == Init => IInv
<1> SUFFICES ASSUME Init PROVE IInv
  OBVIOUS
<1>1. TypeOK
  <2>1. closing \in BOOLEAN
    BY DEF Init
  <2> QED  BY <2>1, QueryAssumption DEF Init, TypeOK
<1>2. SlotsCounted
  <2>1. At("woken") = {} /\ At("sent") = {} /\ At("slot") = {}
    BY DEF Init, At
  <2> QED  BY <2>1, FS_EmptySet, QueryAssumption DEF Init, SlotsCounted
<1>3. Entries
  BY DEF Init, Entries
<1>4. AskedPending /\ RepliesBelong /\ VerifiedWereAsked
  BY DEF Init, AskedPending, RepliesBelong, VerifiedWereAsked
<1> QED  BY <1>1, <1>2, <1>3, <1>4 DEF IInv

(***************************************************************************)
(* The invariant holds.                                                    *)
(***************************************************************************)
LEMMA Invariance == Spec => []IInv
  BY InvariantInit, InvariantStep, PTL DEF Spec

-----------------------------------------------------------------------------
(***************************************************************************)
(* No exit of query() loses or doubles a slot or an entry of the pending   *)
(* table, for any number of queries, slots and transaction IDs.            *)
(***************************************************************************)
THEOREM SlotsMatchCorrect == Spec => []SlotsMatch
<1>1. IInv => SlotsMatch
  <2> SUFFICES ASSUME IInv PROVE SlotsMatch
    OBVIOUS
  <2>1. \A q \in At("sent") : \E t \in Tids : \A u \in Tids : pending[u] = q <=> u = t
    <3> SUFFICES ASSUME NEW q \in At("sent")
                 PROVE  \E t \in Tids : \A u \in Tids : pending[u] = q <=> u = t
      OBVIOUS
    <3>1. PICK t \in Tids : pending[t] = q
      BY DEF IInv, Entries, At
    <3>2. q # None
      BY QueryAssumption DEF At
    <3> QED  BY <3>1, <3>2 DEF IInv, Entries
  <2> QED  BY <2>1 DEF IInv, SlotsCounted, Entries, SlotsMatch
<1> QED  BY <1>1, Invariance, PTL

(***************************************************************************)
(* Only what was asked for counts, however datagrams are lost, delayed,    *)
(* repeated and forged, and however IDs are used again.                    *)
(***************************************************************************)
THEOREM OnlyTheAskedCorrect == Spec => []OnlyTheAsked
<1>1. IInv => OnlyTheAsked
  BY DEF IInv, RepliesBelong, OnlyTheAsked, AnswerBelongs
<1> QED  BY <1>1, Invariance, PTL

-----------------------------------------------------------------------------
(* Krpc implements Exchange *)

phase == [q \in Queries |->
            CASE pc[q] = "idle" -> "idle"
              [] pc[q] \in {"rate", "slot", "woken"} -> "waiting"
              [] pc[q] = "sent" -> "out"
              [] OTHER -> "ended"]
heard == {q \in Queries : fut[q] \in {"answer", "error"}}

(***************************************************************************)
(* What the phases are.                                                    *)
(***************************************************************************)
LEMMA Phases ==
  ASSUME IInv, NEW q \in Queries
  PROVE  /\ phase[q] = "idle" <=> pc[q] = "idle"
         /\ phase[q] = "waiting" <=> pc[q] \in {"rate", "slot", "woken"}
         /\ phase[q] = "out" <=> pc[q] = "sent"
         /\ phase[q] = "ended" <=> pc[q] = "done"
<1>1. pc[q] \in Places
  BY DEF IInv, TypeOK, Places
<1>2. phase[q] = CASE pc[q] = "idle" -> "idle"
                   [] pc[q] \in {"rate", "slot", "woken"} -> "waiting"
                   [] pc[q] = "sent" -> "out"
                   [] OTHER -> "ended"
  BY DEF phase
<1>3. CASE pc[q] = "idle"
  BY <1>2, <1>3
<1>4. CASE pc[q] \in {"rate", "slot", "woken"}
  BY <1>2, <1>4
<1>5. CASE pc[q] = "sent"
  BY <1>2, <1>5
<1>6. CASE pc[q] = "done"
  BY <1>2, <1>6
<1> QED  BY <1>1, <1>3, <1>4, <1>5, <1>6 DEF Places

(***************************************************************************)
(* As many queries are out in Exchange as hold a slot they have used here. *)
(***************************************************************************)
LEMMA OutIsSent == IInv => Contract!Out = At("sent")
<1> SUFFICES ASSUME IInv PROVE Contract!Out = At("sent")
  OBVIOUS
<1>1. \A q \in Queries : phase[q] = "out" <=> pc[q] = "sent"
  BY Phases
<1>2. Contract!Out = {q \in Queries : phase[q] = "out"}
  BY DEF Contract!Out, phase
<1> QED  BY <1>1, <1>2 DEF At

(***************************************************************************)
(* The actions of Exchange, in these terms.                                *)
(***************************************************************************)
LEMMA InPhases ==
  ASSUME NEW q \in Queries
  PROVE  /\ /\ phase[q] = "idle"
            /\ phase' = [phase EXCEPT ![q] = "waiting"]
            /\ UNCHANGED <<outcome, heard, closing>>
            => Contract!Ask(q)
         /\ /\ ~ closing
            /\ phase[q] = "waiting"
            /\ Cardinality(Contract!Out) < Slots
            /\ phase' = [phase EXCEPT ![q] = "out"]
            /\ UNCHANGED <<outcome, heard, closing>>
            => Contract!Send(q)
         /\ /\ ~ closing
            /\ phase[q] = "out"
            /\ heard' = heard \cup {q}
            /\ UNCHANGED <<phase, outcome, closing>>
            => Contract!Hear(q)
         /\ /\ \E o \in Contract!Ends(q) : outcome' = [outcome EXCEPT ![q] = o]
            /\ phase' = [phase EXCEPT ![q] = "ended"]
            /\ UNCHANGED <<heard, closing>>
            => Contract!End(q)
         /\ UNCHANGED <<phase, outcome, heard, closing>> => UNCHANGED Contract!vars
<1>1. ASSUME phase[q] = "idle", phase' = [phase EXCEPT ![q] = "waiting"],
             UNCHANGED <<outcome, heard, closing>>
      PROVE  Contract!Ask(q)
  BY <1>1 DEF Contract!Ask, phase, heard
<1>2. ASSUME ~ closing, phase[q] = "waiting", Cardinality(Contract!Out) < Slots,
             phase' = [phase EXCEPT ![q] = "out"], UNCHANGED <<outcome, heard, closing>>
      PROVE  Contract!Send(q)
  BY <1>2 DEF Contract!Send, Contract!Cardinality, Cardinality, phase, heard
<1>3. ASSUME ~ closing, phase[q] = "out", heard' = heard \cup {q},
             UNCHANGED <<phase, outcome, closing>>
      PROVE  Contract!Hear(q)
  BY <1>3 DEF Contract!Hear, phase, heard
<1>4. ASSUME \E o \in Contract!Ends(q) : outcome' = [outcome EXCEPT ![q] = o],
             phase' = [phase EXCEPT ![q] = "ended"], UNCHANGED <<heard, closing>>
      PROVE  Contract!End(q)
  BY <1>4 DEF Contract!End, phase, heard
<1>5. ASSUME UNCHANGED <<phase, outcome, heard, closing>>
      PROVE  UNCHANGED Contract!vars
  BY <1>5 DEF Contract!vars, phase, heard
<1> QED  BY <1>1, <1>2, <1>3, <1>4, <1>5

(***************************************************************************)
(* How a query may end, in these terms.                                    *)
(***************************************************************************)
LEMMA EndsInPhases ==
  ASSUME NEW q \in Queries
  PROVE  /\ phase[q] = "idle" /\ closing => "closed" \in Contract!Ends(q)
         /\ phase[q] = "waiting" => "cancelled" \in Contract!Ends(q)
         /\ phase[q] = "waiting" /\ closing => "closed" \in Contract!Ends(q)
         /\ phase[q] = "out" => "cancelled" \in Contract!Ends(q) /\ "timeout" \in Contract!Ends(q)
         /\ phase[q] = "out" /\ q \in heard
               => "answer" \in Contract!Ends(q) /\ "error" \in Contract!Ends(q)
         /\ phase[q] = "out" /\ closing => "closed" \in Contract!Ends(q)
<1> DEFINE E == Contract!Ends(q)
<1>1. E = CASE phase[q] = "idle"    -> IF closing THEN {"closed"} ELSE {}
            [] phase[q] = "waiting" -> {"cancelled"} \cup IF closing THEN {"closed"} ELSE {}
            [] phase[q] = "out"     -> {"cancelled", "timeout"}
                                          \cup (IF q \in heard THEN {"answer", "error"} ELSE {})
                                          \cup (IF closing THEN {"closed"} ELSE {})
            [] OTHER                -> {}
  BY DEF Contract!Ends, phase, heard
<1> HIDE DEF E
<1>2. CASE phase[q] = "idle"
  BY <1>1, <1>2 DEF E
<1>3. CASE phase[q] = "waiting"
  BY <1>1, <1>3 DEF E
<1>4. CASE phase[q] = "out"
  BY <1>1, <1>4 DEF E
<1> QED  BY <1>2, <1>3, <1>4

(***************************************************************************)
(* A query that changes its phase, while others may get their slot.        *)
(***************************************************************************)
LEMMA PhaseMoved ==
  ASSUME IInv, IInv', NEW q \in Queries,
         \A p \in Queries \ {q} : pc'[p] = pc[p] \/ (pc[p] = "slot" /\ pc'[p] = "woken")
  PROVE  /\ pc'[q] = "done" => phase' = [phase EXCEPT ![q] = "ended"]
         /\ pc'[q] = "sent" => phase' = [phase EXCEPT ![q] = "out"]
         /\ pc'[q] = "rate" => phase' = [phase EXCEPT ![q] = "waiting"]
         /\ pc'[q] = "slot" /\ pc[q] = "rate" => phase' = phase
<1>1. ASSUME NEW p \in Queries \ {q} PROVE phase'[p] = phase[p]
  BY <1>1 DEF phase
<1>2. /\ pc'[q] = "done" => phase'[q] = "ended"
      /\ pc'[q] = "sent" => phase'[q] = "out"
      /\ pc'[q] = "rate" => phase'[q] = "waiting"
      /\ pc'[q] = "slot" /\ pc[q] = "rate" => phase'[q] = "waiting" /\ phase[q] = "waiting"
  BY DEF phase
<1>3. phase = [p \in Queries |-> phase[p]] /\ phase' = [p \in Queries |-> phase'[p]]
  BY DEF phase
<1> HIDE DEF phase
<1> QED  BY <1>1, <1>2, <1>3

(***************************************************************************)
(* A query that ends, here and in Exchange.                                *)
(***************************************************************************)
LEMMA Ended ==
  ASSUME IInv, IInv', NEW q \in Queries, NEW o \in Contract!Ends(q),
         outcome' = [outcome EXCEPT ![q] = o], pc'[q] = "done",
         \A p \in Queries \ {q} : pc'[p] = pc[p] \/ (pc[p] = "slot" /\ pc'[p] = "woken"),
         UNCHANGED <<fut, closing>>
  PROVE  Contract!End(q)
<1>1. phase' = [phase EXCEPT ![q] = "ended"]
  BY PhaseMoved
<1>2. UNCHANGED <<heard, closing>>
  BY DEF heard
<1> QED  BY <1>1, <1>2, InPhases

(***************************************************************************)
(* ReleaseAndReturn ends a query.                                          *)
(***************************************************************************)
LEMMA ReleasedEnds ==
  ASSUME IInv, IInv', NEW q \in Queries, pc[q] \in {"sent", "woken"},
         NEW o \in Outcomes, o \in Contract!Ends(q),
         NEW n \in 1..(free + 1), ReleaseAndReturn(q, o, n),
         UNCHANGED <<fut, closing>>
  PROVE  Contract!End(q)
  BY Released, Ended

(***************************************************************************)
(* A query that goes out, here and in Exchange.                            *)
(***************************************************************************)
LEMMA TransmittedSends ==
  ASSUME IInv, IInv', NEW q \in Queries, pc[q] \in {"rate", "woken"},
         Cardinality(At("sent")) < Slots, NEW W \in SUBSET At("slot"), Transmit(q, W),
         UNCHANGED <<fut, closing>>
  PROVE  Contract!Send(q)
<1>1. /\ pc'[q] = "sent"
      /\ \A p \in Queries \ {q} : pc'[p] = pc[p] \/ (pc[p] = "slot" /\ pc'[p] = "woken")
  BY GoneOut DEF Transmit
<1>2. phase' = [phase EXCEPT ![q] = "out"]
  BY <1>1, PhaseMoved
<1>3. phase[q] = "waiting"
  BY Phases
<1>4. UNCHANGED <<outcome, heard, closing>> /\ ~ closing
  BY DEF Transmit, heard
<1>5. Cardinality(Contract!Out) < Slots
  BY OutIsSent
<1> QED  BY <1>2, <1>3, <1>4, <1>5, InPhases

(***************************************************************************)
(* A query that moves without a new phase, or a variable that Exchange     *)
(* does not know.                                                          *)
(***************************************************************************)
LEMMA Stutters ==
  ASSUME UNCHANGED <<phase, heard, outcome, closing>>
  PROVE  UNCHANGED Contract!vars
  BY DEF Contract!vars, phase, heard

(***************************************************************************)
(* Every step of the query layer is a step of Exchange or leaves its       *)
(* variables alone.                                                        *)
(***************************************************************************)
LEMMA StepSimulates == IInv /\ IInv' /\ [Next]_vars => [Contract!Next]_(Contract!vars)
<1> SUFFICES ASSUME IInv, IInv', [Next]_vars
             PROVE  Contract!Next \/ UNCHANGED Contract!vars
  OBVIOUS
<1>1. ASSUME NEW q \in Queries, Refuse(q) PROVE Contract!End(q)
  <2>1. "closed" \in Contract!Ends(q)
    BY <1>1, Phases, EndsInPhases DEF Refuse
  <2>2. /\ pc'[q] = "done" /\ outcome' = [outcome EXCEPT ![q] = "closed"]
        /\ \A p \in Queries \ {q} : pc'[p] = pc[p]
        /\ UNCHANGED <<fut, closing>>
    BY <1>1 DEF Refuse, Return, results, IInv, TypeOK
  <2> QED  BY <2>1, <2>2, Ended
<1>2. ASSUME NEW q \in Queries, Begin(q) PROVE Contract!Ask(q)
  <2>1. /\ pc'[q] = "rate" /\ \A p \in Queries \ {q} : pc'[p] = pc[p]
    BY <1>2 DEF Begin, IInv, TypeOK
  <2>2. phase' = [phase EXCEPT ![q] = "waiting"]
    BY <2>1, PhaseMoved
  <2>3. phase[q] = "idle"
    BY <1>2, Phases DEF Begin
  <2>4. UNCHANGED <<outcome, heard, closing>>
    BY <1>2 DEF Begin, results, heard
  <2> QED  BY <2>2, <2>3, <2>4, InPhases
<1>3. ASSUME NEW q \in Queries, Grant(q) PROVE Contract!Send(q)
  <2>1. Cardinality(At("sent")) < Slots
    BY <1>3, Numbers, QueryAssumption DEF IInv, TypeOK, SlotsCounted, Grant, Locked
  <2>2. /\ pc[q] = "rate" /\ {} \in SUBSET At("slot") /\ Transmit(q, {})
        /\ UNCHANGED <<fut, closing>>
    BY <1>3 DEF Grant, Acquire, results
  <2> QED  BY <2>1, <2>2, TransmittedSends
<1>4. ASSUME NEW q \in Queries, Resume(q) PROVE Contract!Send(q)
  <2>1. Cardinality(At("sent")) < Slots
    BY <1>4, Numbers, QueryAssumption DEF IInv, TypeOK, SlotsCounted, Resume, Places
  <2>2. PICK W \in Wakes(Left) : Transmit(q, W)
    BY <1>4 DEF Resume
  <2>3. W \in SUBSET At("slot") /\ pc[q] = "woken" /\ UNCHANGED <<fut, closing>>
    BY <1>4 DEF Wakes, Resume, results
  <2> QED  BY <2>1, <2>2, <2>3, TransmittedSends
<1>5. ASSUME NEW q \in Queries, Queue(q) PROVE UNCHANGED Contract!vars
  <2>1. /\ pc'[q] = "slot" /\ pc[q] = "rate" /\ \A p \in Queries \ {q} : pc'[p] = pc[p]
    BY <1>5 DEF Queue, Acquire, IInv, TypeOK
  <2>2. phase' = phase
    BY <2>1, PhaseMoved
  <2>3. UNCHANGED <<heard, outcome, closing>>
    BY <1>5 DEF Queue, results, heard
  <2> QED  BY <2>2, <2>3, Stutters
<1>6. ASSUME NEW q \in Queries, GrantClosed(q) PROVE Contract!End(q)
  <2>1. "closed" \in Contract!Ends(q)
    BY <1>6, Phases, EndsInPhases DEF GrantClosed, Acquire
  <2>2. /\ pc'[q] = "done" /\ outcome' = [outcome EXCEPT ![q] = "closed"]
        /\ \A p \in Queries \ {q} : pc'[p] = pc[p]
        /\ UNCHANGED <<fut, closing>>
    BY <1>6 DEF GrantClosed, Acquire, Return, results, IInv, TypeOK
  <2> QED  BY <2>1, <2>2, Ended
<1>7. ASSUME NEW q \in Queries, ResumeClosed(q) PROVE Contract!End(q)
  <2>1. "closed" \in Contract!Ends(q) /\ "closed" \in Outcomes
    BY <1>7, Phases, EndsInPhases DEF ResumeClosed, Outcomes
  <2>2. 1 + Left \in 1..(free + 1)
    BY QueryAssumption DEF Left, IInv, TypeOK
  <2> QED  BY <1>7, <2>1, <2>2, ReleasedEnds DEF ResumeClosed, results
<1>8. ASSUME NEW q \in Queries, CancelWaiting(q) PROVE Contract!End(q)
  <2>1. "cancelled" \in Contract!Ends(q)
    BY <1>8, Phases, EndsInPhases DEF CancelWaiting
  <2>2. /\ pc'[q] = "done" /\ outcome' = [outcome EXCEPT ![q] = "cancelled"]
        /\ \A p \in Queries \ {q} : pc'[p] = pc[p]
        /\ UNCHANGED <<fut, closing>>
    BY <1>8 DEF CancelWaiting, Return, results, IInv, TypeOK
  <2> QED  BY <2>1, <2>2, Ended
<1>9. ASSUME NEW q \in Queries, CancelWoken(q) PROVE Contract!End(q)
  <2>1. "cancelled" \in Contract!Ends(q) /\ "cancelled" \in Outcomes
    BY <1>9, Phases, EndsInPhases DEF CancelWoken, Outcomes
  <2>2. 1 \in 1..(free + 1)
    BY QueryAssumption DEF IInv, TypeOK
  <2> QED  BY <1>9, <2>1, <2>2, ReleasedEnds DEF CancelWoken, results
<1>10. ASSUME NEW q \in Queries, Finish(q) PROVE Contract!End(q)
  <2> DEFINE o == Outcome(q)
  <2>1. phase[q] = "out" /\ pc[q] = "sent"
    BY <1>10, Phases DEF Finish
  <2>2. o \in Contract!Ends(q) /\ o \in Outcomes
    <3>1. CASE cause[q] # "none"
      <4>1. o \in {"cancelled", "timeout"}
        BY <3>1 DEF Outcome, IInv, TypeOK
      <4> QED  BY <2>1, <4>1, EndsInPhases DEF Outcomes
    <3>2. CASE cause[q] = "none"
      <4>1. o = fut[q] /\ o \in {"answer", "error", "closed", "cancelled"}
        BY <1>10, <3>2 DEF Outcome, Finish, IInv, TypeOK
      <4>2. o \in {"answer", "error"} => q \in heard
        BY <4>1 DEF heard
      <4>3. o = "closed" => closing
        BY <4>1 DEF IInv, RepliesBelong
      <4> HIDE DEF o
      <4> QED  BY <2>1, <4>1, <4>2, <4>3, EndsInPhases DEF Outcomes
    <3> QED  BY <3>1, <3>2
  <2>3. ReleaseAndReturn(q, o, 1) /\ UNCHANGED <<fut, closing>>
    BY <1>10 DEF Finish, results
  <2>4. 1 \in 1..(free + 1)
    BY QueryAssumption DEF IInv, TypeOK
  <2> HIDE DEF o
  <2> QED  BY <2>1, <2>2, <2>3, <2>4, ReleasedEnds
<1>11. ASSUME NEW q \in Queries, Expire(q) \/ CancelSent(q) PROVE UNCHANGED Contract!vars
  <2>1. UNCHANGED <<pc, outcome, closing>>
    BY <1>11 DEF Expire, CancelSent
  <2>2. heard' = heard
    BY <1>11 DEF Expire, CancelSent, Settle, heard, IInv, TypeOK
  <2>3. phase' = phase
    BY <2>1 DEF phase
  <2> QED  BY <2>1, <2>2, <2>3, Stutters
<1>12. ASSUME NEW d \in Arriving, Receive(d)
       PROVE  (\E q \in Queries : Contract!Hear(q)) \/ UNCHANGED Contract!vars
  <2>1. PICK q \in Queries \cup {None} : q = pending[d.tid] /\ q # None
    <3>1. d.tid \in Tids
      BY QueryAssumption DEF Arriving, IInv, TypeOK
    <3> QED  BY <1>12, <3>1 DEF Receive, IInv, TypeOK
  <2>2. q \in Queries /\ pc[q] = "sent"
    <3>1. d.tid \in Tids
      BY QueryAssumption DEF Arriving, IInv, TypeOK
    <3> QED  BY <2>1, <3>1 DEF IInv, Entries
  <2>3. /\ ~ closing /\ UNCHANGED <<pc, outcome, closing>>
        /\ fut' = IF fut[q] = "open"
                  THEN [fut EXCEPT ![q] = IF d.kind = "r" THEN "answer" ELSE "error"]
                  ELSE fut
    BY <1>12, <2>1 DEF Receive, Settle
  <2>4. phase[q] = "out" /\ phase' = phase
    BY <2>2, <2>3, Phases DEF phase
  <2>5. CASE fut[q] = "open"
    <3>1. heard' = heard \cup {q}
      BY <2>2, <2>3, <2>5 DEF heard, IInv, TypeOK
    <3> QED  BY <2>2, <2>3, <2>4, <3>1, InPhases
  <2>6. CASE fut[q] # "open"
    <3>1. heard' = heard
      BY <2>3, <2>6 DEF heard
    <3> QED  BY <2>3, <2>4, <3>1, Stutters
  <2> QED  BY <2>5, <2>6
<1>13. ASSUME CloseIngress PROVE Contract!Close
  <2>1. heard' = heard
    BY <1>13 DEF CloseIngress, heard, IInv, TypeOK
  <2>2. phase' = phase
    BY <1>13 DEF CloseIngress, phase
  <2> QED  BY <1>13, <2>1, <2>2 DEF CloseIngress, Contract!Close, phase, heard
<1>14. ASSUME Refill \/ UNCHANGED vars PROVE UNCHANGED Contract!vars
  <2>1. UNCHANGED <<phase, heard, outcome, closing>>
    BY <1>14 DEF Refill, vars, results, phase, heard
  <2> QED  BY <2>1, Stutters
<1>15. ASSUME NEW q \in Queries, Step(q)
       PROVE  \/ Contract!Ask(q) \/ Contract!Send(q) \/ Contract!End(q)
              \/ UNCHANGED Contract!vars
  BY <1>1, <1>2, <1>3, <1>4, <1>5, <1>6, <1>7, <1>8, <1>9, <1>10, <1>11, <1>15 DEF Step
<1>16. ASSUME NEW q \in Queries,
              Contract!Ask(q) \/ Contract!Send(q) \/ Contract!Hear(q) \/ Contract!End(q)
       PROVE  Contract!Next
  BY <1>16 DEF Contract!Next
<1>17. CASE \E q \in Queries : Step(q)
  <2>1. PICK q \in Queries : Step(q)
    BY <1>17
  <2>2. CASE UNCHANGED Contract!vars
    BY <2>2
  <2>3. CASE Contract!Ask(q) \/ Contract!Send(q) \/ Contract!End(q)
    <3>1. Contract!Next
      BY <1>16, <2>3
    <3> QED  BY <3>1
  <2> QED  BY <1>15, <2>1, <2>2, <2>3
<1>18. CASE \E d \in Arriving : Receive(d)
  <2>1. (\E q \in Queries : Contract!Hear(q)) \/ UNCHANGED Contract!vars
    BY <1>12, <1>18
  <2>2. CASE \E q \in Queries : Contract!Hear(q)
    <3>1. Contract!Next
      BY <1>16, <2>2
    <3> QED  BY <3>1
  <2>3. CASE UNCHANGED Contract!vars
    BY <2>3
  <2> QED  BY <2>1, <2>2, <2>3
<1>19. CASE CloseIngress
  <2>1. Contract!Next
    BY <1>13, <1>19 DEF Contract!Next
  <2> QED  BY <2>1
<1>20. CASE Refill \/ UNCHANGED vars
  BY <1>14, <1>20
<1> QED  BY <1>17, <1>18, <1>19, <1>20 DEF Next

(***************************************************************************)
(* The query layer implements Exchange, for every value of the constants:  *)
(* rate limit, slots, transaction IDs, timer, cancellation and the         *)
(* network come down to asking, sending, hearing and ending.               *)
(***************************************************************************)
THEOREM ContractKeptCorrect == Spec => ContractKept
<1>1. Init => Contract!Init
  BY DEF Init, Contract!Init
<1> QED
  BY <1>1, Invariance, StepSimulates, PTL DEF Spec, ContractKept, Contract!Spec
=============================================================================
