------------------------------- MODULE Krpc -------------------------------
(***************************************************************************)
(* The KRPC queries of DHTNode (includes/dht.py): the rate limit with its  *)
(* three priorities, the slots, the transaction IDs, the timer, the        *)
(* datagrams that come back, cancellation, and close_ingress().            *)
(*                                                                         *)
(* Datagrams are lost, duplicated, delayed and reordered: an endpoint that *)
(* has been asked may answer once, more often, late or never.  Honest      *)
(* endpoints answer what they have been asked, with their own node ID;     *)
(* faulty ones send anything, at any time.  A datagram does not outlive    *)
(* the reuse of its transaction ID, which comes 2^16 queries later.        *)
(*                                                                         *)
(* Timer and cancellation are those of asyncio.wait_for in Python 3.12:    *)
(* they cancel the future at once, the task goes on later, and in between  *)
(* the query is still pending; a task that is cancelled when its future    *)
(* has just been set loses the result.                                     *)
(***************************************************************************)
EXTENDS Integers, FiniteSets

CONSTANTS
    Queries,    \* the calls of query(), each made once
    Endpoint,   \* per query: where it goes
    Expected,   \* per query: the node ID it expects, or NoId
    Priority,   \* per query: 0 (routing), 1 (lookups), 2 (BEP-51)
    OwnId,      \* per endpoint: its node ID
    Faulty,     \* the endpoints that send anything
    NoId,
    None,       \* no query, no datagram
    TidSpace,   \* 2^16
    Slots,      \* DHT_MAX_PENDING_REQUESTS
    Burst       \* DHT_QUERY_BURST

Endpoints == DOMAIN OwnId
Ids == {OwnId[e] : e \in Endpoints}
Tids == 0..(TidSpace - 1)

\* debug.validate_config bounds Slots and Burst from below only; config.py has
\* 200 slots.  With more slots than IDs _next_tid() could fail, and the slot of
\* its caller would be lost.
ASSUME QueryAssumption ==
    /\ IsFiniteSet(Queries)
    /\ Endpoint \in [Queries -> Endpoints]
    /\ Expected \in [Queries -> Ids \cup {NoId}]
    /\ Priority \in [Queries -> 0..2]
    /\ Faulty \subseteq Endpoints
    /\ NoId \notin Ids
    /\ None \notin Queries
    /\ TidSpace \in Nat /\ Slots \in Nat \ {0} /\ Burst \in Nat \ {0}
    /\ Slots <= TidSpace

VARIABLES
    pc,         \* per query: where its task is
    outcome,    \* per query: what it has returned or raised
    tokens,     \* TokenBucket.tokens
    free,       \* the value of the semaphore pending_slots
    counter,    \* _tx_counter
    pending,    \* per transaction ID: the pending query
    fut,        \* per query: the state of its future
    reply,      \* per query: the datagram that has set its future
    cause,      \* per query: why its task is being cancelled
    asked,      \* the requests that may still be answered
    verified,   \* the nodes observed with direct_response=True
    closing     \* _closing, and the transport is gone

sem == <<tokens, free>>
results == <<fut, reply, cause>>
vars == <<pc, outcome, tokens, free, counter, pending, fut, reply, cause,
          asked, verified, closing>>

\* What may arrive.  `re' is the query an honest endpoint answers.
Datagrams ==
    [tid : Tids, from : Endpoints, id : Ids, kind : {"r", "e"}, re : Queries \cup {None}]

Arriving ==
    {[tid |-> a.tid, from |-> Endpoint[a.query], id |-> OwnId[Endpoint[a.query]],
      kind |-> k, re |-> a.query] : a \in asked, k \in {"r", "e"}}
    \cup [tid : Tids, from : Faulty, id : Ids, kind : {"r", "e"}, re : {None}]

TypeOK ==
    /\ pc \in [Queries -> {"idle", "rate", "slot", "woken", "sent", "done"}]
    /\ outcome \in [Queries -> {"none", "answer", "error", "timeout", "closed", "cancelled"}]
    /\ tokens \in 0..Burst
    /\ free \in 0..Slots
    /\ counter \in Tids
    /\ pending \in [Tids -> Queries \cup {None}]
    /\ fut \in [Queries -> {"open", "answer", "error", "closed", "cancelled"}]
    /\ reply \in [Queries -> Datagrams \cup {None}]
    /\ cause \in [Queries -> {"none", "timeout", "cancel"}]
    /\ asked \subseteq [tid : Tids, query : Queries]
    /\ verified \subseteq [id : Ids, at : Endpoints]
    /\ closing \in BOOLEAN

Init ==
    /\ pc = [q \in Queries |-> "idle"]
    /\ outcome = [q \in Queries |-> "none"]
    /\ tokens = Burst
    /\ free = Slots
    /\ counter \in Tids
    /\ pending = [t \in Tids |-> None]
    /\ fut = [q \in Queries |-> "open"]
    /\ reply = [q \in Queries |-> None]
    /\ cause = [q \in Queries |-> "none"]
    /\ asked = {}
    /\ verified = {}
    /\ closing = FALSE

At(place) == {q \in Queries : pc[q] = place}

-----------------------------------------------------------------------------
(* Slots and transaction IDs *)

Return(q, o) ==
    /\ pc' = [pc EXCEPT ![q] = "done"]
    /\ outcome' = [outcome EXCEPT ![q] = o]

\* Semaphore.locked(): a newcomer never overtakes a task that waits or that has
\* been woken and has not gone on.
Locked == free = 0 \/ At("slot") # {} \/ At("woken") # {}

\* Whom n calls of Semaphore._wake_up_next() wake: each gives one slot to one
\* task that waits, if there is one.
Wakes(n) ==
    {W \in SUBSET At("slot") :
        /\ Cardinality(W) <= n
        /\ Cardinality(W) < n => W = At("slot")}

\* A woken task that goes on wakes the next one if a slot is left.
Left == IF free > 0 THEN 1 ELSE 0

\* q goes on to `place' and has woken W, who go on later.
Move(q, place, W) ==
    pc' = [p \in Queries |-> IF p = q THEN place
                             ELSE IF p \in W THEN "woken" ELSE pc[p]]

\* Mutated form: the slot is free, and nobody is woken.
ReleaseAndReturn_Silent(q, o, n) ==
    /\ free' = free + 1
    /\ Return(q, o)

\* q, whose task goes on to end, gives its slot back; it calls _wake_up_next()
\* n times in all.
ReleaseAndReturn(q, o, n) ==
    \E W \in Wakes(n) :
        /\ Move(q, "done", W)
        /\ free' = free + 1 - Cardinality(W)
        /\ outcome' = [outcome EXCEPT ![q] = o]

\* Mutated form: whether the ID is in use is not asked.
NextTid_InUse == (counter + 1) % TidSpace

\* _next_tid(): the first ID behind the counter that is not pending.
NextTid ==
    LET unused == {t \in Tids : pending[t] = None}
        steps(t) == (t - counter - 1) % TidSpace
    IN CHOOSE t \in unused : \A u \in unused : steps(t) <= steps(u)

\* Mutated form: the transport is still there after close_ingress().
Transmit_Closed(q, W) ==
    /\ Move(q, "sent", W)
    /\ counter' = NextTid
    /\ pending' = [pending EXCEPT ![NextTid] = q]
    /\ asked' = {a \in asked : a.tid # NextTid} \cup {[tid |-> NextTid, query |-> q]}
    /\ UNCHANGED outcome

\* query(), once it has its slot: the query gets its ID, is entered and sent.
Transmit(q, W) ==
    /\ ~ closing
    /\ Move(q, "sent", W)
    /\ counter' = NextTid
    /\ pending' = [pending EXCEPT ![NextTid] = q]
    /\ asked' = {a \in asked : a.tid # NextTid} \cup {[tid |-> NextTid, query |-> q]}
    /\ UNCHANGED outcome

-----------------------------------------------------------------------------
(* The tasks *)

\* query() is called: its first test.
Refuse(q) ==
    /\ closing
    /\ pc[q] = "idle"
    /\ Return(q, "closed")
    /\ UNCHANGED <<sem, counter, pending, results, asked, verified, closing>>

Begin(q) ==
    /\ ~ closing
    /\ pc[q] = "idle"
    /\ pc' = [pc EXCEPT ![q] = "rate"]
    /\ UNCHANGED <<outcome, sem, counter, pending, results, asked, verified, closing>>

\* TokenBucket.acquire(): a token, unless somebody of a higher priority waits.
Acquire(q) ==
    /\ pc[q] = "rate"
    /\ tokens >= 1
    /\ \A p \in At("rate") : Priority[p] >= Priority[q]
    /\ tokens' = tokens - 1

Grant(q) ==
    /\ Acquire(q)
    /\ ~ Locked
    /\ free' = free - 1
    /\ Transmit(q, {})
    /\ UNCHANGED <<results, verified, closing>>

\* The task joins the waiters of the semaphore.
Queue(q) ==
    /\ Acquire(q)
    /\ Locked
    /\ pc' = [pc EXCEPT ![q] = "slot"]
    /\ UNCHANGED <<outcome, free, counter, pending, results, asked, verified, closing>>

Resume(q) ==
    /\ pc[q] = "woken"
    /\ \E W \in Wakes(Left) :
          /\ Transmit(q, W)
          /\ free' = free - Cardinality(W)
    /\ UNCHANGED <<tokens, results, verified, closing>>

\* _send() raises after close_ingress(); the finally clause undoes the entry
\* and releases the slot.
GrantClosed(q) ==
    /\ Acquire(q)
    /\ closing /\ ~ Locked
    /\ counter' = NextTid
    /\ Return(q, "closed")
    /\ UNCHANGED <<free, pending, results, asked, verified, closing>>

ResumeClosed(q) ==
    /\ pc[q] = "woken"
    /\ closing
    /\ counter' = NextTid
    /\ ReleaseAndReturn(q, "closed", 1 + Left)
    /\ UNCHANGED <<tokens, pending, results, asked, verified, closing>>

\* `if not pending.future.done()'
Settle(q, f) == fut' = IF fut[q] = "open" THEN [fut EXCEPT ![q] = f] ELSE fut

\* The timer of wait_for() fires.
Expire(q) ==
    /\ pc[q] = "sent"
    /\ cause[q] = "none"
    /\ cause' = [cause EXCEPT ![q] = "timeout"]
    /\ Settle(q, "cancelled")
    /\ UNCHANGED <<pc, outcome, sem, counter, pending, reply, asked, verified, closing>>

\* task.cancel(), by the shutdown or with the lookup the query belongs to.
CancelWaiting(q) ==
    /\ pc[q] \in {"rate", "slot"}
    /\ Return(q, "cancelled")
    /\ UNCHANGED <<sem, counter, pending, results, asked, verified, closing>>

CancelWoken(q) ==
    /\ pc[q] = "woken"
    /\ ReleaseAndReturn(q, "cancelled", 1)
    /\ UNCHANGED <<tokens, counter, pending, results, asked, verified, closing>>

CancelSent(q) ==
    /\ pc[q] = "sent"
    /\ cause[q] # "cancel"
    /\ cause' = [cause EXCEPT ![q] = "cancel"]
    /\ Settle(q, "cancelled")
    /\ UNCHANGED <<pc, outcome, sem, counter, pending, reply, asked, verified, closing>>

\* What the task finds when it goes on.
Outcome(q) ==
    CASE cause[q] = "cancel"  -> "cancelled"
      [] cause[q] = "timeout" -> "timeout"
      [] OTHER                -> fut[q]

\* The task goes on: the finally clause, and whatever query() returns or raises.
\* A timeout charges the expected node: RoutingTable!MarkFailure.
Finish(q) ==
    /\ pc[q] = "sent"
    /\ fut[q] # "open" \/ cause[q] # "none"
    /\ pending' = [t \in Tids |-> IF pending[t] = q THEN None ELSE pending[t]]
    /\ ReleaseAndReturn(q, Outcome(q), 1)
    /\ UNCHANGED <<tokens, counter, results, asked, verified, closing>>

-----------------------------------------------------------------------------
(* The event loop *)

\* Mutated form: the source and the transaction ID decide, but not the node.
Matches_AnyNode(q, d) == d.from = Endpoint[q]

\* The tests of _handle_response_or_error().
Matches(q, d) ==
    /\ d.from = Endpoint[q]
    /\ d.kind = "r" => Expected[q] \in {NoId, d.id}

\* handle_datagram() for a response or an error.
Receive(d) ==
    LET q == pending[d.tid] IN
    /\ ~ closing
    /\ q # None
    /\ Matches(q, d)
    /\ Settle(q, IF d.kind = "r" THEN "answer" ELSE "error")
    /\ reply' = IF fut[q] = "open" THEN [reply EXCEPT ![q] = d] ELSE reply
    /\ verified' = IF d.kind = "r" THEN verified \cup {[id |-> d.id, at |-> d.from]} ELSE verified
    /\ UNCHANGED <<pc, outcome, sem, counter, pending, cause, asked, closing>>

\* close_ingress(): the queries that are out end.
CloseIngress ==
    /\ ~ closing
    /\ closing' = TRUE
    /\ fut' = [q \in Queries |-> IF pc[q] = "sent" /\ fut[q] = "open" THEN "closed" ELSE fut[q]]
    /\ UNCHANGED <<pc, outcome, sem, counter, pending, reply, cause, asked, verified>>

\* The clock: the bucket gets a token.
Refill ==
    /\ tokens < Burst
    /\ tokens' = tokens + 1
    /\ UNCHANGED <<pc, outcome, free, counter, pending, results, asked, verified, closing>>

Step(q) ==
    \/ Refuse(q) \/ Begin(q) \/ Grant(q) \/ Queue(q) \/ Resume(q)
    \/ GrantClosed(q) \/ ResumeClosed(q)
    \/ Expire(q) \/ CancelWaiting(q) \/ CancelWoken(q) \/ CancelSent(q) \/ Finish(q)

Next ==
    \/ \E q \in Queries : Step(q)
    \/ \E d \in Arriving : Receive(d)
    \/ CloseIngress
    \/ Refill

Spec == Init /\ [][Next]_vars

\* The loop runs every task that can go on, timers fire, the clock ticks.
\* Nothing is assumed of the network.
Fairness ==
    /\ WF_vars(Refill)
    /\ \A q \in Queries :
          /\ WF_vars(Grant(q) \/ Queue(q) \/ GrantClosed(q))
          /\ WF_vars(Resume(q) \/ ResumeClosed(q))
          /\ WF_vars(Expire(q))
          /\ WF_vars(Finish(q))

FairSpec == Spec /\ Fairness

-----------------------------------------------------------------------------
(* Properties *)

\* Every slot is free, on its way to a woken task or held by one query that is
\* out, and the pending table holds exactly the queries that are out, each under
\* an ID of its own: no exit of query() loses or doubles a slot or an entry, so
\* that a free ID is always found.  A task that waits while a slot is free waits
\* behind one that has been woken, which wakes it in turn.
SlotsMatch ==
    /\ free + Cardinality(At("woken")) + Cardinality(At("sent")) = Slots
    /\ \A t \in Tids : pending[t] # None => pc[pending[t]] = "sent"
    /\ \A q \in At("sent") : \E t \in Tids : \A u \in Tids : pending[u] = q <=> u = t
    /\ At("slot") # {} => free = 0 \/ At("woken") # {}

\* A query returns an answer that came from the endpoint it went to, from the
\* node it expected, and, if the endpoint is honest, to this very query, however
\* late and often datagrams arrive, as long as none outlives the reuse of its ID.
AnswerBelongs ==
    \A q \in Queries : outcome[q] = "answer" =>
        /\ reply[q].from = Endpoint[q]
        /\ Expected[q] \in {NoId, reply[q].id}
        /\ Endpoint[q] \in Faulty \/ reply[q].re = q

\* Only an endpoint that has been asked, under the ID it was expected to have if
\* there was one, gains the standing of a node that has answered.
VerifiedWereAsked ==
    \A v \in verified : \E q \in Queries :
        /\ pc[q] \in {"sent", "done"}
        /\ Endpoint[q] = v.at
        /\ Expected[q] \in {NoId, v.id}

\* What the network sends counts only where it was asked for, for the task that
\* asked as for the routing table.
OnlyTheAsked == AnswerBelongs /\ VerifiedWereAsked

\* The query layer implements Exchange.
Contract == INSTANCE Exchange WITH
    MaxOut <- Slots,
    phase <- [q \in Queries |->
                CASE pc[q] = "idle" -> "idle"
                  [] pc[q] \in {"rate", "slot", "woken"} -> "waiting"
                  [] pc[q] = "sent" -> "out"
                  [] OTHER -> "ended"],
    heard <- {q \in Queries : fut[q] \in {"answer", "error"}},
    closed <- closing

ContractKept == Contract!Spec

\* Every query ends: neither a lost answer nor the lack of slots or tokens nor
\* the shutdown leaves a task waiting for ever.
QueriesEnd == Contract!AsksEnd
=============================================================================
