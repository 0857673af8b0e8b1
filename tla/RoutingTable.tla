---------------------------- MODULE RoutingTable ----------------------------
(***************************************************************************)
(* The Kademlia routing table of includes/dht.py: buckets that split only  *)
(* around the local node ID, contacts that are GOOD, QUESTIONABLE or BAD,  *)
(* and the replacement caches of full buckets.                             *)
(*                                                                         *)
(* The times of a contact are abstracted to whether they are within        *)
(* DHT_ROUTING_GOOD_TTL; the clock ages one of them at a time.  The order  *)
(* of the contacts of a bucket is abstracted: only the choice of the first *)
(* BAD one depends on it.                                                  *)
(***************************************************************************)
EXTENDS Naturals, Sequences, FiniteSets, SequencesExt

CONSTANTS
    Bits,       \* length of a node ID (160)
    LocalId,    \* local_node_id
    Senders,    \* the <<node ID, (ip, port)>> that messages come from or mention
    ReadOnly,   \* the IDs whose queries may say that they are read-only
    Bootstraps, \* those of Senders that stand behind _bootstrap_endpoints
    K,          \* DHT_K
    BadAfter,   \* DHT_ROUTING_BAD_AFTER_FAILURES
    MaxRestarts \* bound: restarts of the process

Space == 2 ^ Bits          \* DHT_ID_SPACE
Ids == 0..(Space - 1)
Nodes == {s[1] : s \in Senders}
Endpoints == {s[2] : s \in Senders}

ASSUME RoutingAssumption ==
    /\ Bits \in Nat /\ Space \in Nat /\ LocalId \in Ids /\ Nodes \subseteq Ids /\ ReadOnly \subseteq Nodes
    /\ Senders \subseteq Nodes \X Endpoints /\ Bootstraps \subseteq Senders
    /\ K \in Nat \ {0} /\ BadAfter \in Nat \ {0} /\ MaxRestarts \in Nat

VARIABLES
    buckets,    \* RoutingTable.buckets
    snapshot,   \* the contacts in the snapshot file: <<node ID, endpoint>>
    restoring,  \* those of them restore_contacts has yet to observe
    restarts,   \* bounded counter
    responded   \* history: the <<node ID, endpoint>> that have responded to this
                \* process, of the nodes that are in the table

vars == <<buckets, snapshot, restoring, restarts, responded>>

\* response: whether and when the contact responded (ever_responded and
\* last_response_ns); queried: last_query_ns is within the time limit; failures
\* is cut at BadAfter, which is all that state() asks.
Contact == [id : Nodes \ {LocalId}, ep : Endpoints,
            response : {"never", "old", "recent"}, queried : BOOLEAN,
            failures : 0..BadAfter, read_only : BOOLEAN]

State(c) ==
    IF c.failures >= BadAfter THEN "BAD"
    ELSE IF c.response = "recent" \/ (c.response = "old" /\ c.queried)
         THEN "GOOD" ELSE "QUESTIONABLE"

Covers(b, id) == b.low <= id /\ id < b.high
Home(table, id) == CHOOSE b \in table : Covers(b, id)

Known(b, id) == \E c \in b.contacts : c.id = id
Cached(b) == ToSet(b.replacements)

Present == {c.id : c \in UNION {b.contacts \cup Cached(b) : b \in buckets}}
StillPresent(answers) == {a \in answers : a[1] \in Present'}

TypeOK ==
    /\ \A b \in buckets :
          /\ b.low \in Ids /\ b.high \in 1..Space /\ b.contacts \subseteq Contact
          /\ b.replacements \in Seq(Contact) /\ Len(b.replacements) <= K
          /\ Cardinality(b.contacts) <= K
    /\ snapshot \subseteq Senders
    /\ restoring \subseteq snapshot
    /\ restarts \in 0..MaxRestarts
    /\ responded \subseteq Senders

NewTable == {[low |-> 0, high |-> Space, contacts |-> {}, replacements |-> <<>>]}

Init ==
    /\ buckets = NewTable
    /\ snapshot = {} /\ restoring = {} /\ restarts = 0
    /\ responded = {}

-----------------------------------------------------------------------------
\* Mutated form: a node whose ID is the midpoint goes to the left half.
Split_OffByOne(b) ==
    LET mid == (b.low + b.high) \div 2
        Half(low, high, Side(_)) ==
            [low |-> low, high |-> high,
             contacts |-> {c \in b.contacts : Side(c)},
             replacements |-> IF b.replacements = <<>> THEN <<>>
                              ELSE SelectSeq(b.replacements, Side)]
    IN  {Half(b.low, mid, LAMBDA c : c.id <= mid),
         Half(mid, b.high, LAMBDA c : c.id > mid)}

\* _split: the contacts and the replacements go to the half that has their ID
\* (the bucket of the local ID has none of the latter, see ReplacementsWait).
Split(b) ==
    LET mid == (b.low + b.high) \div 2
        Half(low, high, Side(_)) ==
            [low |-> low, high |-> high,
             contacts |-> {c \in b.contacts : Side(c)},
             replacements |-> IF b.replacements = <<>> THEN <<>>
                              ELSE SelectSeq(b.replacements, Side)]
    IN  {Half(b.low, mid, LAMBDA c : c.id < mid),
         Half(mid, b.high, LAMBDA c : c.id >= mid)}

\* The table after the local bucket has been split n times, which is less than
\* once per ID.
AfterSplits[n \in Ids] ==
    IF n = 0 THEN buckets
    ELSE LET before == AfterSplits[n - 1]
             local == Home(before, LocalId)
         IN  (before \ {local}) \cup Split(local)

MustSplit(table, id) ==
    LET b == Home(table, id)
    IN  Cardinality(b.contacts) >= K /\ Covers(b, LocalId)

\* Mutated form: `if' for `while'.
Roomy_OneSplit(id) == IF MustSplit(buckets, id) THEN AfterSplits[1] ELSE buckets

\* while len(bucket.contacts) >= DHT_K and bucket.contains(local): split the
\* bucket, and look the one of the node up again.
Roomy(id) ==
    LET n == CHOOSE i \in Ids :
                /\ ~ MustSplit(AfterSplits[i], id)
                /\ \A j \in 0..(i - 1) : MustSplit(AfterSplits[j], id)
    IN  AfterSplits[n]

Replace(table, b, contacts, replacements) ==
    (table \ {b}) \cup
        {[b EXCEPT !.contacts = contacts, !.replacements = replacements]}

-----------------------------------------------------------------------------
\* The kinds of observations: a response to a query of ours, a query of the
\* remote node (which may say that it is read-only), a mention by another node.
Kinds == {"response", "query", "mention"}

\* Mutated form: any observation moves the endpoint.
Refreshed_Moves(c, ep, kind, ro) ==
    [c EXCEPT
        !.ep = ep,
        !.response = IF kind = "response" THEN "recent" ELSE @,
        !.failures = IF kind = "response" THEN 0 ELSE @,
        !.queried = @ \/ kind = "query",
        !.read_only = ro]

\* observe() of a node that is in its bucket: only a direct response moves the
\* contact to another endpoint or forgives its failures.
Refreshed(c, ep, kind, ro) ==
    [c EXCEPT
        !.ep = IF kind = "response" THEN ep ELSE @,
        !.response = IF kind = "response" THEN "recent" ELSE @,
        !.failures = IF kind = "response" THEN 0 ELSE @,
        !.queried = @ \/ kind = "query",
        !.read_only = ro]

Candidate(id, ep, kind) ==
    [id |-> id, ep |-> ep,
     response |-> IF kind = "response" THEN "recent" ELSE "never",
     queried |-> kind = "query", failures |-> 0, read_only |-> FALSE]

ObserveKnown(id, ep, kind, ro) ==
    LET b == Home(buckets, id) IN
    \E c \in b.contacts :
        /\ c.id = id
        /\ buckets' = Replace(buckets, b,
                              (b.contacts \ {c}) \cup {Refreshed(c, ep, kind, ro)},
                              b.replacements)

\* Mutated form: a candidate pushes out any contact that is not GOOD.
Insert_EvictsQuestionable(table, id, new) ==
    LET b == Home(table, id)
        weak == {c \in b.contacts : State(c) # "GOOD"}
    IN  \/ /\ Cardinality(b.contacts) < K
           /\ buckets' = Replace(table, b, b.contacts \cup {new}, b.replacements)
        \/ /\ Cardinality(b.contacts) >= K
           /\ \E c \in weak :
                 buckets' = Replace(table, b, (b.contacts \ {c}) \cup {new},
                                    b.replacements)
        \/ /\ Cardinality(b.contacts) >= K /\ weak = {}
           /\ buckets' = table

\* A new candidate finds room, takes the place of a BAD contact, or waits as a
\* replacement (once, and the oldest replacement makes room).
Insert(table, id, new) ==
    LET b == Home(table, id)
        bad == {c \in b.contacts : State(c) = "BAD"}
        waiting == IF Len(b.replacements) >= K THEN Tail(b.replacements)
                                               ELSE b.replacements
    IN  \/ /\ Cardinality(b.contacts) < K
           /\ buckets' = Replace(table, b, b.contacts \cup {new}, b.replacements)
        \/ /\ Cardinality(b.contacts) >= K
           /\ \E c \in bad :
                 buckets' = Replace(table, b, (b.contacts \ {c}) \cup {new},
                                    b.replacements)
        \/ /\ Cardinality(b.contacts) >= K /\ bad = {}
           /\ buckets' = IF \E c \in Cached(b) : c.id = id THEN table
                         ELSE Replace(table, b, b.contacts, Append(waiting, new))

\* observe(): our own ID is left out; a read-only node is never inserted.
Observe(id, ep, kind, ro) ==
    IF id = LocalId THEN UNCHANGED buckets
    ELSE IF Known(Home(buckets, id), id) THEN ObserveKnown(id, ep, kind, ro)
    ELSE IF ro THEN UNCHANGED buckets
    ELSE Insert(Roomy(id), id, Candidate(id, ep, kind))

\* A datagram of the remote node, or a mention of it, reaches the table.
Hear(id, ep, kind, ro) ==
    /\ restoring = {}
    /\ ro => kind = "query" /\ id \in ReadOnly
    /\ Observe(id, ep, kind, ro)
    /\ responded' = StillPresent(IF kind = "response" THEN responded \cup {<<id, ep>>}
                                                     ELSE responded)
    /\ UNCHANGED <<snapshot, restoring, restarts>>

\* Mutated forms: the promoted replacement stays in the cache; a BAD contact
\* stays although a replacement waits.
AfterFailure_KeepsCached(b, c, failed) ==
    IF State(failed) = "BAD" /\ b.replacements # <<>>
    THEN Replace(buckets, b, (b.contacts \ {c}) \cup {Last(b.replacements)},
                 b.replacements)
    ELSE Replace(buckets, b, (b.contacts \ {c}) \cup {failed}, b.replacements)
AfterFailure_NoPromotion(b, c, failed) ==
    Replace(buckets, b, (b.contacts \ {c}) \cup {failed}, b.replacements)

\* A contact that has become BAD gives way to the newest replacement.
AfterFailure(b, c, failed) ==
    IF State(failed) = "BAD" /\ b.replacements # <<>>
    THEN Replace(buckets, b, (b.contacts \ {c}) \cup {Last(b.replacements)},
                 Front(b.replacements))
    ELSE Replace(buckets, b, (b.contacts \ {c}) \cup {failed}, b.replacements)

\* mark_failure(): a query to the node, sent some time ago, has timed out.  The
\* contact is looked up by its ID, and may be gone or have moved.
MarkFailure(id) ==
    LET b == Home(buckets, id) IN
    /\ restoring = {}
    /\ \E c \in b.contacts :
          /\ c.id = id
          /\ buckets' = AfterFailure(b, c,
                          [c EXCEPT !.failures = IF @ < BadAfter THEN @ + 1 ELSE @])
    /\ responded' = StillPresent(responded)
    /\ UNCHANGED <<snapshot, restoring, restarts>>

\* DHT_ROUTING_GOOD_TTL passes since a response or a query of a contact.
Aged(c) == {[c EXCEPT !.response = IF @ = "recent" THEN "old" ELSE @],
            [c EXCEPT !.queried = FALSE]} \ {c}

Age ==
    /\ \E b \in buckets :
          \/ \E c \in b.contacts : \E old \in Aged(c) :
                buckets' = Replace(buckets, b, (b.contacts \ {c}) \cup {old},
                                   b.replacements)
          \/ \E i \in 1..Len(b.replacements) : \E old \in Aged(b.replacements[i]) :
                buckets' = Replace(buckets, b, b.contacts,
                                   [b.replacements EXCEPT ![i] = old])
    /\ UNCHANGED <<snapshot, restoring, restarts, responded>>

-----------------------------------------------------------------------------
Contacts == UNION {b.contacts : b \in buckets}

\* The process stops and starts with a new table: a shutdown writes the
\* snapshot first (atomically), a crash leaves the last one.
Restart(shutdown) ==
    /\ restoring = {}
    /\ restarts < MaxRestarts
    /\ restarts' = restarts + 1
    /\ snapshot' = IF shutdown THEN {<<c.id, c.ep>> : c \in Contacts} ELSE snapshot
    /\ restoring' = snapshot'
    /\ buckets' = NewTable
    /\ responded' = {}

\* restore_contacts: every saved contact is observed as if it were mentioned,
\* before any datagram is handled.
RestoreContact(r) ==
    /\ r \in restoring
    /\ Observe(r[1], r[2], "mention", FALSE)
    /\ restoring' = restoring \ {r}
    /\ UNCHANGED <<snapshot, restarts, responded>>

Next ==
    \/ \E s \in Senders, kind \in Kinds, ro \in BOOLEAN : Hear(s[1], s[2], kind, ro)
    \/ \E id \in Nodes : MarkFailure(id)
    \/ Age
    \/ \E shutdown \in BOOLEAN : Restart(shutdown)
    \/ \E r \in restoring : RestoreContact(r)

Spec == Init /\ [][Next]_vars

-----------------------------------------------------------------------------
(* The maintenance of the table: steps of Next that maintenance_once() makes    *)
(* happen.  The query and what comes of it are one step here; everything that   *)
(* may come in between is a step of its own anyway.                             *)

\* Mutated form: closest(..., good_only=False).
Lost_NoContact == \A c \in Contacts : c.read_only

\* not closest(self.node_id, 1, good_only=True)
Lost == \A c \in Contacts : State(c) # "GOOD" \/ c.read_only

\* bootstrap(), DHT_BOOTSTRAP_RETRY_INTERVAL after the last one: an answer.
Bootstrapped(s) ==
    /\ Lost
    /\ Hear(s[1], s[2], "response", FALSE)

\* questionable[:DHT_K], in the order of the buckets.
Due(c) ==
    LET before == {d \in Contacts : State(d) = "QUESTIONABLE"
                       /\ Home(buckets, d.id).low <= Home(buckets, c.id).low}
    IN  c \in before /\ Cardinality(before) <= K

\* ping(): an answer, or a timeout.
Pinged(id) ==
    \E c \in Contacts :
        /\ c.id = id
        /\ Due(c)
        /\ (Hear(id, c.ep, "response", FALSE) \/ MarkFailure(id))

\* maintenance_scheduler() goes on for ever: a round that finds contacts due
\* pings them, and one that finds no GOOD contact asks the bootstrap nodes, each
\* of which is assumed to answer in the end.
Fairness ==
    /\ WF_vars(\E r \in restoring : RestoreContact(r))
    /\ \A s \in Bootstraps : WF_vars(Bootstrapped(s))
    /\ WF_vars(\E id \in Nodes : Pinged(id))

FairSpec == Spec /\ Fairness

-----------------------------------------------------------------------------
(* Properties *)

\* The table is of its type, lists within their limits, and the buckets cover
\* the ID space without overlap, so that _bucket_for always
\* finds exactly one (its AssertionError never fires), every node stands in the
\* bucket of its ID, and only buckets around the local ID have been split: each is
\* no further from it than it is wide.
BucketsPartition ==
    /\ TypeOK
    /\ \A id \in Ids : \E b \in buckets : Covers(b, id)
    /\ \A a, b \in buckets :
          a # b => a.high <= b.low \/ b.high <= a.low
    /\ \A b \in buckets : \A c \in b.contacts \cup Cached(b) : Covers(b, c.id)
    /\ \A b \in buckets :
          /\ b.low <= LocalId + (b.high - b.low)
          /\ LocalId <= b.high + (b.high - b.low)

\* A node stands in the table once, as a contact or as a replacement.
\* Nothing looks for duplicates when a replacement is promoted or a BAD
\* contact is replaced: it rests on ReplacementsWait.
UniqueNodes ==
    \A b \in buckets :
        /\ \A c, d \in b.contacts : c.id = d.id => c = d
        /\ \A c \in b.contacts, i \in 1..Len(b.replacements) :
              c.id # b.replacements[i].id
        /\ \A i, j \in 1..Len(b.replacements) :
              b.replacements[i].id = b.replacements[j].id => i = j

\* Replacements wait only where there is no place for them: in a full bucket
\* away from the local ID, none of whose contacts is BAD.
ReplacementsWait ==
    \A b \in buckets : b.replacements # <<>> =>
        /\ Cardinality(b.contacts) = K
        /\ \A c \in b.contacts : State(c) # "BAD"
        /\ ~ Covers(b, LocalId)

\* A GOOD contact has answered a query of ours from the endpoint the table has
\* for it: queries and mentions never make a contact GOOD or move it.
GoodIsVerified ==
    \A c \in Contacts : State(c) = "GOOD" => <<c.id, c.ep>> \in responded

\* A node leaves the table only by failing: no flood of new nodes, split or
\* observation pushes out a contact that is not BAD.
OnlyBadEvicted ==
    [][restarts' = restarts =>
         \A c \in Contacts :
            \/ \E d \in Contacts' : d.id = c.id
            \/ State(c) = "BAD"
            \/ (c.failures + 1 >= BadAfter /\ MarkFailure(c.id))]_vars

\* A restart brings back every contact of the snapshot: the new table splits
\* as far as the old one had to, and none ends up in a replacement cache.
RestoreComplete ==
    [][restoring # {} =>
         \A r \in snapshot \ restoring' :
             \E c \in Contacts' : c.id = r[1] /\ c.ep = r[2]]_vars


\* The table recovers from any outage: contacts that have all gone silent give
\* way to one that is GOOD, although the bootstrap nodes find their buckets full.
\* Two things can prevent it: other nodes that keep flooding in, and push the
\* bootstrap nodes out of the replacement caches; and GOOD contacts that call
\* themselves read-only, which no lookup uses and nothing removes.
TableRecovers ==
    <>[][Present' \subseteq Present \cup {s[1] : s \in Bootstraps}]_vars =>
        []<>(\E c \in Contacts : State(c) = "GOOD")
=============================================================================
