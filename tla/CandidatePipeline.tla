------------------------- MODULE CandidatePipeline -------------------------
(***************************************************************************)
(* The path of a DHT key through the crawler: CandidateManager and the     *)
(* bounded torrent queue (includes/dht.py), the fixed pool of torrent      *)
(* workers and the retry scan (main.py), and the durable candidate table   *)
(* (includes/storage.py).                                                  *)
(*                                                                         *)
(* Every asyncio task runs alone between two awaits, so an action is the   *)
(* code between two awaits: a database call takes effect in one action     *)
(* (the SQLite thread runs the operations one at a time) and the worker    *)
(* resumes in a later one whenever something that happens in between can   *)
(* matter.  After a database error the thread may execute an operation     *)
(* again that it has committed: mark_fetching then counts again; to read,  *)
(* see, persist or fail a candidate twice is to do it once.  Peers, keys   *)
(* and rows are abstracted to what the control flow tells apart; the wall  *)
(* clock is the action BecomeDue.                                          *)
(***************************************************************************)
EXTENDS Naturals, Integers, Sequences, FiniteSets

CONSTANTS
    Keys,         \* DHT keys (20 byte info hashes)
    Workers,      \* the torrent_worker tasks
    Peers,        \* peer endpoints
    NoHint,       \* a submission without a peer hint
    NoKey,        \* a worker that holds no candidate
    QueueSize,    \* HASH_QUEUE_SIZE
    RecentSize,   \* RECENT_HASH_CACHE_SIZE
    MaxHints,     \* MAX_PEER_HINTS_PER_CANDIDATE
    MaxTries,     \* min(MAX_PEERS_PER_TORRENT, MAX_METADATA_ATTEMPTS_PER_TORRENT)
    MaxFetches,   \* FETCH_RETRY_MAX_ATTEMPTS
    ScanBatch,    \* RETRY_SCAN_BATCH_SIZE
    Retries,      \* DB_REOPEN_RETRY_COUNT
    MaxRestarts,  \* bound: restarts of the process
    MaxEscapes    \* bound: unexpected exceptions that escape _process_candidate

ASSUME SizesAssumption ==
    /\ QueueSize \in Nat \ {0} /\ RecentSize \in Nat \ {0}
    /\ MaxHints \in Nat /\ MaxTries \in Nat /\ MaxFetches \in Nat \ {0}
    /\ ScanBatch \in Nat \ {0} /\ Retries \in Nat
    /\ MaxRestarts \in Nat /\ MaxEscapes \in Nat
ASSUME NoValuesAssumption == NoHint \notin Peers /\ NoKey \notin Keys
ASSUME FiniteAssumption == IsFiniteSet(Keys) /\ IsFiniteSet(Peers)

VARIABLES
    queue,       \* asyncio.Queue[bytes] hash_queue
    states,      \* keys of CandidateManager.states: the reserved candidates
    peer_hints,  \* CandidateState.peer_hints of each reserved key
    recent,      \* keys of CandidateManager.recent
    row,         \* table torrent_candidates
    pc,          \* where each worker is in _process_candidate
    held,        \* the key a worker processes
    was_due,     \* next_attempt_at <= now_ns, for the now_ns a worker read first
    hinted,      \* hints a worker has copied and not tried yet
    found,       \* peers iterative_get_peers returned to a worker
    tried,       \* endpoints a worker has tried
    attempt_no,  \* attempts a worker read back before it reports a failure
    scan,        \* keys the retry scan has read and not submitted; {} between scans
    scanning,    \* the retry scan waits for the loop to resume it
    leaked,      \* keys whose worker was left by an unexpected exception
    fetches,     \* history: how many fetches of each key have been begun
    restarts, escapes   \* bounded counters

memory == <<queue, states, peer_hints, recent>>
locals == <<pc, held, was_due, hinted, found, tried, attempt_no>>
retry  == <<scan, scanning>>
faults == <<leaked, restarts, escapes>>
vars   == <<memory, row, locals, retry, faults, fetches>>

-----------------------------------------------------------------------------
RowStates == {"none", "new", "fetching", "fetch_failed", "complete"}
Row == [state : RowStates, attempts : Nat, next : {"null", "future", "due"}]
NoRow == [state |-> "none", attempts |-> 0, next |-> "null"]

\* An UPDATE of a row.
SetRow(k, state, attempts, next) ==
    row' = [row EXCEPT ![k] = [state |-> state, attempts |-> attempts,
                               next |-> next]]

\* `complete' is the only state the program writes and never leaves; the
\* state `unsupported' is tested for but mark_unsupported has no caller.
Settled == {"complete", "unsupported"}

PCs == {"idle", "upsert", "mark", "hints", "lookup", "peers", "index",
        "persist", "failed", "report", "finish"}
Fetching == {"hints", "lookup", "peers", "index", "persist", "failed", "report"}

TypeOK ==
    /\ queue \in Seq(Keys)
    /\ states \subseteq Keys
    /\ peer_hints \in [Keys -> SUBSET Peers]
    /\ recent \subseteq Keys
    /\ row \in [Keys -> Row]
    /\ pc \in [Workers -> PCs]
    /\ held \in [Workers -> Keys \cup {NoKey}]
    /\ \A w \in Workers : held[w] = NoKey <=> pc[w] = "idle"
    /\ was_due \in [Workers -> BOOLEAN]
    /\ hinted \in [Workers -> SUBSET Peers]
    /\ found \in [Workers -> SUBSET Peers]
    /\ tried \in [Workers -> SUBSET Peers]
    /\ attempt_no \in [Workers -> Nat]
    /\ scan \subseteq Keys
    /\ scanning \in BOOLEAN
    /\ leaked \subseteq Keys
    /\ fetches \in [Keys -> Nat]
    /\ restarts \in 0..MaxRestarts
    /\ escapes \in 0..MaxEscapes

Init ==
    /\ queue = <<>> /\ states = {} /\ recent = {}
    /\ peer_hints = [k \in Keys |-> {}]
    /\ row = [k \in Keys |-> NoRow]
    /\ pc = [w \in Workers |-> "idle"]
    /\ held = [w \in Workers |-> NoKey]
    /\ was_due = [w \in Workers |-> FALSE]
    /\ hinted = [w \in Workers |-> {}]
    /\ found = [w \in Workers |-> {}]
    /\ tried = [w \in Workers |-> {}]
    /\ attempt_no = [w \in Workers |-> 0]
    /\ scan = {} /\ scanning = FALSE
    /\ leaked = {} /\ restarts = 0 /\ escapes = 0
    /\ fetches = [k \in Keys |-> 0]

-----------------------------------------------------------------------------
(* CandidateManager *)

\* _prune_recent: expired entries go, and as many more as the cache is over
\* its size; the age order is abstracted to any choice.
Pruned(keys) == {kept \in SUBSET keys : Cardinality(kept) <= RecentSize}

\* The merge of a hint into a reserved candidate: duplicates and hints over
\* the limit are dropped.
Merged(hints, hint) ==
    IF hint = NoHint \/ Cardinality(hints) >= MaxHints THEN hints
                                                       ELSE hints \cup {hint}

\* submit() from the DHT handlers: a get_peers query or a BEP-51 sample
\* (no hint) or a valid announce_peer (with a hint).
SubmitReserved(k, hint) ==
    /\ k \in states
    /\ recent' \in Pruned(recent)
    /\ peer_hints' = [peer_hints EXCEPT ![k] = Merged(@, hint)]
    /\ UNCHANGED <<queue, states, row, locals, retry, faults, fetches>>

\* Mutated form: the key is queued before it is reserved.
SubmitFresh_Unreserved(k, hint) ==
    /\ k \notin states
    /\ recent' \in Pruned(recent)
    /\ k \notin recent'
    /\ Len(queue) < QueueSize
    /\ queue' = Append(queue, k)
    /\ UNCHANGED <<states, peer_hints, row, locals, retry, faults, fetches>>

\* A key that is neither reserved nor recent is reserved and queued; when the
\* queue is full the reservation is rolled back.
SubmitFresh(k, hint) ==
    /\ k \notin states
    /\ recent' \in Pruned(recent)
    /\ k \notin recent'
    /\ Len(queue) < QueueSize
    /\ states' = states \cup {k}
    /\ queue' = Append(queue, k)
    /\ peer_hints' = [peer_hints EXCEPT
                        ![k] = IF hint = NoHint THEN {} ELSE {hint}]
    /\ UNCHANGED <<row, locals, retry, faults, fetches>>

\* submit() returns False: the key is recent, or the queue is full.
SubmitRefused(k) ==
    /\ k \notin states
    /\ recent' \in Pruned(recent)
    /\ k \in recent' \/ Len(queue) >= QueueSize
    /\ UNCHANGED <<queue, states, peer_hints, row, locals, retry, faults, fetches>>

Submit(k, hint) ==
    \/ SubmitReserved(k, hint)
    \/ SubmitFresh(k, hint)
    \/ SubmitRefused(k)

\* Mutated form: the key becomes recent and stays reserved.
FinishKey_KeepsReservation(k) ==
    /\ UNCHANGED <<states, peer_hints>>
    /\ \E kept \in Pruned(recent \cup {k}) : k \in kept /\ recent' = kept

\* finish(): the reservation goes, with the hints merged into it.
FinishKey(k) ==
    /\ states' = states \ {k}
    /\ peer_hints' = [peer_hints EXCEPT ![k] = {}]
    /\ \E kept \in Pruned(recent \cup {k}) : k \in kept /\ recent' = kept

-----------------------------------------------------------------------------
(* torrent_worker and _process_candidate *)

Goto(w, label) == pc' = [pc EXCEPT ![w] = label]

\* Back to the top of the worker loop: the locals of the call are gone.
Idle(w) ==
    /\ Goto(w, "idle")
    /\ held' = [held EXCEPT ![w] = NoKey]
    /\ was_due' = [was_due EXCEPT ![w] = FALSE]
    /\ hinted' = [hinted EXCEPT ![w] = {}]
    /\ found' = [found EXCEPT ![w] = {}]
    /\ tried' = [tried EXCEPT ![w] = {}]
    /\ attempt_no' = [attempt_no EXCEPT ![w] = 0]

\* hash_queue.get(), and the reading of now_ns.
Take(w) ==
    /\ pc[w] = "idle"
    /\ queue # <<>>
    /\ held' = [held EXCEPT ![w] = Head(queue)]
    /\ was_due' = [was_due EXCEPT ![w] = row[Head(queue)].next = "due"]
    /\ queue' = Tail(queue)
    /\ Goto(w, "upsert")
    /\ UNCHANGED <<states, peer_hints, recent, row, hinted, found, tried,
                   attempt_no, retry, faults, fetches>>

\* Mutated form: the time of the next attempt is not looked at.
Skip_IgnoresTime(w, r) == r.state \in Settled

\* upsert_candidate_seen, and the early returns that its result decides.
Skip(w, r) ==
    \/ r.state \in Settled
    \/ r.state = "fetch_failed" /\ ~ was_due[w]

Upsert(w) ==
    LET k == held[w]
        seen == IF row[k].state = "none" THEN "new" ELSE row[k].state
    IN  /\ pc[w] = "upsert"
        /\ SetRow(k, seen, row[k].attempts, row[k].next)
        /\ Goto(w, IF Skip(w, row[k]) THEN "finish" ELSE "mark")
        /\ UNCHANGED <<memory, held, was_due, hinted, found, tried, attempt_no,
                       retry, faults, fetches>>

\* mark_fetching updates the row unless it is settled; then the worker copies
\* the hints merged so far.  _run() executes it once, or, when a database error
\* follows the commit, up to DB_REOPEN_RETRY_COUNT times more, and each
\* execution counts an attempt.
MarkFetching(w) ==
    LET k == held[w] IN
    /\ pc[w] = "mark"
    /\ IF row[k].state \in Settled
       THEN Goto(w, "finish") /\ UNCHANGED <<row, hinted, fetches>>
       ELSE /\ \E n \in 1..(Retries + 1) :
                  SetRow(k, "fetching", row[k].attempts + n, "null")
            /\ fetches' = [fetches EXCEPT ![k] = @ + 1]
            /\ hinted' = [hinted EXCEPT ![w] = peer_hints[k]]
            /\ Goto(w, "hints")
    /\ UNCHANGED <<memory, held, was_due, found, tried, attempt_no, retry, faults>>

\* One metadata fetch from endpoint p: the raw info, or a PeerError.
Attempt(w, p, label) ==
    /\ tried' = [tried EXCEPT ![w] = @ \cup {p}]
    /\ hinted' = [hinted EXCEPT ![w] = @ \ {p}]
    /\ found' = [found EXCEPT ![w] = @ \ {p}]
    /\ \/ Goto(w, "index")
       \/ Goto(w, label)
    /\ UNCHANGED <<memory, row, held, was_due, attempt_no, retry, faults, fetches>>

TryHint(w) ==
    /\ pc[w] = "hints"
    /\ \E p \in hinted[w] : Attempt(w, p, "hints")

HintsDone(w) ==
    /\ pc[w] = "hints"
    /\ hinted[w] = {}
    /\ Goto(w, "lookup")
    /\ UNCHANGED <<memory, row, held, was_due, hinted, found, tried, attempt_no,
                   retry, faults, fetches>>

\* iterative_get_peers returns some peers, or raises and leaves none; then the
\* hints merged in the meantime are read again and go first.
Lookup(w) ==
    /\ pc[w] = "lookup"
    /\ hinted' = [hinted EXCEPT ![w] = peer_hints[held[w]] \ tried[w]]
    /\ \E peers \in SUBSET Peers :
          found' = [found EXCEPT ![w] = peers \ (tried[w] \cup hinted'[w])]
    /\ Goto(w, "peers")
    /\ UNCHANGED <<memory, row, held, was_due, tried, attempt_no, retry, faults, fetches>>

NextPeers(w) == IF hinted[w] # {} THEN hinted[w] ELSE found[w]

TryPeer(w) ==
    /\ pc[w] = "peers"
    /\ Cardinality(tried[w]) < MaxTries
    /\ \E p \in NextPeers(w) : Attempt(w, p, "peers")

PeersDone(w) ==
    /\ pc[w] = "peers"
    /\ NextPeers(w) = {} \/ Cardinality(tried[w]) >= MaxTries
    /\ Goto(w, "failed")
    /\ UNCHANGED <<memory, row, held, was_due, hinted, found, tried, attempt_no,
                   retry, faults, fetches>>

\* parse_validated_info accepts the metadata, or raises IndexingError.
Index(w) ==
    /\ pc[w] = "index"
    /\ \/ Goto(w, "persist")
       \/ Goto(w, "failed")
    /\ UNCHANGED <<memory, row, held, was_due, hinted, found, tried, attempt_no,
                   retry, faults, fetches>>

\* persist_torrent: one transaction, whose last statement completes the row.
Persist(w) ==
    /\ pc[w] = "persist"
    /\ SetRow(held[w], "complete", row[held[w]].attempts, "null")
    /\ Goto(w, "finish")
    /\ UNCHANGED <<memory, held, was_due, hinted, found, tried, attempt_no,
                   retry, faults, fetches>>

\* candidate_state: the attempts are read back from the row.
ReadAttempts(w) ==
    /\ pc[w] = "failed"
    /\ attempt_no' = [attempt_no EXCEPT ![w] = row[held[w]].attempts]
    /\ Goto(w, "report")
    /\ UNCHANGED <<memory, row, held, was_due, hinted, found, tried, retry, faults, fetches>>

\* Mutated form: one attempt more than FETCH_RETRY_MAX_ATTEMPTS.
MarkFailed_OffByOne(w) ==
    LET k == held[w]
        retryAt == IF attempt_no[w] > MaxFetches THEN "null" ELSE "future"
    IN  /\ pc[w] = "report"
        /\ SetRow(k, "fetch_failed", row[k].attempts, retryAt)
        /\ Goto(w, "finish")
        /\ UNCHANGED <<memory, held, was_due, hinted, found, tried, attempt_no,
                       retry, faults, fetches>>

\* mark_fetch_failed: a time for the next attempt, or NULL after the last one.
MarkFailed(w) ==
    LET k == held[w]
        retryAt == IF attempt_no[w] >= MaxFetches THEN "null" ELSE "future"
    IN  /\ pc[w] = "report"
        /\ IF row[k].state = "complete" THEN UNCHANGED row
           ELSE SetRow(k, "fetch_failed", row[k].attempts, retryAt)
        /\ Goto(w, "finish")
        /\ UNCHANGED <<memory, held, was_due, hinted, found, tried, attempt_no,
                       retry, faults, fetches>>

\* The worker resumes after its last database call: candidates.finish(key).
Finish(w) ==
    /\ pc[w] = "finish"
    /\ FinishKey(held[w])
    /\ Idle(w)
    /\ UNCHANGED <<queue, row, retry, faults, fetches>>

\* An exception that is not a PeerError leaves _process_candidate during a
\* fetch or the persisting (which rolls back): torrent_worker logs it and takes
\* the next key; candidates.finish is not called.
Escape(w) ==
    /\ pc[w] \in {"hints", "peers", "persist"}
    /\ escapes < MaxEscapes
    /\ escapes' = escapes + 1
    /\ leaked' = leaked \cup {held[w]}
    /\ Idle(w)
    /\ UNCHANGED <<memory, row, retry, restarts, fetches>>

-----------------------------------------------------------------------------
(* retry_scheduler, time and restarts *)

Due == {k \in Keys : row[k].state = "fetch_failed" /\ row[k].next = "due"}

\* due_candidates: at most ScanBatch rows (the earliest; abstracted to any).
ScanRead ==
    /\ ~ scanning
    /\ \E keys \in SUBSET Due :
          /\ keys = Due \/ Cardinality(keys) = ScanBatch
          /\ Cardinality(keys) <= ScanBatch
          /\ scan' = keys
    /\ scanning' = TRUE
    /\ UNCHANGED <<memory, row, locals, faults, fetches>>

\* The sequences of n different members of a set.
Arrangements(S, n) ==
    {s \in [1..n -> S] : \A i, j \in 1..n : s[i] = s[j] => i = j}

\* Mutated form: the retry scan respects the cache of recent keys.
ScanSubmit_AsksRecent ==
    LET fresh == scan \ (states \cup recent)
        room == QueueSize - Len(queue)
        n == IF Cardinality(fresh) < room THEN Cardinality(fresh) ELSE room
    IN  /\ scanning
        /\ \E s \in Arrangements(fresh, n) :
              /\ queue' = queue \o s
              /\ states' = states \cup {s[i] : i \in 1..n}
        /\ scan' = {} /\ scanning' = FALSE
        /\ UNCHANGED <<peer_hints, recent, row, locals, faults, fetches>>

\* submit(key, retry=True) for each key read, with no await in between: the
\* cache of recent keys is not asked, reserved keys are merged, and the others
\* are queued until the queue is full.
ScanSubmit ==
    LET fresh == scan \ states
        room == QueueSize - Len(queue)
        n == IF Cardinality(fresh) < room THEN Cardinality(fresh) ELSE room
    IN  /\ scanning
        /\ \E s \in Arrangements(fresh, n) :
              /\ queue' = queue \o s
              /\ states' = states \cup {s[i] : i \in 1..n}
        /\ recent' \in IF scan = {} THEN {recent} ELSE Pruned(recent)
        /\ scan' = {} /\ scanning' = FALSE
        /\ UNCHANGED <<peer_hints, row, locals, faults, fetches>>

\* The wall clock passes next_attempt_at.
BecomeDue(k) ==
    /\ row[k].next = "future"
    /\ SetRow(k, row[k].state, row[k].attempts, "due")
    /\ UNCHANGED <<memory, locals, retry, faults, fetches>>

\* Mutated form: interrupted rows are left as they are.
Recovered_Forgotten(r) == r

\* The process stops, by a crash or by its shutdown, and starts again: only the
\* database is left, and _connect(recover_interrupted=True) makes the rows that
\* were being fetched due at once.
Recovered(r) ==
    IF r.state # "fetching" THEN r
    ELSE [state |-> "fetch_failed", attempts |-> r.attempts,
          next |-> IF r.next = "null" THEN "due" ELSE r.next]

Restart ==
    /\ restarts < MaxRestarts
    /\ restarts' = restarts + 1
    /\ row' = [k \in Keys |-> Recovered(row[k])]
    /\ queue' = <<>> /\ states' = {} /\ recent' = {}
    /\ peer_hints' = [k \in Keys |-> {}]
    /\ pc' = [w \in Workers |-> "idle"]
    /\ held' = [w \in Workers |-> NoKey]
    /\ was_due' = [w \in Workers |-> FALSE]
    /\ hinted' = [w \in Workers |-> {}]
    /\ found' = [w \in Workers |-> {}]
    /\ tried' = [w \in Workers |-> {}]
    /\ attempt_no' = [w \in Workers |-> 0]
    /\ scan' = {} /\ scanning' = FALSE
    /\ leaked' = {}
    /\ UNCHANGED <<escapes, fetches>>

-----------------------------------------------------------------------------
WorkerStep(w) ==
    \/ Take(w) \/ Upsert(w) \/ MarkFetching(w) \/ TryHint(w) \/ HintsDone(w)
    \/ Lookup(w) \/ TryPeer(w) \/ PeersDone(w) \/ Index(w) \/ Persist(w)
    \/ ReadAttempts(w) \/ MarkFailed(w) \/ Finish(w)

Discover == \E k \in Keys, hint \in Peers \cup {NoHint} : Submit(k, hint)

Next ==
    \/ Discover
    \/ \E w \in Workers : WorkerStep(w)
    \/ \E w \in Workers : Escape(w)
    \/ ScanRead
    \/ ScanSubmit
    \/ \E k \in Keys : BecomeDue(k)
    \/ Restart

Spec == Init /\ [][Next]_vars

\* The event loop runs every ready task and the SQLite thread every queued
\* operation; a fetch ends at its session deadline; the clock advances.
Fairness ==
    /\ \A w \in Workers : WF_vars(WorkerStep(w))
    /\ WF_vars(ScanRead) /\ WF_vars(ScanSubmit)
    /\ \A k \in Keys : WF_vars(BecomeDue(k))

FairSpec == Spec /\ Fairness

-----------------------------------------------------------------------------
(* Properties *)

Queued == {queue[i] : i \in 1..Len(queue)}
InHand == {held[w] : w \in Workers} \ {NoKey}

\* A key has at most one owner: it stands once in the queue or is held by one
\* worker, never both, however discoveries, retry scans and workers interleave
\* (the reservation made before put_nowait and dropped by finish()).
OneOwner ==
    /\ \A i, j \in 1..Len(queue) : queue[i] = queue[j] => i = j
    /\ \A v, w \in Workers : held[v] = held[w] /\ held[v] # NoKey => v = w
    /\ Queued \cap InHand = {}

\* Every reservation has an owner that will release it: a reserved key is
\* queued or in hand, unless an unexpected exception left it behind.
ReservationsOwned == states = Queued \cup InHand \cup leaked

\* A row is `fetching' exactly while a worker that holds the key is between
\* mark_fetching and its last database call, or that worker was left by an
\* unexpected exception: no two workers fetch one key, and no row is stranded.
FetchingIsOwned ==
    /\ \A w \in Workers : pc[w] \in Fetching => row[held[w]].state = "fetching"
    /\ \A k \in Keys : row[k].state = "fetching" =>
          \/ k \in leaked
          \/ \E w \in Workers : pc[w] \in Fetching /\ held[w] = k

\* Fetches of a key, those that crashes interrupt included, are bounded by
\* FETCH_RETRY_MAX_ATTEMPTS, plus one for each restart (the recovery makes an
\* interrupted last attempt due again).  The durable counter is not their number:
\* a repeated mark_fetching counts again, so that attempts may be used up early,
\* but no fetch is left out and none counts more often than _run() executes it;
\* and a failed row has no next attempt only when its attempts are used up.
AttemptsBounded ==
    \A k \in Keys :
        /\ fetches[k] <= MaxFetches + restarts
        /\ row[k].attempts \in fetches[k]..(fetches[k] * (Retries + 1))
        /\ row[k].state = "fetch_failed" /\ row[k].next = "null"
              => row[k].attempts >= MaxFetches

\* The durable record implements its life cycle: no discovery, stale queue
\* entry, late retry scan or restart starts a fetch that is not new or due, and
\* none touches a complete or exhausted row.
Lifecycle == INSTANCE CandidateLifecycle
DurableLifecycle == Lifecycle!Spec

\* A complete row and an exhausted row (no next attempt) never change again,
\* in spite of discoveries of the same key and of restarts.  It follows from
\* DurableLifecycle and is proved with it.
SettledIsFinal ==
    [][\A k \in Keys :
         row[k].state = "complete"
           \/ (row[k].state = "fetch_failed" /\ row[k].next = "null")
         => row'[k] = row[k]]_vars

\* Every reservation ends: a reserved key is released, unless an unexpected
\* exception leaves it behind.  Discoveries may go on for ever.
ReservationsEnd ==
    \A k \in Keys : k \in states ~> (k \notin states \/ k \in leaked)

\* A key whose fetch has started is fetched or given up after its attempts, in
\* spite of restarts, once new discoveries no longer fill the queue.
Given(k) == row[k].state = "complete"
            \/ (row[k].state = "fetch_failed" /\ row[k].next = "null")
FetchesSettle ==
    <>[][~ Discover]_vars =>
        \A k \in Keys : row[k].state = "fetching" ~> (Given(k) \/ k \in leaked)

\* CandidateManager: `Bounded in-memory merge/dedupe state feeding the fixed
\* torrent queue': the queue and the workers bound the reservations.
StatesBounded == Cardinality(states) <= QueueSize + Cardinality(Workers)
=============================================================================
