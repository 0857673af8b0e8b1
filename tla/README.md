# pyDHT: TLA+ models, model checking and proofs

pyDHT is a sensor for the BitTorrent Mainline DHT: one asyncio process that
listens to DHT traffic, looks up the peers of the info hashes it sees, fetches
their metadata, and keeps what it learns in SQLite and in JSONL files.  This
directory holds TLA+ specifications of its core, the TLC configurations that
check them on small instances, and proofs, checked by TLAPS, that hold for every
value of the constants.

    tlc -config CandidatePipeline_safety.cfg MCCandidatePipeline   # a run
    tlapm CandidatePipelineProofs.tla                              # a proof

Paths and line numbers below are those of the repository (`src/main.py`,
`src/includes/dht.py`, ...).

## 1. The system

### 1.1 Components

| Component | State it keeps | Operations | Talks to |
|---|---|---|---|
| **Candidate pipeline**: `CandidateManager` (dht.py), `torrent_worker`, `_process_candidate`, `retry_scheduler` (main.py), table `torrent_candidates` (storage.py) | the bounded queue of keys, the reservations with their peer hints, the cache of recent keys, one durable row per key | `submit`, `finish`, the worker's sequence of database calls, fetches and lookup, the retry scan, the recovery at start | called by the DHT handlers; calls the SQLite worker, lookups, peer sessions |
| **Routing table**: `Contact`, `Bucket`, `RoutingTable` (dht.py) | buckets with contacts and replacement caches | `observe`, `_split`, `mark_failure`, `closest`, snapshot, restore | fed by every datagram and query timeout |
| **SQLite worker**: `DatabaseWorker` (storage.py), `fatal_monitor` (main.py) | FIFO of operations, semaphore of slots, connection, fatal error | `call`, the thread's loop with reopening and retries, `close` | awaited by workers and schedulers; a thread of its own |
| **Evidence writer**: `JSONLWriter` (storage.py) | FIFO of events and requests, the file, the routing snapshot, fatal error | `emit`, `snapshot`, `flush`, `close`, the thread's loop | everybody emits; the shutdown makes requests; a thread of its own |
| **Peer session**: `PeerClient` (peer.py) | handshake stage, pieces, outstanding requests | BEP-10 handshake, BEP-9 download, deadlines, closing | awaited by a torrent worker; a remote peer |
| **Tokens**: `TokenManager` (dht.py) | two secrets with their ages | `issue`, `validate`, rotation when either is called | the incoming `get_peers` and `announce_peer` |
| **KRPC queries**: `DHTNode.query`, `handle_datagram`, `TokenBucket` (dht.py) | pending queries by transaction ID, slots, rate tokens | query, response, error, timeout | routing table, lookups |
| **Lookups and maintenance**: `iterative_get_peers`, `bootstrap`, `maintenance_once`, `bep51_once` (dht.py) | frontier of a lookup, per-node BEP-51 state | rounds of parallel queries | KRPC, routing table, candidates |
| **Peer store**: `PeerStore` (dht.py) | announced peers, LRU by info hash, TTL | `add`, `get`, `_prune` | incoming queries |
| **Notifications**: `notification_scheduler`, `send_once` (main.py, communications.py) | table `notifications` | scan, send, record the result | SQLite worker, HTTP |
| **Index and keywords** (indexer.py, monitoring.py), **bencode** (bencode.py), **configuration** (config.py, debug.py) | none | pure functions | |
| **Start and shutdown**: `async_main` (main.py) | the event `stopping` | the order in which all the above are started and stopped | everything |

### 1.2 Concurrency, failure, time

All tasks share one event loop: the code between two `await`s runs alone, and
everything else may happen at an `await`.  Two threads, the SQLite worker and the
JSONL writer, run beside the loop and share queues, futures and a few flags with
it.  What makes this code hard to test:

* state read before an `await` and used after it: the retry scan's keys, the
  copied peer hints, the attempt count, the endpoint a failed query went to;
* ownership passed from task to task by two structures (queue and reservations)
  that have to agree at every `await`, on every exit and every exception;
* crashes: only the database, the JSONL files and the routing snapshot survive,
  at whatever point the process has reached;
* a thread that fails while tasks of the loop wait for it, and a shutdown that
  must still end;
* remote nodes and peers that send anything, in any order, or nothing at all;
* clocks: deadlines that race answers and cancellations, rotations that are
  noticed late.

The hazards are listed one by one, each at its line, in `PROJECT.json`, with the
properties that would catch them.

## 2. What is modelled

An action is the code between two `await`s (or, in a thread, between two effects
that the loop can see).  The map in `PROJECT.json` gives the lines of every
definition.  Definitions introduced by "Mutated form" are plausible bugs of the
definition after them; no specification uses them.  They serve to show that each
property can fail: with the mutated form in its place TLC finds the property
violated.

### 2.1 CandidatePipeline, CandidateLifecycle

`CandidatePipeline` models the way of a key from its discovery to a complete or
exhausted row.  `queue`, `states`, `peer_hints` and `recent` are the
`CandidateManager`; `row` is the candidate table; `pc`, `held`, `hinted`,
`found`, `tried`, `attempt_no` are the locals of each worker's call of
`_process_candidate`; `scan` holds the keys that the retry scan has read and not
yet submitted.

| Action | Code |
|---|---|
| `Submit` | `CandidateManager.submit` as the DHT handlers call it: merge, reserve and queue, or refuse |
| `Take`, `Upsert`, `MarkFetching` | the worker's `get`, its first two database calls, and the early returns |
| `TryHint`, `HintsDone`, `Lookup`, `TryPeer`, `PeersDone` | the fetches from the hints, the DHT lookup with the second reading of the hints, the fetches from the peers |
| `Index`, `Persist`, `ReadAttempts`, `MarkFailed`, `Finish` | success or failure, and `finish` |
| `Escape` | an exception that is no `PeerError` leaves `_process_candidate` |
| `ScanRead`, `ScanSubmit`, `BecomeDue` | `retry_scheduler` and the clock |
| `Restart` | a crash or a shutdown at any point, and the recovery in `_connect` |

`CandidateLifecycle` is the abstract specification: what the crawler promises of
the rows alone, with no queue, worker or scan.  `DurableLifecycle` says that the
pipeline implements it, with the identity on `row` as its refinement mapping.

Abstractions: a time is null, in the future or due; of a lookup only the set of
its peers is kept, any set; the order in which hints, peers and due rows are
taken is any order, and so is the age order of the recent cache; the
`implied_port` flag of a hint is dropped; `MaxTries` stands for the smaller of
the two limits on endpoints; unexpected exceptions come out of the fetches and
of the persisting, the two large bodies of code.  The state `unsupported` is
tested for but never written, as `mark_unsupported` has no caller.  The SQLite
worker may execute an operation again after a database error that followed its
commit, up to `Retries` times: `MarkFetching` counts an attempt for each
execution, and so does the life cycle's `Start`; the other operations of the
pipeline leave the same row however often they are executed.  Operations that
fail belong to `DatabaseWorker`.  `fetches` is a history variable, the number of
fetches of a key that have been begun, which the code does not keep.

### 2.2 RoutingTable

The buckets with their contacts and replacements; `Hear` (a response to us, a
query or a mention), `MarkFailure`, `Age` (the clock), `Restart` with a snapshot
or without, `RestoreContact`.  `responded` is a history variable: who, of
the nodes in the table, has answered this process from where.  Times are within the limits or not, failures
are counted up to the number that makes a contact BAD.  `MarkFailure` may hit any
known node at any moment, because it is called with the ID that a contact had
when the query was sent.

The maintenance of the table (`maintenance_once`, `bootstrap`, `ping`) adds no
new steps, only the certainty that some happen: `Bootstrapped` is a `Hear` of a
bootstrap node while `closest(..., good_only=True)` finds nobody (`Lost`),
`Pinged` the answer or the failure of one of the first `DHT_K` questionable
contacts (`Due`).  `last_changed` and the refresh of stale buckets are left out;
their `find_node` is one more source of mentions.

### 2.3 DatabaseWorker

The tasks that call the worker, the semaphore, the queue, the thread and the part
of the shutdown that concerns them.  The thread's answer goes through
`call_soon_threadsafe`, so that posting (`Posted`) and delivery (`Delivered`) are
different steps and a cancellation can come in between.  `Succeeds`,
`OperationFails`, `TooLarge`, `Reopen` and `GiveUp` are the ways in which an
operation can end; the last three may happen before the operation or after its
commit.  An operation is abstracted to how often it has been committed.

### 2.4 JSONLWriter

The queue of events and requests, the writer thread with its recoveries, the
snapshot file with its temporary file, and the shutdown sequence of
`async_main` (snapshot, flush, close with the final flush, the sentinel and the
join).  `CheckFatal` and `PutRequest` are separate steps because of the `await`
between them.  `env` says what may go wrong in a run (writes, flushes,
snapshots, the process); it is chosen in `Init` out of `Environments`, so that
one run covers several environments and a property can say what it needs.
The files of the rotation are one file, the contents of the snapshot is old, new
or torn.

### 2.5 MetadataDownload

One session of `PeerClient`: the stages, the request pipeline, every kind of
metadata message, stage timeouts, the session deadline, the cancellation of the
worker, and the `finally` clause with `wait_closed()`.  `env` says what may go
wrong, from nothing (an honest peer on a sound network) to a peer that sends
anything or stops reading.  Frames that change nothing are stuttering steps; a
piece is right or wrong, and SHA-1 tells the two apart.  The timeouts are those
of `asyncio.timeout` and `wait_for` in Python 3.12, the version the repository
requires.  The semaphore of the connections and the evidence records are not
modelled.

### 2.6 TokenManager

Rotation, `issue` and `validate` over a running clock.  A token is the secret it
is derived from (SHA-1 is taken to be injective); `issued` is a history variable.

### 2.7 Krpc, Exchange

Each call of `DHTNode.query` is a task with its place in the code (`rate`,
`slot`, `woken`, `sent`).  `Acquire` is the token bucket with its priorities,
`Grant`/`Queue`/`Resume` the semaphore `pending_slots`, `Transmit` the choice of
a transaction ID and the sending; `Expire`, `Cancel...` and `Finish` are the timer,
the cancellation and the `finally` clause.  `Receive` is `handle_datagram` for a
response or an error, `CloseIngress` the shutdown.  The timer of `wait_for`
cancels the future at once, but the task goes on later: in between the query is
still pending, and a response that arrives then counts for the routing table and
not for the task.

The semaphore is the one of asyncio in Python 3.12: a newcomer queues while
anybody waits or while a task that has been woken has not gone on, even if a slot
is free (`Locked`), and a task that goes on wakes as many waiters as there are
slots left (`Wakes`, `Left`).  Which of the waiters are woken is any choice.

`Arriving` says what may come: honest endpoints answer what they were asked,
late, twice, or never; faulty ones send any combination of transaction ID, node
ID and kind.  An answer does not outlive the reuse of its transaction ID, which
in the program comes 2^16 queries later (the instance has two IDs).  Tokens are
whole; the rate at which they come back is the clock's (`Refill`).

`Exchange` is the abstract specification: what the lookups and the maintenance
may rely on, with no IDs, timers or semaphores.  The refinement mapping takes
the place of a task to one of four phases, and a query counts as heard when its
future has been set by a datagram.

### 2.8 Notifications, Outbox

The table `notifications`, `notification_scheduler` with its batches, `send_once`
with every way in which it can end, and `mark_notification_result`.  The request
and its result are two steps, with the arrival of the message (`delivered`, a
history variable) in the first; a stop may come in between.  The index of the
Telegram address is shared by all rows.  `env` says what may go wrong: the
network, truncated answers, the database, the repetition of an operation by the
SQLite worker (up to `Retries` times), stops.  The text of messages, the delays of the retries and the
order of due rows are abstracted.

`Outbox` is the abstract specification: a message is delivered only while it is
pending, `sent` only after a delivery, `failed` only when its attempts are used
up, both final.  The database may count an attempt more than once there, too.

### 2.9 PeerStore

The two nested ordered dictionaries over a running clock: `AnnouncePeer` (with a
valid token), `GetPeers`, `SampleInfohashes` with the cached samples.  An
`OrderedDict` is its keys and the relation between an older and a newer one
(`Ordered`); setting a key and moving it to the end is `WithLast`,
`popitem(last=False)` for want of room is `WithoutOldest`, and `_prune` takes the
part with the keys that are alive (`Only`).  The times of the announcements are
kept in `seen` also when the peer is gone, as a history.  Every operation prunes
first.  Tokens are `TokenManager`'s.

### 2.10 Searches

One call of `iterative_get_peers` or of `bep51_once`.  Nodes are numbered by
their distance from the target, so that `closest` and the sorting by distance
are the order of the numbers.  `StartRound` sends the parallel queries,
`QueryEnds` ends them one by one, `EndRound` works the answers through when
`gather` returns, and adds the peers of one answer after the other (`Collected`).
`Visit`, `Heed`, `Fail` are the loop of `bep51_once`.  Which
nodes and peers are named is any set.  `Move`: a contact moves to another
endpoint while it is being asked (`RoutingTable!Refreshed`).  Queries are those
of `Krpc`, of which only that they end is used.

### 2.11 Modules

    CandidateLifecycle            abstract life cycle of a row
      CandidatePipeline           implements it; CandidatePipelineProofs
        MCCandidatePipeline       model values, symmetry
    Exchange                      what query() promises
      Krpc                        implements it; KrpcProofs; MCKrpc
    Outbox                        what the notifications promise
      Notifications               implements it; NotificationsProofs
    RoutingTable                  MCRoutingTable; RoutingTableProofs
    DatabaseWorker                MCDatabaseWorker; DatabaseWorkerProofs
    JSONLWriter                   JSONLWriterProofs
    MetadataDownload              MetadataDownloadProofs
    Searches                      MCSearches
    PeerStore                     MCPeerStore
    TokenManager
      DHTNodeProofs               about these three

`DHTNodeProofs` extends three modules at once; the names of `PeerStore` and
`TokenManager` that every module has (`StoreInit`, `TokenNext`) say which is
which.

How they fit together: `Searches` assumes of its queries what `Krpc` checks in
`QueriesEnd`; `Krpc!verified` is where `RoutingTable!Hear` of a response comes
from, and its timeouts are `MarkFailure`; `CandidatePipeline!Lookup` takes any
set of peers, as `Searches` may return any; `CandidatePipeline!Attempt` ends as
`MetadataDownload` does; every database step of the pipeline and of the
notifications is a call of `DatabaseWorker`, whose repetitions (`Reopen` after a
commit) are the `Retries` of `CandidatePipeline!MarkFetching` and, in the
environments with `redo`, of `Notifications!Mark` and `MarkFails`;
`CandidatePipeline!Persist` makes the row that `Notifications!Persist` starts
with.  They are not composed into one state machine, because the product of any
two of them is beyond TLC; `DurableLifecycle` and the two `ContractKept` say what
each one may be taken for.

## 3. What the runs check

### CandidatePipeline

* `CandidatePipeline_safety`: two keys, two workers, one peer, a queue of one,
  a recent cache of one, two fetches per key, one restart, one escaping
  exception, and `mark_fetching` executed up to three times (`Retries` 2).  With
  two keys and two workers every pair of them meets; a queue and a
  cache of one are full at once; two fetches have a first and a last, and three
  executions use up both at the first; a scan
  batch of one leaves a due row behind.  One peer is enough, since a second one
  adds one more fetch at the same places and none of these properties tells peers
  apart.  Keys and workers are
  interchangeable (symmetry; no liveness here).  Checked: `OneOwner` (a key is
  queued once or held by one worker, never both), `FetchingIsOwned` (no row is
  stranded as `fetching`, no two workers fetch one key), `AttemptsBounded` (a key
  is fetched no more often than configured and once more per restart; the
  counter, which a repeated operation raises again, never falls behind the
  fetches, and a key is given up only when the counter says so) and
  `DurableLifecycle`.
* `CandidatePipeline_liveness`: two keys that compete for one worker and a queue
  of one, with a restart and an escape.  `ReservationsEnd` holds for discoveries
  that go on for ever.  `FetchesSettle` needs them to cease: a queue that is
  always full of new keys can keep a due retry out for ever.  An attempt that is
  counted more than once only ends the retries sooner, so that `Retries` is 0 in
  this run and the next.
* `CandidatePipeline_states`: the finding of section 5.

### RoutingTable

* `RoutingTable_table`: four bits, the own ID 0, four other nodes, three of them
  in a half away from it, one of them read-only, one heard from two endpoints;
  buckets of one, BAD after one failure; a shutdown or a crash, and the restart;
  one bootstrap node, which shares its bucket with others.  The local bucket
  splits twice, the far one overflows into its replacement cache, and two nodes
  compete for the one place there.  Buckets of one keep the liveness check
  feasible; for buckets of any size the six safety properties are proved
  (section 4).  `BucketsPartition` (the
  `AssertionError` of `_bucket_for` never fires), `UniqueNodes`,
  `ReplacementsWait`, `GoodIsVerified`, `OnlyBadEvicted`, `RestoreComplete`, and
  `TableRecovers`: a table whose contacts have all gone silent finds a GOOD one
  again.  `UniqueNodes` is not obvious from the code: the promotion of a
  replacement looks for no duplicates.

### DatabaseWorker

* `DatabaseWorker_calls`: a scheduler and two workers, two slots, one reopening.
  Fewer slots than tasks, so that tasks wait for a slot and the sentinel may find
  no room.  `HolderFindsRoom` (a slot is room in the queue, so that `put_nowait`
  never raises), `DrainedOnClose` (the shutdown executes what was queued),
  `CallsReturn` (nobody waits for ever, also after a fatal error) and
  `ShutdownEnds`.  The end of the process is a deadlock by design.

### JSONLWriter

* `JSONLWriter_events`: a queue of two and four events, so that a request finds
  the queue full, and three environments: the snapshot may fail; the process may
  crash, too; everything but the process may fail.  `NothingLost` (an
  acknowledged flush has written every event accepted before it, and no event
  slips in behind the sentinel), `SnapshotWhole`, `ShutdownEnds`,
  `QueuedWaitersFail`.

### MetadataDownload

* `MetadataDownload_any`: five pieces, a pipeline of three, a `reqq` that is
  absent, smaller, or greater than the pipeline.  Five pieces do not fit the
  first pipeline and leave a remainder.  Three environments: an honest peer; one
  that sends anything, with timeouts, a broken connection and a cancellation; one
  that stops reading.  `CancelNotSwallowed`, `SessionEnds`, `HonestSucceeds`.
  The bookkeeping of the pieces is proved.

### TokenManager

* `TokenManager_tokens`: `Validity = 2 * Rotation`, as in the default
  configuration and the most that `validate_config` admits, over more than four
  rotations, with every pattern of calls and silences.  `TokenExpires`,
  `TokenLives`.

### Krpc

* `Krpc_queries`: three queries of the three priorities, two of them to an honest
  endpoint (one with an expected node ID, one without, as in bootstrapping) and
  one to a faulty one; two slots, so that the third waits; two transaction IDs,
  so that the counter wraps and every ID is reused at once; one token.  Every
  order of answers, copies, forgeries, timeouts, cancellations and the shutdown.
  `SlotsMatch` (no exit of `query` loses or doubles a slot or an entry, so that a
  free ID is always found; who waits for a slot waits for one that is taken, or
  behind a task that has been woken and will wake the next), `OnlyTheAsked` (an
  answer belongs to the query that it settles, and only who was asked gains the
  standing of a node that has answered), `ContractKept` (`Exchange`),
  `QueriesEnd`.  With two slots it takes a fourth query to come while a slot is
  free and the woken task has not gone on.  `SlotsMatch` is proved for any number
  of queries; `Krpc_slots.cfg` shows it on that case (four queries that do not
  differ, symmetry; half a million states), beside the runs of `PROJECT.json`.

### Notifications

* `Notifications_send`: three messages and batches of two; two attempts, a first
  and a last, which one repeated operation uses up at once (`Retries` 1; the
  theorems are about any number); a good address behind a bad one; one stop.
  Three environments: a sound network; a bad one with stops and repeated
  operations; exceptions that end the scheduler.  `DuplicatesBounded` (as often as there are attempts, and
  once more per stop), `GoodAddressFound`, `ContractKept` (`Outbox`),
  `NotificationsSettle`.

### PeerStore

* `PeerStore_announced`: three keys for a store of two, two peers for one place,
  a time to live of two and a clock of five, an interval of one, samples of one.
  Every limit is met and left again by expiry.  `NewestKept`, `SamplesRecent`.

### Searches

* `Searches_walks`: eight nodes at two endpoints, one of which may not be asked;
  `DHT_K` 3, rounds of two, a budget of five queries, so that the last round
  exceeds it, one peer, one move.  All initial shortlists, all answers.
  `WalkBounded` (how far the limits, looked at once per round, are exceeded at
  most), `ClosestAsked` (a lookup that is not cut short has asked the closest
  nodes it knows), `HeededOnce` (an endpoint that has named its interval is left
  alone), `SearchEnds`.

### Fairness

* `CandidatePipeline`: weak fairness of each worker's step (the loop runs every
  ready task, every fetch ends at its deadline, the SQLite thread serves its
  queue), of the scan and of the clock.  Discoveries, escapes and restarts are
  never forced.
* `RoutingTable`: the restoring goes on; a maintenance round that finds
  questionable contacts pings them, and one that finds no GOOD contact asks the
  bootstrap nodes (`maintenance_scheduler` runs for ever).  Assumed of the
  network: each bootstrap node answers in the end, and a ping that is repeated is
  answered or times out in the end.
* `DatabaseWorker`: weak fairness of the thread, of delivery, of `fatal_monitor`
  (it polls) and of the shutdown once it has begun; strong fairness of
  `Acquired`, as `asyncio.Semaphore` serves its waiters first come, first served:
  slots that become free again and again reach each of them.  Calls and signals
  are never forced.
* `JSONLWriter`: weak fairness of the thread and of the shutdown task.  A task
  that polls a full queue finds room because the producers have been stopped (the
  model bounds the events).
* `MetadataDownload`: weak fairness of the deadline and of the transport's close
  callback; the peer's moves are fair only in the environment of an honest peer.
* `Krpc`: weak fairness of each task, of its timer and of the clock that refills
  the bucket.  Nothing is assumed of the network.  A task of a low priority gets
  its token only because each query is made once; an endless stream of queries of
  a higher priority could keep it waiting.
* `Notifications`: weak fairness of the scheduler's task and of the clock.
* `Searches`: the loop goes on, and every query ends (`QueriesEnd`).
* `PeerStore` and `TokenManager` have no liveness properties.

### Bounds

`MaxRestarts`, `MaxEscapes` (CandidatePipeline), `MaxRestarts` (RoutingTable,
Notifications), `MaxEvents` (JSONLWriter), `MaxMoves` (Searches), `MaxTime`
(TokenManager) and `MaxNow` (PeerStore) are the only bounds in guards that the
program does not have.  The proofs hold for any value of them.

## 4. What is proved

The theorems are about `Spec`, without fairness, for every value of the
constants that meets the assumptions named in the modules.  These follow
`validate_config` (sizes are positive, a validity is at most two rotations) or
say that the sets of keys, peers, tasks and queries are finite.

**CandidatePipelineProofs.**  `TypeCorrect`; `OneOwnerCorrect`,
`ReservationsOwnedCorrect`, `FetchingIsOwnedCorrect`, `AttemptsBoundedCorrect`;
`DurableLifecycleCorrect`, that the pipeline implements `CandidateLifecycle`; and
`SettledIsFinalCorrect`, which follows.  The inductive invariant has two halves.
`OwnInv` is about memory: the queue has no duplicates, workers hold different
keys, none of which is queued, and `states` is exactly what is queued, held or
leaked.  `OneOwner` alone is not inductive: that a fresh key is not in the queue
is known only because whatever is queued is reserved.  `RowInv` relates every
worker's place in the code with the row of its key (still due if it was due when
the worker read the clock, `new` or due before `mark_fetching`, `fetching` until
the last call, with the attempts that the worker has read back) and counts the
attempts of each row: no fewer than the fetches that were begun, no more than
each of them executed `Retries + 1` times (`CountsOnce`), and as a fetch begins
only below the maximum, or at it after a restart, the fetches are bounded with
them.  It needs `OwnInv`: the row does not change under a worker
because nobody else holds the key.  With both, each step is a step of the life
cycle or leaves `row` as it is; a worker that enters `mark` with an old reading
of the clock still finds the row new or due.

**DatabaseWorkerProofs.**  `TypeCorrect`, `SlotsMatchCorrect`,
`HolderFindsRoomCorrect`, `DrainedOnCloseCorrect` and
`QueueCapacityCorrect`.  The invariant: an operation
is queued at most once and has not begun (`QueuedOnce`), the one being executed
has no answer yet and has been committed at most once per attempt
(`ServingOne`), who awaits has exactly one operation under way
(`AnswersAwaited`), the sentinel comes last (`ShutdownOrder`), and free slots and
awaiting tasks add up to the size (`SlotsHeld`).  Then the queue is an injective
sequence of tasks.  Before the shutdown all of them await, so there are fewer
than the slots taken, and a slot means room (`NobodyCancelled`).
`QueueCapacityCorrect` assumes more slots than tasks, which the default
configuration has (64 slots; 32 workers and 2 schedulers) but `validate_config`
does not ask for; then even the shutdown finds room for its sentinel.  For
`DrainedOnCloseCorrect` a second invariant, `Draining`, follows the sentinel from
the queue into the thread: while it is queued nothing stands behind it, and once
the thread has taken it the queue is empty and stays so.

**MetadataDownloadProofs.**  `TypeCorrect`, `PartitionCorrect`,
`PipelineBoundCorrect`, `KeepsAskingCorrect`, `VerifiedOnlyCorrect`,
`CancelNotSwallowedCorrect`, for any number of pieces and any behaviour of the
peer.  Beside the properties the invariant says that nothing has been asked
before the exchange (`NotBegun`), that the pipeline keeps to the limit
(`WithinLimit`), that the exchange is left with the last piece (`Incomplete`) and
that a cancelled session is being closed or over, and ends as such
(`CancelKept`).  The core is the lemma `Filled` about the intervals that
`fill_pipeline` asks for.

**DHTNodeProofs.**  Three components that share no state.

* `WalkBoundedCorrect`, `ClosestAskedCorrect` and `HeededOnceCorrect`, for any
  finite sets of nodes and peers, any answers and any limits.  A budget that is
  looked at once per round is exceeded by less than a round because the batch of a
  round has at most `Parallelism` nodes, none of them asked before
  (`ClosestFew`, `BatchFacts`), and each answer adds at most one peer beyond the
  limit (`EnoughFew`; over the answers of a round by least counterexample,
  `CollectedFew`).  The invariant says of a round under way that it began within
  the limits (`RoundWithinLimits`, `AskedWithinLimit`).  `HeededOnce` needs to
  know what the code never writes down, that an endpoint that has answered waits,
  unless a contact has moved away from it: the answers of an endpoint are at most
  one for its wait and one per move (`MovesCounted`).
* `NewestKeptCorrect` and `SamplesRecentCorrect`, for any numbers of keys and
  peers and any limits.  `NewestKept` speaks of times, the code of positions in
  two dictionaries, and `OrderIsAge` connects them: whoever stands before another
  was announced no later.  Then the one that `popitem` drops is the oldest, and
  all that remain are newer (`RoomMade`, `OneIsOldest`).  What has been forgotten
  stays displaced because announcements are only replaced by later ones
  (`DisplacedKept`).  For the samples, `SamplesSince`: each cached key was
  announced within the time to live before the cache was drawn.
* `SecretsDatedCorrect`, `TokenExpiresCorrect`, `TokenLivesCorrect`,
  `NoneSurvivesMissedCorrect`.  The first is what the invariant knows of the
  secrets: the two differ, and it says of each token when its secret was drawn
  and replaced, those of forgotten secrets included; the three cases of a
  rotation (none, one, several) are a lemma.

**KrpcProofs.**  `SlotsMatchCorrect`, `OnlyTheAskedCorrect` and
`ContractKeptCorrect`, for any number of queries, endpoints, slots and IDs, as
long as there are no more slots than IDs.  `SlotsMatch` is strengthened by saying
that the pending table is an injection on the queries that are out
(`SlotsCounted`, `Entries`).  `Moved` is the common part of every step that
changes the place of one task and wakes others; that a task which waits while a
slot is free has somebody woken before it rests on `WakesWaiting` and
`SomebodyWoken`: who leaves a slot wakes a waiter if there is one.  From
the counting follows that an ID is free whenever a slot is, and with it that the
`CHOOSE` of `NextTid` is defined: the lemma finds the nearest free ID as a
minimal element, by the well-foundedness of the naturals rather than by
induction.  For `OnlyTheAsked`: a request that may still be answered under an ID
that is in use belongs to the query that uses it (`AskedPending`), so that
whatever sets a future belongs there (`RepliesBelong`, `VerifiedWereAsked`).  The
refinement follows step by step; a cancelled waiter, a granted slot and the
closing each map to one step of `Exchange`.

**JSONLWriterProofs.**  `TypeCorrect`, `NothingLostCorrect` and
`SnapshotWholeCorrect`, for any size of the queue and any number of events.  As
long as no write can fail, the file, the buffer and the queue hold the accepted
events in a row (`Order`): the thread takes the event after the last one written,
and the one request that may be under way stands behind exactly the events that
were accepted when it was queued.  So a flush finds all of them written, and the
sentinel, behind which nothing is accepted any more, finds the queue empty.  That
there is at most one request is `Turns`: the shutdown sequence and the thread
hand it to and fro.  For the snapshot, `SyncedFirst`.

**NotificationsProofs.**  `TypeCorrect`, `DuplicatesBoundedCorrect`,
`ContractKeptCorrect`, `GoodAddressFoundCorrect`.  The invariant: the rows of a batch, and the one being
handled, are pending (`BatchPending`), which is what makes a final row final; the
deliveries of a message are at most its attempts and the stops, with one more
while its result is being recorded (`Counted`); a result `ok` stands for a
delivery (`OkDelivered`).  For `GoodAddressFound`, `Searching`: on a sound network
the address only rises until it is a good one, whatever rows are sent in between,
and the failed attempts of a pending row are no more than the addresses passed
since; as every row looks at the address that all of them share, none can use up
its attempts before a good one is reached.

**RoutingTableProofs.**  `BucketsPartitionCorrect`, `UniqueNodesCorrect`,
`ReplacementsWaitCorrect`, `GoodIsVerifiedCorrect`, `OnlyBadEvictedCorrect` and
`RestoreCompleteCorrect`, for ID spaces, buckets, failure limits and nodes of every size.  The invariant is
`BucketOK` of each bucket and the partition.  None of the first five is inductive
alone:
a promotion keeps nodes unique only because contacts and replacements are
disjoint, which holds because replacements wait only in full buckets without BAD
contacts, which a split keeps only because the local bucket has no replacements;
and a promoted node is not BAD because a replacement never fails (`Fresh`).  That
the loop of `observe` ends is part of it: each split with a contact in it makes
the local bucket narrower (`LocalSplit`), so that there is a number of splits
after which the newcomer's bucket has room or is away from the local ID
(`Splits`, `RoomyOK`).  The recursive function `AfterSplits` is shown to exist,
and the facts about it are shown by least counterexample, over sets (`Induction`).
`RestoreComplete` relates the table of one process with that of the next, when only
the addresses of its contacts are left, in any order.  A second invariant,
`RestInv`, keeps what matters of the old table: the halves around the local ID,
one within the other, form a chain, and between the limits of each half that was
split off there are no more contacts in the snapshot than a bucket holds
(`Chain`, `Sparse`, `SnapshotSparse`).  While contacts are restored the new table
is never split further than this chain (`Coarse`), because a bucket is split only
when one contact more than it holds belongs there, and a bucket of the old table
never had that many (`TooMany`); so there is room for each of them when its turn
comes (`RoomToRestore`).
The assumption `Space \in Nat` stands for what the prover does not know about
powers of two; nothing else is used of `Space`.

Every invariant, action property and refinement that a run checks is also proved.
Only model-checked are the liveness properties (`ReservationsEnd`,
`FetchesSettle`, `TableRecovers`, `CallsReturn`, `QueuedWaitersFail`, the two
`ShutdownEnds`, `SessionEnds`, `HonestSucceeds`, `QueriesEnd`,
`NotificationsSettle`, `SearchEnds`): TLAPS does not reason about fairness and
ENABLED.
No module declares a RECURSIVE operator.

## 5. Findings

One run ends in a counterexample to what the repository says:
`CandidatePipeline_states` violates `StatesBounded`.  `torrent_worker` logs an
unexpected exception and takes the next key without `candidates.finish`
(main.py:47), so that the reservation stays for the life of the process and
`CandidateManager.states` is not bounded by queue and workers, against its
docstring (dht.py:420).  There is a way to such an exception: a `msg_type` that is
a list or a dictionary makes the membership test of `parse_metadata_message`
(peer.py:219) raise `TypeError` (`MetadataDownload!OddHeader`).

Seen while modelling, and covered by the models in the way that each says:

* The hints are read again once, after the lookup; one that is merged while the
  peers are tried is dropped (main.py:107; `CandidatePipeline` models it).
* `flush()` and `snapshot()` look at `_fatal_error` once and then wait for room;
  if the writer fails and empties its queue in between, nobody answers the
  request and the shutdown waits for ever (storage.py:503).  `QueuedWaitersFail`
  and `ShutdownEnds` speak of the other cases.
* `wait_closed()` in the `finally` clause of `_fetch` has no timer left once the
  deadline has fired (peer.py:410): a peer that does not read keeps the session
  open until the shutdown cancels it.  A deadline that fires there throws
  verified metadata away.
* A response of the Telegram server that is shorter than announced raises
  `IncompleteReadError`, which is no `OSError` and no `ValueError`;
  `notification_scheduler` ends silently (communications.py:127, `Truncated`).
  Any database error ends it too, and the retry scheduler as well.  Each read of
  the answer has its own timeout, so that there is no limit on the whole of it,
  although main.py:341 speaks of a hard HTTP timeout.
* A database error after the commit (in the second `_check_size`, or when the
  connection breaks) repeats the whole operation, up to `DB_REOPEN_RETRY_COUNT`
  times, and `attempts=attempts+1` is applied each time (storage.py:207-236;
  `Reopen`, `MarkFetching`, `Mark`).  A key or a message may so be given up after
  fewer fetches or requests than configured, one included.
* `DatabaseWorker.close` raises `queue.Full` when the queue is as short as the
  number of tasks (`shutdown = "failed"`); an error of the final flush leaves
  `JSONLWriter.close` before the sentinel, with the thread running.
* More slots than transaction IDs would let `_next_tid` fail after the slot has
  been taken and lose it (dht.py:589); `validate_config` has no upper bound for
  `DHT_MAX_PENDING_REQUESTS`.
* A node that answers pings with KRPC errors stays questionable without a failure,
  and `questionable[:DHT_K]` always begins with the same contacts: eight of them
  keep all others from being pinged (dht.py:1047).
* Contacts that have answered once and then keep querying as read-only nodes are
  GOOD, are never pinged or removed, and are never used by a lookup: in full
  buckets they keep the bootstrap nodes in the replacement caches.  And an
  endless flow of newcomers pushes the bootstrap nodes out of those caches.
  `TableRecovers` says what it needs of both.
* `bep51_once` reads the endpoint of a contact before and after the await
  (dht.py:1091, 1101), so that the interval of a contact that has moved is
  remembered for the wrong endpoint; the time is counted from the start of the
  call; and the states are pruned after 3600 seconds, although an interval may be
  up to 21600 (dht.py:1099, 1122).

## 6. What is not modelled

* The bencode codec, the metadata index and the keyword search: pure functions
  without state.  The modules take from them what their callers tell apart.
* The configuration and its validation: the assumptions of the modules.
* Formatting of records, logging, SQL details, the sizes of datagrams (the
  trimming of responses to 1024 bytes), the names of rotated files.
* The refresh of stale buckets and `last_changed`; `find_node` of the incoming
  methods, which only reads the table; the pruning of the BEP-51 states between
  two calls; the queue's utilization, of which only the three cases matter.
* The semaphore of the peer connections.
* A composition of the whole shutdown (`async_main`): its parts are in
  `DatabaseWorker`, `JSONLWriter` and `Krpc`, each with what comes before and
  after it.
* Unlimited streams of queries of a higher priority, which may starve lower ones
  in `TokenBucket`; each query of `Krpc` is made once.
