------------------------- MODULE CandidateLifecycle -------------------------
(***************************************************************************)
(* What the crawler promises of the durable record of a DHT key, whatever  *)
(* the order of discoveries, workers, retry scans and restarts: a key is   *)
(* seen once, fetched only when it is new or due, retried until MaxFetches *)
(* attempts are counted (and once more per restart), and left alone for    *)
(* ever once it is complete or exhausted.                                  *)
(***************************************************************************)
EXTENDS Naturals

CONSTANTS
    Keys,
    MaxFetches,   \* FETCH_RETRY_MAX_ATTEMPTS
    Retries       \* DB_REOPEN_RETRY_COUNT

VARIABLE row    \* table torrent_candidates

Fresh == [state |-> "none", attempts |-> 0, next |-> "null"]

Init == row = [k \in Keys |-> Fresh]

Put(k, state, attempts, next) ==
    row' = [row EXCEPT ![k] = [state |-> state, attempts |-> attempts,
                               next |-> next]]

See(k) ==
    /\ row[k].state = "none"
    /\ Put(k, "new", 0, "null")

\* A fetch begins; the database may count it more than once.
Start(k) ==
    /\ \/ row[k].state = "new"
       \/ row[k].state = "fetch_failed" /\ row[k].next = "due"
    /\ \E n \in 1..(Retries + 1) : Put(k, "fetching", row[k].attempts + n, "null")

Complete(k) ==
    /\ row[k].state = "fetching"
    /\ Put(k, "complete", row[k].attempts, "null")

Fail(k) ==
    /\ row[k].state = "fetching"
    /\ row[k].attempts < MaxFetches
    /\ Put(k, "fetch_failed", row[k].attempts, "future")

Exhaust(k) ==
    /\ row[k].state = "fetching"
    /\ row[k].attempts >= MaxFetches
    /\ Put(k, "fetch_failed", row[k].attempts, "null")

BecomeDue(k) ==
    /\ row[k].state = "fetch_failed" /\ row[k].next = "future"
    /\ Put(k, "fetch_failed", row[k].attempts, "due")

\* A restart makes every interrupted fetch due at once.
Recover ==
    row' = [k \in Keys |->
              IF row[k].state = "fetching"
              THEN [state |-> "fetch_failed", attempts |-> row[k].attempts,
                    next |-> "due"]
              ELSE row[k]]

Next ==
    \/ \E k \in Keys : \/ See(k) \/ Start(k) \/ Complete(k) \/ Fail(k)
                       \/ Exhaust(k) \/ BecomeDue(k)
    \/ Recover

Spec == Init /\ [][Next]_row
=============================================================================
