------------------------------ MODULE Outbox ------------------------------
(***************************************************************************)
(* What pyDHT promises of the keyword notifications, whatever scheduler,   *)
(* HTTP client and crashes do: a notification is delivered only while it   *)
(* is pending; it becomes `sent' only after a delivery and `failed' only   *)
(* after the last attempt; both are final.                                 *)
(***************************************************************************)
EXTENDS Naturals

CONSTANTS
    Torrents,
    MaxAttempts,    \* NOTIFICATION_RETRY_MAX_ATTEMPTS
    Retries         \* DB_REOPEN_RETRY_COUNT

VARIABLES
    status,         \* per torrent: the column `status', or "absent"
    attempts,       \* per torrent: the column `attempts'
    delivered       \* per torrent: how often the message has arrived

vars == <<status, attempts, delivered>>

Init ==
    /\ status = [t \in Torrents |-> "absent"]
    /\ attempts = [t \in Torrents |-> 0]
    /\ delivered = [t \in Torrents |-> 0]

Match(t) ==
    /\ status[t] = "absent"
    /\ status' = [status EXCEPT ![t] = "pending"]
    /\ UNCHANGED <<attempts, delivered>>

Deliver(t) ==
    /\ status[t] = "pending"
    /\ delivered' = [delivered EXCEPT ![t] = @ + 1]
    /\ UNCHANGED <<status, attempts>>

\* An attempt is recorded, and is final if it was the last; the database may
\* count it again for every time it was opened anew.
Record(t) ==
    /\ status[t] = "pending"
    /\ \E n \in 1..(Retries + 1) : attempts' = [attempts EXCEPT ![t] = @ + n]
    /\ UNCHANGED delivered
    /\ \/ delivered[t] > 0 /\ status' = [status EXCEPT ![t] = "sent"]
       \/ attempts[t] + 1 >= MaxAttempts /\ status' = [status EXCEPT ![t] = "failed"]
       \/ attempts[t] + 1 < MaxAttempts /\ UNCHANGED status

Next == \E t \in Torrents : Match(t) \/ Deliver(t) \/ Record(t)

Spec == Init /\ [][Next]_vars
=============================================================================
