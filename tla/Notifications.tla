--------------------------- MODULE Notifications ---------------------------
(***************************************************************************)
(* The keyword notifications: the table of that name (storage.py), the     *)
(* notification_scheduler (main.py) and the one-attempt HTTP client        *)
(* send_once (communications.py).                                          *)
(*                                                                         *)
(* A message is sent, then its result is recorded by a database call; the  *)
(* process may stop in between.  The answer may get lost; an answer that   *)
(* breaks off raises an exception that send_once does not handle; a        *)
(* database call may fail, before or after it has committed, or, after a   *)
(* reopening, be executed again (see DatabaseWorker).  `env' says which of *)
(* these can happen in a run.                                              *)
(***************************************************************************)
EXTENDS Integers, FiniteSets, FiniteSetsExt

CONSTANTS
    Torrents,       \* torrents whose metadata match a keyword
    MaxAttempts,    \* NOTIFICATION_RETRY_MAX_ATTEMPTS
    Retries,        \* DB_REOPEN_RETRY_COUNT
    Batch,          \* NOTIFICATION_SCAN_BATCH_SIZE
    Addresses,      \* len(_TELEGRAM_IPS), the addresses being 0..Addresses-1
    Good,           \* the addresses that can be reached
    Nothing,        \* no row
    MaxRestarts,    \* bound: stops of the process
    Environments    \* sets of what may go wrong

\* debug.validate_config
ASSUME NotificationAssumption ==
    /\ MaxAttempts \in Nat \ {0} /\ Batch \in Nat \ {0} /\ Retries \in Nat
    /\ Addresses \in Nat \ {0} /\ Good \subseteq 0..(Addresses - 1)
    /\ Nothing \notin Torrents
    /\ MaxRestarts \in Nat
    /\ \A e \in Environments : e \subseteq {"network", "truncated", "database", "redo", "crash"}

VARIABLES
    env,            \* what may go wrong in this run
    row,            \* per torrent: its row in the table
    pc,             \* the scheduler
    batch,          \* the rows it has read and not handled
    cur,            \* the row it handles
    result,         \* what send_once has returned
    address,        \* _TELEGRAM_IP_INDEX
    delivered,      \* history: how often each message has arrived
    restarts

vars == <<env, row, pc, batch, cur, result, address, delivered, restarts>>

Rows == [status : {"absent", "pending", "sent", "failed"}, attempts : Nat,
         due : {"null", "later", "now"}]

TypeOK ==
    /\ env \in Environments
    /\ row \in [Torrents -> Rows]
    /\ pc \in {"scan", "next", "send", "written", "mark", "wait", "dead"}
    /\ batch \subseteq Torrents
    /\ cur \in Torrents \cup {Nothing}
    /\ result \in {"none", "ok", "failed"}
    /\ address \in 0..(Addresses - 1)
    /\ delivered \in [Torrents -> Nat]
    /\ restarts \in 0..MaxRestarts

Init ==
    /\ env \in Environments
    /\ row = [t \in Torrents |-> [status |-> "absent", attempts |-> 0, due |-> "null"]]
    /\ pc = "scan"
    /\ batch = {}
    /\ cur = Nothing
    /\ result = "none"
    /\ address = 0
    /\ delivered = [t \in Torrents |-> 0]
    /\ restarts = 0

\* The locals of the scheduler, and the world around it.
locals == <<pc, batch, cur, result, address>>

-----------------------------------------------------------------------------
(* The table *)

\* persist_torrent() with a KeywordResult, for a torrent that is new: a complete
\* candidate is not fetched again.
Persist(t) ==
    /\ row[t].status = "absent"
    /\ row' = [row EXCEPT ![t] = [status |-> "pending", attempts |-> 0, due |-> "now"]]
    /\ UNCHANGED <<env, locals, delivered, restarts>>

\* The clock.
BecomeDue(t) ==
    /\ row[t].due = "later"
    /\ row' = [row EXCEPT ![t].due = "now"]
    /\ UNCHANGED <<env, locals, delivered, restarts>>

\* due_notifications(): WHERE status='pending' AND next_attempt_at<=now
Due == {t \in Torrents : row[t].status = "pending" /\ row[t].due = "now"}

\* Mutated form: one attempt too many.
GivesUp_Late(attempt_no) == attempt_no > MaxAttempts

\* _send_notification_row(): whether a failed attempt is the last one.
GivesUp(attempt_no) == attempt_no >= MaxAttempts

\* Mutated form: a failed attempt gets no date for the next one.
Marked_NoDate(r, attempt_no, n) ==
    [r EXCEPT
        !.attempts = @ + n,
        !.status = IF result = "ok" THEN "sent"
                   ELSE IF GivesUp(attempt_no) THEN "failed" ELSE "pending",
        !.due = "null"]

\* mark_notification_result(), executed n times.
Marked(r, attempt_no, n) ==
    [r EXCEPT
        !.attempts = @ + n,
        !.status = IF result = "ok" THEN "sent"
                   ELSE IF GivesUp(attempt_no) THEN "failed" ELSE "pending",
        !.due = IF result = "ok" \/ GivesUp(attempt_no) THEN "null" ELSE "later"]

-----------------------------------------------------------------------------
(* The scheduler *)

\* due_notifications(): the oldest rows first, but not more than a batch.
Scan ==
    /\ pc = "scan"
    /\ \E rows \in SUBSET Due :
          /\ Cardinality(rows) = Min({Batch, Cardinality(Due)})
          /\ batch' = rows
    /\ pc' = "next"
    /\ UNCHANGED <<env, row, cur, result, address, delivered, restarts>>

Take(t) ==
    /\ pc = "next"
    /\ t \in batch
    /\ batch' = batch \ {t}
    /\ cur' = t
    /\ pc' = "send"
    /\ UNCHANGED <<env, row, result, address, delivered, restarts>>

BatchDone ==
    /\ pc = "next"
    /\ batch = {}
    /\ pc' = "wait"
    /\ UNCHANGED <<env, row, batch, cur, result, address, delivered, restarts>>

\* wait_for(stopping.wait()) times out.
Wake ==
    /\ pc = "wait"
    /\ pc' = "scan"
    /\ UNCHANGED <<env, row, batch, cur, result, address, delivered, restarts>>

\* An exception that the scheduler does not handle ends it until the next start.
Die == pc' = "dead" /\ batch' = {} /\ UNCHANGED <<cur, result, address>>

\* due_notifications() fails.
ScanFails ==
    /\ pc = "scan"
    /\ "database" \in env
    /\ Die
    /\ UNCHANGED <<env, row, delivered, restarts>>

-----------------------------------------------------------------------------
(* send_once() *)

\* Mutated form: the next attempt goes to the same address.
NextAddress_Same == address

\* After a transport error.
NextAddress == (address + 1) % Addresses

TransportError ==
    /\ result' = "failed"
    /\ address' = NextAddress
    /\ pc' = "mark"

\* The connection cannot be opened, or breaks before the request is out.
ConnectFails ==
    /\ pc = "send"
    /\ address \notin Good \/ "network" \in env
    /\ TransportError
    /\ UNCHANGED <<env, row, batch, cur, delivered, restarts>>

\* The request is written and arrives, unless the network loses it.
Write ==
    /\ pc = "send"
    /\ address \in Good
    /\ pc' = "written"
    /\ \/ delivered' = [delivered EXCEPT ![cur] = @ + 1] /\ result' = "ok"
       \/ "network" \in env /\ UNCHANGED delivered /\ result' = "none"
    /\ UNCHANGED <<env, row, batch, cur, address, restarts>>

\* `"ok": true' in a response of status 200 to 299.
Confirmed ==
    /\ pc = "written"
    /\ result = "ok"
    /\ pc' = "mark"
    /\ UNCHANGED <<env, row, batch, cur, result, address, delivered, restarts>>

\* Another status, or a body that confirms nothing: the message was refused, or
\* what lies between us and the server answers for it.
Refused ==
    /\ pc = "written"
    /\ "network" \in env
    /\ result' = "failed"
    /\ pc' = "mark"
    /\ UNCHANGED <<env, row, batch, cur, address, delivered, restarts>>

\* A timeout or a broken connection instead of the answer.
AnswerLost ==
    /\ pc = "written"
    /\ "network" \in env
    /\ TransportError
    /\ UNCHANGED <<env, row, batch, cur, delivered, restarts>>

\* The body is shorter than announced: readexactly() raises IncompleteReadError,
\* which is neither OSError nor ValueError.
Truncated ==
    /\ pc = "written"
    /\ "truncated" \in env
    /\ Die
    /\ UNCHANGED <<env, row, delivered, restarts>>

-----------------------------------------------------------------------------
(* The result is recorded *)

\* Mutated form: a failed send is recorded as a success.
Mark_AsSent ==
    /\ pc = "mark"
    /\ row' = [row EXCEPT ![cur] = [@ EXCEPT !.attempts = @ + 1, !.status = "sent", !.due = "null"]]
    /\ pc' = "next" /\ cur' = Nothing /\ result' = "none"
    /\ UNCHANGED <<env, batch, address, delivered, restarts>>

Mark ==
    /\ pc = "mark"
    /\ \E n \in IF "redo" \in env THEN 1..(Retries + 1) ELSE {1} :
          row' = [row EXCEPT ![cur] = Marked(@, @.attempts + 1, n)]
    /\ pc' = "next" /\ cur' = Nothing /\ result' = "none"
    /\ UNCHANGED <<env, batch, address, delivered, restarts>>

\* The call raises, before the operation or after its last commit.
MarkFails ==
    /\ pc = "mark"
    /\ "database" \in env
    /\ \/ UNCHANGED row
       \/ \E n \in 1..(Retries + 1) :
             row' = [row EXCEPT ![cur] = Marked(@, @.attempts + 1, n)]
    /\ Die
    /\ UNCHANGED <<env, delivered, restarts>>

\* The process stops, by a signal or a crash, and is started again: the table
\* survives.
Restart ==
    /\ "crash" \in env
    /\ restarts < MaxRestarts
    /\ restarts' = restarts + 1
    /\ pc' = "scan" /\ batch' = {} /\ cur' = Nothing /\ result' = "none" /\ address' = 0
    /\ UNCHANGED <<env, row, delivered>>

-----------------------------------------------------------------------------
Scheduler ==
    \/ Scan \/ ScanFails \/ BatchDone \/ Wake \/ \E t \in Torrents : Take(t)
    \/ ConnectFails \/ Write \/ Confirmed \/ Refused \/ AnswerLost \/ Truncated
    \/ Mark \/ MarkFails

Next ==
    \/ \E t \in Torrents : Persist(t) \/ BecomeDue(t)
    \/ Scheduler
    \/ Restart

Spec == Init /\ [][Next]_vars

\* The scheduler's task and the clock go on.
Fairness == WF_vars(Scheduler) /\ \A t \in Torrents : WF_vars(BecomeDue(t))

FairSpec == Spec /\ Fairness

-----------------------------------------------------------------------------
(* Properties *)

Contract == INSTANCE Outbox WITH
    status <- [t \in Torrents |-> row[t].status],
    attempts <- [t \in Torrents |-> row[t].attempts]

\* Scheduler, client and table implement Outbox: no message goes out that is not
\* pending, `sent' means delivered, `failed' means that all the attempts were
\* used up, and a settled row stays as it is.
ContractKept == Contract!Spec

\* A message is sent once per attempt, and once more for every stop of the
\* process between the sending and the recording.
DuplicatesBounded == \A t \in Torrents : delivered[t] <= MaxAttempts + restarts

\* As long as the scheduler meets no exception that it does not handle, every
\* notification is settled, restarts or not.
NotificationsSettle ==
    env \cap {"database", "truncated"} = {} =>
        \A t \in Torrents :
            row[t].status = "pending" ~> row[t].status \in {"sent", "failed"}

\* The address changes after a transport error, and the attempts of all messages
\* share it: on a sound network one good address among no more than MaxAttempts
\* of them is found before a message is given up.
GoodAddressFound ==
    env = {} /\ Good # {} /\ Addresses <= MaxAttempts =>
        \A t \in Torrents : row[t].status # "failed"
=============================================================================
