--------------------------- MODULE DatabaseWorker ---------------------------
(***************************************************************************)
(* DatabaseWorker of includes/storage.py, the tasks of main.py that call   *)
(* it, and the shutdown sequence of async_main as far as it concerns them. *)
(*                                                                         *)
(* The event loop and the SQLite thread share the queue, the futures (the  *)
(* thread answers with call_soon_threadsafe, and the loop resolves the     *)
(* future later) and the flags _fatal_error and _stopped.  An operation is *)
(* abstracted to whether and how often it has been committed.              *)
(***************************************************************************)
EXTENDS Naturals, Integers, Sequences, FiniteSets

CONSTANTS
    Schedulers,  \* retry_scheduler and notification_scheduler
    Workers,     \* the torrent_worker tasks
    Size,        \* DB_QUEUE_SIZE: bound of the queue and of the semaphore
    Retries,     \* DB_REOPEN_RETRY_COUNT
    Stop,        \* the (None, None) that close() queues
    Nobody       \* no operation is being executed

Callers == Schedulers \cup Workers

ASSUME SizesAssumption == Size \in Nat \ {0} /\ Retries \in Nat
ASSUME NamesAssumption ==
    /\ IsFiniteSet(Callers) /\ Schedulers \cap Workers = {}
    /\ Stop \notin Callers /\ Nobody \notin Callers /\ Stop # Nobody

VARIABLES
    task,       \* what each calling task does: see TaskStates
    free,       \* the value of the semaphore _slots
    queue,      \* _queue
    thread,     \* the SQLite thread: see ThreadStates
    serving,    \* whose operation the thread executes
    attempt,    \* recovery_attempt
    connected,  \* the thread's connection is usable
    answer,     \* answers posted to the loop and not delivered
    commits,    \* how often the operation last queued by a task has been committed
    fatal,      \* _fatal_error is not None
    stopping,   \* the stopping event is set
    shutdown,   \* how far async_main's finally block has come
    overflow    \* history: a task has been told that the queue is full

loop  == <<task, free>>
exec  == <<thread, serving, attempt, connected>>
ended == <<stopping, shutdown>>
vars  == <<loop, queue, exec, answer, commits, fatal, ended, overflow>>

\* A task is outside of call(), waits for a slot, waits for its future, or has
\* returned.
TaskStates == {"outside", "acquiring", "awaiting", "returned"}
\* The thread waits for an operation, executes one, has left its loop, or has
\* set _stopped.
ThreadStates == {"get", "execute", "leaving", "stopped"}
Shutdowns == {"no", "schedulers", "workers", "joining", "closed", "failed"}

TypeOK ==
    /\ task \in [Callers -> TaskStates]
    /\ free \in 0..Size
    /\ queue \in Seq(Callers \cup {Stop}) /\ Len(queue) <= Size
    /\ thread \in ThreadStates
    /\ serving \in Callers \cup {Nobody}
    /\ attempt \in 0..Retries
    /\ connected \in BOOLEAN
    /\ answer \in [Callers -> {"none", "result", "error"}]
    /\ commits \in [Callers -> 0..(Retries + 1)]
    /\ fatal \in BOOLEAN /\ stopping \in BOOLEAN /\ overflow \in BOOLEAN
    /\ shutdown \in Shutdowns

Init ==
    /\ task = [c \in Callers |-> "outside"]
    /\ free = Size /\ queue = <<>>
    /\ thread = "get" /\ serving = Nobody /\ attempt = 0 /\ connected = TRUE
    /\ answer = [c \in Callers |-> "none"]
    /\ commits = [c \in Callers |-> 0]
    /\ fatal = FALSE /\ stopping = FALSE /\ shutdown = "no" /\ overflow = FALSE

-----------------------------------------------------------------------------
(* The calling tasks *)

\* An exception ends a scheduler, which handles only timeouts and its own
\* cancellation; torrent_worker logs it and goes on.
AfterError(c) == IF c \in Schedulers THEN "returned" ELSE "outside"

\* Mutated form: the queue is bounded by one less than the semaphore.
HasRoom_Smaller == Len(queue) + 1 < Size

HasRoom == Len(queue) < Size

\* The second half of call(): the slot has been acquired.
Enqueue(c) ==
    \/ /\ HasRoom
       /\ queue' = Append(queue, c)
       /\ task' = [task EXCEPT ![c] = "awaiting"]
       /\ free' = free - 1
       /\ commits' = [commits EXCEPT ![c] = 0]
       /\ UNCHANGED overflow
    \/ /\ ~ HasRoom
       /\ task' = [task EXCEPT ![c] = AfterError(c)]
       /\ overflow' = TRUE
       /\ UNCHANGED <<queue, free, commits>>

\* Semaphore.locked(): a newcomer never overtakes a task that waits.
Locked == free = 0 \/ \E c \in Callers : task[c] = "acquiring"

\* call() takes a slot at once.
Call(c) ==
    /\ task[c] = "outside"
    /\ ~ fatal /\ thread # "stopped"
    /\ ~ Locked
    /\ Enqueue(c)
    /\ UNCHANGED <<exec, answer, fatal, ended>>

\* call() finds no slot and waits for one.
CallWaits(c) ==
    /\ task[c] = "outside"
    /\ ~ fatal /\ thread # "stopped"
    /\ Locked
    /\ task' = [task EXCEPT ![c] = "acquiring"]
    /\ UNCHANGED <<free, queue, exec, answer, commits, fatal, ended, overflow>>

\* A task that waits gets a slot.  It does not look at _fatal_error or _stopped
\* again.
Acquired(c) ==
    /\ task[c] = "acquiring" /\ free > 0
    /\ Enqueue(c)
    /\ UNCHANGED <<exec, answer, fatal, ended>>

\* call() refuses at once; a scheduler does not survive it.
CallRefused(c) ==
    /\ c \in Schedulers /\ task[c] = "outside"
    /\ fatal \/ thread = "stopped"
    /\ task' = [task EXCEPT ![c] = "returned"]
    /\ UNCHANGED <<free, queue, exec, answer, commits, fatal, ended, overflow>>

\* The loop runs the callback of the thread and then the task goes on.
Delivered(c) ==
    /\ answer[c] # "none"
    /\ answer' = [answer EXCEPT ![c] = "none"]
    /\ task' = [task EXCEPT ![c] = IF answer[c] = "error" THEN AfterError(c)
                                                        ELSE "outside"]
    /\ free' = free + 1
    /\ UNCHANGED <<queue, exec, commits, fatal, ended, overflow>>

\* A task sees `stopping' at the head of its loop.
Returns(c) ==
    /\ stopping /\ task[c] = "outside"
    /\ task' = [task EXCEPT ![c] = "returned"]
    /\ UNCHANGED <<free, queue, exec, answer, commits, fatal, ended, overflow>>

-----------------------------------------------------------------------------
(* The SQLite thread *)

Get ==
    /\ thread = "get" /\ queue # <<>>
    /\ queue' = Tail(queue)
    /\ IF Head(queue) = Stop
       THEN thread' = "leaving" /\ UNCHANGED <<serving, attempt>>
       ELSE thread' = "execute" /\ serving' = Head(queue) /\ attempt' = 0
    /\ UNCHANGED <<loop, connected, answer, commits, fatal, ended, overflow>>

\* call_soon_threadsafe: a future whose task was cancelled is done already.
Posted(outcome) ==
    IF task[serving] = "awaiting" THEN [answer EXCEPT ![serving] = outcome]
                                  ELSE answer

Committed == [commits EXCEPT ![serving] = @ + 1]

Succeeds ==
    /\ thread = "execute" /\ connected
    /\ commits' = Committed
    /\ answer' = Posted("result")
    /\ thread' = "get" /\ serving' = Nobody
    /\ UNCHANGED <<loop, queue, attempt, connected, fatal, ended, overflow>>

\* An exception that is not about the database, in the operation.
OperationFails ==
    /\ thread = "execute" /\ connected
    /\ answer' = Posted("error")
    /\ thread' = "get" /\ serving' = Nobody
    /\ UNCHANGED <<loop, queue, attempt, connected, commits, fatal, ended, overflow>>

Fail ==
    /\ answer' = Posted("error")
    /\ fatal' = TRUE
    /\ thread' = "leaving" /\ serving' = Nobody

\* DATABASE_MAX_BYTES is reached: before the operation or after its commit.
TooLarge ==
    /\ thread = "execute"
    /\ commits' \in {commits} \cup (IF connected THEN {Committed} ELSE {})
    /\ Fail
    /\ UNCHANGED <<loop, queue, attempt, connected, ended, overflow>>

\* A DatabaseError or an OSError, in the operation or (only if the connection
\* is usable) after its commit: the connection is closed and reopened, which
\* may fail, and the whole operation runs again.
Reopen ==
    /\ thread = "execute" /\ attempt < Retries
    /\ commits' \in {commits} \cup (IF connected THEN {Committed} ELSE {})
    /\ attempt' = attempt + 1
    /\ connected' \in BOOLEAN
    /\ UNCHANGED <<loop, queue, thread, serving, answer, fatal, ended, overflow>>

GiveUp ==
    /\ thread = "execute" /\ attempt = Retries
    /\ commits' \in {commits} \cup (IF connected THEN {Committed} ELSE {})
    /\ connected' = FALSE
    /\ Fail
    /\ UNCHANGED <<loop, queue, attempt, ended, overflow>>

\* The thread's finally block.
Leave ==
    /\ thread = "leaving"
    /\ thread' = "stopped" /\ connected' = FALSE
    /\ UNCHANGED <<loop, queue, serving, attempt, answer, commits, fatal, ended, overflow>>

ThreadStep == Get \/ Succeeds \/ OperationFails \/ TooLarge \/ Reopen \/ GiveUp \/ Leave

-----------------------------------------------------------------------------
(* Shutdown *)

\* SIGINT or SIGTERM.
Signal ==
    /\ ~ stopping /\ stopping' = TRUE
    /\ UNCHANGED <<loop, queue, exec, answer, commits, fatal, shutdown, overflow>>

\* Mutated form: the monitor looks only at the other writer.
Monitor_IgnoresDb == FALSE /\ UNCHANGED vars

\* fatal_monitor.
Monitor ==
    /\ fatal /\ ~ stopping /\ stopping' = TRUE
    /\ UNCHANGED <<loop, queue, exec, answer, commits, fatal, shutdown, overflow>>

\* Cancelled tasks leave call(): a waiter leaves the semaphore, an awaited
\* future is cancelled and its slot is released.  The operation stays queued.
Cancel(group) ==
    LET awaiting == {c \in group : task[c] = "awaiting"}
    IN  /\ task' = [c \in Callers |-> IF c \in group THEN "returned" ELSE task[c]]
        /\ free' = free + Cardinality(awaiting)
        /\ answer' = [c \in Callers |-> IF c \in group THEN "none" ELSE answer[c]]
        /\ UNCHANGED <<queue, exec, commits, fatal, stopping, overflow>>

CancelSchedulers ==
    /\ stopping /\ shutdown = "no" /\ shutdown' = "schedulers"
    /\ Cancel(Schedulers)

CancelWorkers ==
    /\ shutdown = "schedulers" /\ shutdown' = "workers"
    /\ Cancel(Workers)

\* Mutated forms: the sentinel overtakes the queued operations; close() only
\* joins the thread.
WithStop_First == <<Stop>> \o queue
WithStop_None == queue

WithStop == Append(queue, Stop)

\* close(): nothing to do if the thread has stopped; else queue the sentinel,
\* which raises queue.Full when there is no room, and join the thread.
Close ==
    /\ shutdown = "workers"
    /\ \/ /\ thread = "stopped"
          /\ shutdown' = "closed" /\ UNCHANGED queue
       \/ /\ thread # "stopped" /\ free > 0 /\ HasRoom
          /\ queue' = WithStop /\ shutdown' = "joining"
       \/ /\ thread # "stopped" /\ free > 0 /\ ~ HasRoom
          /\ shutdown' = "failed" /\ UNCHANGED queue
    /\ UNCHANGED <<loop, exec, answer, commits, fatal, stopping, overflow>>

Joined ==
    /\ shutdown = "joining" /\ thread = "stopped"
    /\ shutdown' = "closed"
    /\ UNCHANGED <<loop, queue, exec, answer, commits, fatal, stopping, overflow>>

Shutdown == CancelSchedulers \/ CancelWorkers \/ Close \/ Joined

Next ==
    \/ \E c \in Callers : Call(c) \/ CallWaits(c) \/ Acquired(c) \/ CallRefused(c)
                          \/ Delivered(c) \/ Returns(c)
    \/ ThreadStep
    \/ Signal \/ Monitor
    \/ Shutdown

Spec == Init /\ [][Next]_vars

\* The thread runs, and the loop runs its callbacks and its ready tasks.
\* Nothing makes a task call or a signal arrive.  The semaphore serves its
\* waiters in the order of their arrival, so that slots that become free again
\* and again reach each of them.
Fairness ==
    /\ WF_vars(ThreadStep)
    /\ WF_vars(Monitor) /\ WF_vars(Shutdown)
    /\ \A c \in Callers : WF_vars(Delivered(c)) /\ SF_vars(Acquired(c))

FairSpec == Spec /\ Fairness

-----------------------------------------------------------------------------
(* Properties *)

Awaiting == {c \in Callers : task[c] = "awaiting"}

\* `SQLite queue capacity invariant': until the shutdown begins to cancel tasks,
\* whoever gets a slot finds room in the queue, tasks that had to wait for it
\* included.  (The slot of a cancelled task is free again, but its operation
\* stays in the queue.)
HolderFindsRoom == shutdown = "no" => ~ overflow

\* The same during the shutdown, for the sentinel of close(), too.  It takes
\* more slots than tasks, as the default configuration has.
QueueCapacity == ~ overflow /\ shutdown # "failed"

\* A slot is held exactly by each task that awaits its answer, in spite of
\* errors and cancellations, and such a task has one operation: queued, being
\* executed, or answered.
SlotsMatch ==
    /\ free + Cardinality(Awaiting) = Size
    /\ \A c \in Awaiting :
          Cardinality({i \in 1..Len(queue) : queue[i] = c})
            + (IF serving = c THEN 1 ELSE 0)
            + (IF answer[c] # "none" THEN 1 ELSE 0) = 1

\* `all producers stopped; sentinel drains the DB FIFO before connection
\* close': unless the worker has failed, a completed shutdown has executed every
\* operation that was ever queued, those of cancelled tasks included.
DrainedOnClose == shutdown = "closed" /\ ~ fatal => queue = <<>> /\ serving = Nobody

\* Nobody waits for ever: not for an answer that a failed worker will never
\* give, nor for a slot.  The way out is fatal_monitor and the cancellation.
CallsReturn ==
    \A c \in Callers :
        task[c] \in {"acquiring", "awaiting"} ~> task[c] \in {"outside", "returned"}

\* A shutdown ends, with the thread stopped, unless close() finds the queue full.
ShutdownEnds ==
    stopping ~> (shutdown = "closed" /\ thread = "stopped") \/ shutdown = "failed"
=============================================================================
