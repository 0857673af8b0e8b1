----------------------------- MODULE JSONLWriter -----------------------------
(***************************************************************************)
(* JSONLWriter of includes/storage.py and the tasks that use it: everybody *)
(* emits events, and the shutdown sequence of main.py asks for the routing *)
(* snapshot and for a flush, and closes the writer.                        *)
(*                                                                         *)
(* The event loop and the writer thread share the queue, _fatal_error and  *)
(* the future of the one request under way.  An event is the number of its *)
(* acceptance.  The file is all files of the rotation in a row.            *)
(***************************************************************************)
EXTENDS Naturals, Sequences, SequencesExt

CONSTANTS
    QueueSize,   \* DHT_JSONL_QUEUE_SIZE
    MaxEvents,   \* bound: accepted events
    Environments \* what may go wrong in a run: a set of subsets of Faulty

\* Writing an event, flushing on request, writing the snapshot; the process
\* dies.
Faulty == {"write", "flush", "snapshot", "crash"}

ASSUME WriterAssumption ==
    /\ QueueSize \in Nat \ {0} /\ MaxEvents \in Nat
    /\ Environments \subseteq SUBSET Faulty

VARIABLES
    queue,      \* _queue: events (numbers) and requests
    accepted,   \* how many events emit() has accepted
    stop,       \* _stop is set
    fatal,      \* _fatal_error is not None
    thread,     \* the writer thread: see ThreadStates
    buffer,     \* events written to the handle and not flushed
    file,       \* events flushed to the operating system
    tmp, path,  \* the temporary and the real snapshot file
    op, at,     \* the shutdown sequence: which step, and where in it
    answer,     \* the future of the request under way
    mark,       \* history: events accepted when the request was queued
    env         \* what may go wrong in this run; it never changes

content == <<buffer, file>>
files   == <<tmp, path>>
client  == <<op, at>>
vars    == <<queue, accepted, stop, fatal, thread, content, files, client, answer, mark, env>>

Event(n) == <<"event", n>>
Request(kind) == <<kind, 0>>
Items == {Event(n) : n \in 1..MaxEvents}
             \cup {Request(kind) : kind \in {"snapshot", "flush", "stop"}}

\* The thread waits for an item, writes the snapshot, empties the queue after a
\* fatal error, closes the file, has stopped, or is dead with the process.
ThreadStates == {"get", "snapshot", "synced", "draining", "ending", "stopped", "dead"}

TypeOK ==
    /\ queue \in Seq(Items) /\ Len(queue) <= QueueSize
    /\ accepted \in 0..MaxEvents
    /\ stop \in BOOLEAN /\ fatal \in BOOLEAN
    /\ thread \in ThreadStates
    /\ buffer \in Seq(1..MaxEvents) /\ file \in Seq(1..MaxEvents)
    /\ tmp \in {"none", "torn", "whole"} /\ path \in {"old", "new", "torn"}
    /\ op \in {"none", "snapshot", "flush", "close", "final", "stop", "join", "done"}
    /\ at \in {"check", "put", "wait"}
    /\ answer \in {"none", "ok", "error"}
    /\ mark \in 0..MaxEvents
    /\ env \in Environments

Init ==
    /\ queue = <<>> /\ accepted = 0 /\ stop = FALSE /\ fatal = FALSE
    /\ thread = "get" /\ buffer = <<>> /\ file = <<>>
    /\ tmp = "none" /\ path = "old"
    /\ op = "none" /\ at = "check" /\ answer = "none" /\ mark = 0
    /\ env \in Environments

HasRoom == Len(queue) < QueueSize

-----------------------------------------------------------------------------
(* emit() *)

\* Mutated form: events are accepted until the end.
Accepting_Always == ~ fatal /\ thread # "dead"

Accepting == ~ fatal /\ ~ stop /\ thread # "dead"

\* An event is queued if there is room, and else dropped and counted.
Emit ==
    /\ Accepting /\ HasRoom /\ accepted < MaxEvents
    /\ accepted' = accepted + 1
    /\ queue' = Append(queue, Event(accepted + 1))
    /\ UNCHANGED <<stop, fatal, thread, content, files, client, answer, mark, env>>

-----------------------------------------------------------------------------
(* The shutdown sequence: snapshot(), flush(), and close() with its final   *)
(* flush(), its sentinel and its join.                                      *)

Item == [snapshot |-> Request("snapshot"), flush |-> Request("flush"),
         final |-> Request("flush")]

\* What follows a request: the errors of the first two are logged, one of the
\* final flush leaves close().
FollowedBy(request, ok) ==
    CASE request = "snapshot" -> "flush"
      [] request = "flush"    -> "close"
      [] request = "final"    -> IF ok THEN "stop" ELSE "done"

StartShutdown ==
    /\ op = "none"
    /\ op' = "snapshot" /\ at' = "check"
    /\ UNCHANGED <<queue, accepted, stop, fatal, thread, content, files, answer, mark, env>>

\* snapshot() and flush() look at _fatal_error before anything else.
CheckFatal ==
    /\ op \in {"snapshot", "flush", "final"} /\ at = "check"
    /\ IF fatal THEN op' = FollowedBy(op, FALSE) /\ at' = "check"
                ELSE op' = op /\ at' = "put"
    /\ UNCHANGED <<queue, accepted, stop, fatal, thread, content, files, answer, mark, env>>

\* Then they try every 10 ms until the queue has room, and await the future.
PutRequest ==
    /\ op \in {"snapshot", "flush", "final"} /\ at = "put" /\ HasRoom
    /\ queue' = Append(queue, Item[op])
    /\ mark' = accepted
    /\ at' = "wait" /\ op' = op
    /\ UNCHANGED <<accepted, stop, fatal, thread, content, files, answer, env>>

Answered ==
    /\ op \in {"snapshot", "flush", "final"} /\ at = "wait" /\ answer # "none"
    /\ op' = FollowedBy(op, answer = "ok")
    /\ at' = IF op' = "stop" THEN "put" ELSE "check"
    /\ stop' = (stop \/ op' = "stop")
    /\ answer' = "none"
    /\ UNCHANGED <<queue, accepted, fatal, thread, content, files, mark, env>>

\* close() of a writer that has failed only joins the thread.
BeginClose ==
    /\ op = "close"
    /\ IF fatal THEN op' = "join" /\ stop' = TRUE ELSE op' = "final" /\ UNCHANGED stop
    /\ UNCHANGED <<queue, accepted, fatal, thread, content, files, at, answer, mark, env>>

\* Mutated form: the sentinel is queued only when there is room at once.
PutStop_Once ==
    /\ op = "stop"
    /\ queue' = IF HasRoom THEN Append(queue, Request("stop")) ELSE queue
    /\ op' = "join"
    /\ UNCHANGED <<accepted, stop, fatal, thread, content, files, at, answer, mark, env>>

PutStop ==
    /\ op = "stop" /\ HasRoom
    /\ queue' = Append(queue, Request("stop"))
    /\ op' = "join"
    /\ UNCHANGED <<accepted, stop, fatal, thread, content, files, at, answer, mark, env>>

Join ==
    /\ op = "join" /\ thread = "stopped"
    /\ op' = "done"
    /\ UNCHANGED <<queue, accepted, stop, fatal, thread, content, files, at, answer, mark, env>>

-----------------------------------------------------------------------------
(* The writer thread *)

Takes(item) == thread = "get" /\ queue # <<>> /\ Head(queue) = item /\ queue' = Tail(queue)

Flushed == buffer' = <<>> /\ file' = file \o buffer

\* The handle is closed after an error: of what it had buffered a part, all or
\* nothing has been written.
Abandoned(events) == \E n \in 0..Len(events) : file' = file \o SubSeq(events, 1, n)

\* An event is written, and the handle perhaps flushed (by time, or to rotate
\* the file, which closes the handle).
WriteEvent(e) ==
    /\ Takes(Event(e))
    /\ \/ buffer' = Append(buffer, e) /\ UNCHANGED file
       \/ buffer' = <<>> /\ file' = Append(file \o buffer, e)
    /\ UNCHANGED <<accepted, stop, fatal, thread, files, client, answer, mark, env>>

\* The write fails and the file is opened again: the line, which may have been
\* buffered before the error, is written once more.
WriteRecovers(e) ==
    /\ "write" \in env /\ Takes(Event(e))
    /\ Abandoned(buffer) \/ Abandoned(Append(buffer, e))
    /\ buffer' = <<e>>
    /\ UNCHANGED <<accepted, stop, fatal, thread, files, client, answer, mark, env>>

Fails == fatal' = TRUE /\ thread' = "draining"

\* All attempts fail.
WriteFails(e) ==
    /\ "write" \in env /\ Takes(Event(e))
    /\ Abandoned(buffer) \/ Abandoned(Append(buffer, e))
    /\ buffer' = <<>>
    /\ Fails
    /\ UNCHANGED <<accepted, stop, files, client, answer, mark, env>>

\* The queue stays empty for DHT_JSONL_FLUSH_INTERVAL.
IdleFlush ==
    /\ thread = "get" /\ queue = <<>> /\ buffer # <<>>
    /\ Flushed
    /\ UNCHANGED <<queue, accepted, stop, fatal, thread, files, client, answer, mark, env>>

IdleFlushFails ==
    /\ "write" \in env
    /\ thread = "get" /\ queue = <<>> /\ buffer # <<>>
    /\ Fails
    /\ UNCHANGED <<queue, accepted, stop, content, files, client, answer, mark, env>>

OnFlush == Flushed

\* A flush request; its error goes to the future and not to the thread.
ServeFlush ==
    /\ Takes(Request("flush"))
    /\ \/ OnFlush /\ answer' = "ok"
       \/ /\ "flush" \in env
          /\ Flushed \/ UNCHANGED content
          /\ answer' = "error"
    /\ UNCHANGED <<accepted, stop, fatal, thread, files, client, mark, env>>

\* _write_snapshot: the temporary file is opened and written...
BeginSnapshot ==
    /\ Takes(Request("snapshot"))
    /\ tmp' = "torn" /\ thread' = "snapshot"
    /\ UNCHANGED <<accepted, stop, fatal, content, path, client, answer, mark, env>>

\* Mutated form: no fsync before the file is replaced.
Synced_Not == tmp' = tmp

\* ... synced to the disk...
Synced == tmp' = "whole"

SyncSnapshot ==
    /\ thread = "snapshot"
    /\ Synced
    /\ thread' = "synced"
    /\ UNCHANGED <<queue, accepted, stop, fatal, content, path, client, answer, mark, env>>

\* ... and put in the place of the real one, which a crash finds as torn as
\* the temporary file is on the disk.
ReplaceSnapshot ==
    /\ thread = "synced"
    /\ path' = IF tmp = "whole" THEN "new" ELSE "torn"
    /\ tmp' = "none" /\ answer' = "ok" /\ thread' = "get"
    /\ UNCHANGED <<queue, accepted, stop, fatal, content, client, mark, env>>

\* All attempts fail: the error goes to the future and not to the thread.
SnapshotFails ==
    /\ "snapshot" \in env /\ thread \in {"snapshot", "synced"}
    /\ answer' = "error" /\ thread' = "get"
    /\ UNCHANGED <<queue, accepted, stop, fatal, content, files, client, mark, env>>

TakeStop ==
    /\ Takes(Request("stop"))
    /\ thread' = "ending"
    /\ UNCHANGED <<accepted, stop, fatal, content, files, client, answer, mark, env>>

\* Mutated form: the waiters of a flush are forgotten.
Drain_Forgets ==
    /\ thread = "draining" /\ queue # <<>>
    /\ queue' = Tail(queue)
    /\ answer' = IF Head(queue) = Request("snapshot") THEN "error" ELSE answer
    /\ UNCHANGED <<accepted, stop, fatal, thread, content, files, client, mark, env>>

\* `Fail any queued waiters': after a fatal error the thread empties the queue.
Drain ==
    /\ thread = "draining" /\ queue # <<>>
    /\ queue' = Tail(queue)
    /\ answer' = IF Head(queue) \in {Request("snapshot"), Request("flush")} THEN "error" ELSE answer
    /\ UNCHANGED <<accepted, stop, fatal, thread, content, files, client, mark, env>>

Drained ==
    /\ thread = "draining" /\ queue = <<>>
    /\ thread' = "ending"
    /\ UNCHANGED <<queue, accepted, stop, fatal, content, files, client, answer, mark, env>>

\* The finally block flushes and closes the handle, if it still can.
Ends ==
    /\ thread = "ending" /\ thread' = "stopped"
    /\ Flushed \/ ("write" \in env /\ UNCHANGED content)
    /\ UNCHANGED <<queue, accepted, stop, fatal, files, client, answer, mark, env>>

ThreadStep ==
    \/ \E e \in 1..MaxEvents : WriteEvent(e) \/ WriteRecovers(e) \/ WriteFails(e)
    \/ IdleFlush \/ IdleFlushFails
    \/ ServeFlush
    \/ BeginSnapshot \/ SyncSnapshot \/ ReplaceSnapshot \/ SnapshotFails
    \/ TakeStop \/ Drain \/ Drained \/ Ends

\* The process dies at any point; what is on the disk stays.
Crash ==
    /\ "crash" \in env /\ thread # "dead"
    /\ thread' = "dead" /\ op' = "done"
    /\ queue' = <<>> /\ answer' = "none"
    /\ UNCHANGED <<accepted, stop, fatal, content, files, at, mark, env>>

ClientStep ==
    CheckFatal \/ PutRequest \/ Answered \/ BeginClose \/ PutStop \/ Join

Next == Emit \/ StartShutdown \/ ClientStep \/ ThreadStep \/ Crash

Spec == Init /\ [][Next]_vars

\* The thread runs, and the loop resumes the shutdown task when it can go on.
\* A request that finds the queue full is tried again and again; the producers
\* have stopped by then.
FairSpec == Spec /\ WF_vars(ThreadStep) /\ WF_vars(ClientStep)

-----------------------------------------------------------------------------
(* Properties *)

Accepted(n) == [i \in 1..n |-> i]

\* When a flush has been acknowledged, every event accepted before the request
\* was made is in the file, once and in order, unless a write can fail.
FlushCovers ==
    "write" \notin env /\ answer = "ok" /\ op \in {"flush", "final"}
        => IsPrefix(Accepted(mark), file)

\* A writer that has ended without a failed write has written every event that
\* emit() accepted, once and in order: none slips in behind the sentinel.
CloseKeepsAll ==
    "write" \notin env /\ thread = "stopped" => file = Accepted(accepted)

\* No event that was accepted is lost, doubled or overtaken, neither by a flush
\* nor by the end, and the queue keeps within its size.
NothingLost == TypeOK /\ FlushCovers /\ CloseKeepsAll

\* The snapshot file is whole at every moment, so that a crash leaves either
\* the old or the new one.
SnapshotWhole == path # "torn"

\* The shutdown sequence ends, with the thread stopped, whatever was queued when
\* it began and even if the snapshot cannot be written.
ShutdownEnds ==
    env \subseteq {"snapshot"} /\ op # "none" ~> op = "done" /\ thread = "stopped"

\* A request that is in the queue when the writer fails is answered.
QueuedWaitersFail ==
    thread = "draining" /\ Request("flush") \in ToSet(queue) /\ at = "wait"
        ~> at # "wait"
=============================================================================
