------------------------ MODULE DatabaseWorkerProofs ------------------------
(***************************************************************************)
(* Proofs about DatabaseWorker for any number of tasks, any size of the    *)
(* queue and any number of retries.                                        *)
(***************************************************************************)
EXTENDS DatabaseWorker, FiniteSetTheorems, TLAPS

-----------------------------------------------------------------------------
(* The inductive invariant *)

Queued(c) == \E i \in 1..Len(queue) : queue[i] = c

\* A task is in the queue at most once, its operation has not begun, and the
\* task waits for it or has been cancelled.
QueuedOnce ==
    /\ \A i, j \in 1..Len(queue) : queue[i] = queue[j] => i = j
    /\ \A c \in Callers : Queued(c) =>
          /\ task[c] \in {"awaiting", "returned"}
          /\ answer[c] = "none" /\ serving # c /\ commits[c] = 0

\* The thread executes the operation of a task that has no answer yet, and each
\* failed attempt has committed it at most once.
ServingOne ==
    /\ serving \in Callers <=> thread = "execute"
    /\ serving \in Callers =>
          /\ task[serving] \in {"awaiting", "returned"}
          /\ answer[serving] = "none"
          /\ commits[serving] <= attempt

\* An answer has somebody who awaits it, and who awaits has exactly one
\* operation under way.
AnswersAwaited ==
    \A c \in Callers :
        /\ answer[c] # "none" => task[c] = "awaiting"
        /\ task[c] = "awaiting" =>
              Queued(c) \/ serving = c \/ answer[c] # "none"

\* The sentinel comes last, when no task is left.
ShutdownOrder ==
    /\ Queued(Stop) => shutdown \in {"joining", "closed"}
    /\ shutdown = "schedulers" => \A c \in Schedulers : task[c] = "returned"
    /\ shutdown \notin {"no", "schedulers"} =>
          \A c \in Callers : task[c] = "returned"

SlotsHeld == free + Cardinality(Awaiting) = Size

IInv == TypeOK /\ QueuedOnce /\ ServingOne /\ AnswersAwaited /\ ShutdownOrder /\ SlotsHeld

-----------------------------------------------------------------------------
(* Lemmas about the queue and the semaphore *)

(***************************************************************************)
(* What an appended sequence holds.                                        *)
(***************************************************************************)
LEMMA Appended ==
  ASSUME NEW S, NEW q \in Seq(S), NEW x \in S
  PROVE  /\ Append(q, x) \in Seq(S) /\ Len(Append(q, x)) = Len(q) + 1
         /\ \A i \in 1..Len(q) : Append(q, x)[i] = q[i]
         /\ Append(q, x)[Len(q) + 1] = x
OBVIOUS

(***************************************************************************)
(* What the tail of a nonempty sequence holds.                             *)
(***************************************************************************)
LEMMA Tailed ==
  ASSUME NEW S, NEW q \in Seq(S), q # <<>>
  PROVE  /\ Tail(q) \in Seq(S) /\ Len(Tail(q)) = Len(q) - 1 /\ Len(q) \in Nat \ {0}
         /\ \A i \in 1..Len(Tail(q)) : Tail(q)[i] = q[i + 1]
         /\ Head(q) = q[1] /\ Head(q) \in S
OBVIOUS

(***************************************************************************)
(* A sequence without repetition is no longer than the set it is from.     *)
(***************************************************************************)
LEMMA NoRepetitionLength ==
  ASSUME NEW S, IsFiniteSet(S), NEW q \in Seq(S),
         \A i, j \in 1..Len(q) : q[i] = q[j] => i = j
  PROVE  Len(q) <= Cardinality(S)
<1>1. q \in Injection(1..Len(q), S)
  BY DEF Injection, IsInjective
<1>2. Cardinality(1..Len(q)) <= Cardinality(S)
  BY <1>1, FS_Injection
<1>3. Cardinality(1..Len(q)) = Len(q)
  <2>1. \A n \in Nat : Cardinality(1..n) = n
    BY FS_Interval
  <2>2. Len(q) \in Nat
    OBVIOUS
  <2> QED  BY <2>1, <2>2
<1> QED  BY <1>2, <1>3

(***************************************************************************)
(* The tasks that hold a slot are finitely many and at most all.           *)
(***************************************************************************)
LEMMA AwaitingFinite ==
  /\ IsFiniteSet(Awaiting)
  /\ Cardinality(Awaiting) \in Nat
<1>1. Awaiting \in SUBSET Callers
  BY DEF Awaiting
<1> QED  BY <1>1, NamesAssumption, FS_Subset, FS_CardinalityType

(***************************************************************************)
(* While some task is in call() and before close(), the queue is shorter   *)
(* than the number of tasks: the tasks in it are distinct, the sentinel is *)
(* not among them, and neither is a task that is about to be queued.       *)
(***************************************************************************)
LEMMA QueueShort ==
  ASSUME IInv, NEW c \in Callers, task[c] \in {"outside", "acquiring"}
  PROVE  Len(queue) < Cardinality(Callers)
<1>1. ~ Queued(c) /\ ~ Queued(Stop)
  BY DEF IInv, QueuedOnce, ShutdownOrder, TypeOK, Shutdowns
<1>2. queue \in Seq(Callers \cup {Stop})
  BY DEF IInv, TypeOK
<1>3. \A i \in 1..Len(queue) : queue[i] \in Callers \ {c}
  BY <1>1, <1>2 DEF Queued
<1>4. queue \in Seq(Callers \ {c})
  <2>1. queue \in [1..Len(queue) -> Callers \ {c}]
    BY <1>2, <1>3
  <2>2. Len(queue) \in Nat
    BY <1>2
  <2> QED  BY <2>1, <2>2
<1>5. /\ IsFiniteSet(Callers \ {c})
      /\ Cardinality(Callers \ {c}) = Cardinality(Callers) - 1
      /\ Cardinality(Callers) \in Nat
  BY NamesAssumption, FS_RemoveElement, FS_CardinalityType
<1>6. Len(queue) <= Cardinality(Callers \ {c})
  BY <1>4, <1>5, NoRepetitionLength DEF IInv, QueuedOnce
<1>7. Len(queue) \in Nat
  BY <1>2
<1> QED  BY <1>5, <1>6, <1>7

(***************************************************************************)
(* When close() queues its sentinel, the queue holds at most one operation *)
(* of each task.                                                           *)
(***************************************************************************)
LEMMA QueueShortAtClose ==
  ASSUME IInv, shutdown = "workers"
  PROVE  Len(queue) <= Cardinality(Callers)
<1>1. ~ Queued(Stop)
  BY DEF IInv, ShutdownOrder
<1>2. queue \in Seq(Callers \cup {Stop})
  BY DEF IInv, TypeOK
<1>3. \A i \in 1..Len(queue) : queue[i] \in Callers
  BY <1>1, <1>2 DEF Queued
<1>4. queue \in Seq(Callers)
  <2>1. queue \in [1..Len(queue) -> Callers]
    BY <1>2, <1>3
  <2>2. Len(queue) \in Nat
    BY <1>2
  <2> QED  BY <2>1, <2>2
<1> QED  BY <1>4, NamesAssumption, NoRepetitionLength DEF IInv, QueuedOnce

-----------------------------------------------------------------------------
(* The steps *)

(***************************************************************************)
(* The first state.                                                        *)
(***************************************************************************)
LEMMA InvInit == Init => IInv
<1> SUFFICES ASSUME Init PROVE IInv
  OBVIOUS
<1>1. TypeOK
  <2>1. 0 \in 0..(Retries + 1) /\ 0 \in 0..Retries /\ Size \in 0..Size /\ 0 <= Size
    BY SizesAssumption
  <2>2. queue \in Seq(Callers \cup {Stop}) /\ Len(queue) = 0
    BY DEF Init
  <2> QED  BY <2>1, <2>2 DEF Init, TypeOK, TaskStates, ThreadStates, Shutdowns
<1>2. QueuedOnce /\ ServingOne /\ AnswersAwaited /\ ShutdownOrder
  BY NamesAssumption
  DEF Init, QueuedOnce, ServingOne, AnswersAwaited, ShutdownOrder, Queued
<1>3. Awaiting = {}
  BY DEF Init, Awaiting
<1>4. SlotsHeld
  BY <1>3, FS_EmptySet, SizesAssumption DEF Init, SlotsHeld
<1> QED  BY <1>1, <1>2, <1>4 DEF IInv

(***************************************************************************)
(* A task that is not in the queue is appended to it, or is told that the  *)
(* queue is full.                                                          *)
(***************************************************************************)
LEMMA EnqueueInv ==
  ASSUME IInv, NEW c \in Callers, task[c] \in {"outside", "acquiring"}, free > 0,
         Enqueue(c), UNCHANGED <<exec, answer, fatal, ended>>
  PROVE  IInv'
<1> USE DEF exec, ended
<1>1. ~ Queued(c) /\ ~ Queued(Stop) /\ serving # c /\ answer[c] = "none"
  BY DEF IInv, QueuedOnce, ShutdownOrder, ServingOne, AnswersAwaited, TypeOK, Shutdowns
<1>2. shutdown \in {"no", "schedulers"} /\ (shutdown = "schedulers" => c \notin Schedulers)
  BY DEF IInv, ShutdownOrder, TypeOK, Shutdowns
<1>3. CASE /\ HasRoom
           /\ queue' = Append(queue, c)
           /\ task' = [task EXCEPT ![c] = "awaiting"]
           /\ free' = free - 1
           /\ commits' = [commits EXCEPT ![c] = 0]
           /\ UNCHANGED overflow
  <2>1. /\ queue' \in Seq(Callers \cup {Stop}) /\ Len(queue') = Len(queue) + 1
        /\ \A i \in 1..Len(queue) : queue'[i] = queue[i]
        /\ queue'[Len(queue) + 1] = c /\ Len(queue) \in Nat
    BY <1>3, Appended DEF IInv, TypeOK
  <2>2. TypeOK'
    BY <1>3, <2>1, SizesAssumption DEF IInv, TypeOK, TaskStates, HasRoom
  <2>3. \A d : Queued(d)' <=> Queued(d) \/ d = c
    BY <2>1 DEF Queued
  <2>4. QueuedOnce'
    <3>1. \A i, j \in 1..Len(queue') : queue'[i] = queue'[j] => i = j
      BY <1>1, <2>1 DEF IInv, QueuedOnce, Queued
    <3>2. ASSUME NEW d \in Callers, Queued(d)'
          PROVE  /\ task'[d] \in {"awaiting", "returned"}
                 /\ answer'[d] = "none" /\ serving' # d /\ commits'[d] = 0
      <4>1. CASE d = c
        BY <1>1, <1>3, <4>1 DEF IInv, TypeOK
      <4>2. CASE d # c
        BY <1>3, <2>3, <3>2, <4>2 DEF IInv, QueuedOnce, TypeOK
      <4> QED  BY <4>1, <4>2
    <3> QED  BY <3>1, <3>2 DEF QueuedOnce
  <2>5. ServingOne'
    BY <1>1, <1>3 DEF IInv, ServingOne, TypeOK
  <2>6. AnswersAwaited'
    BY <1>1, <1>3, <2>3 DEF IInv, AnswersAwaited, TypeOK
  <2>7. ShutdownOrder'
    BY <1>1, <1>2, <1>3, <2>3, NamesAssumption DEF IInv, ShutdownOrder, TypeOK
  <2>8. SlotsHeld'
    <3>1. Awaiting' = Awaiting \cup {c} /\ c \notin Awaiting
      BY <1>3 DEF Awaiting, IInv, TypeOK
    <3>2. Cardinality(Awaiting') = Cardinality(Awaiting) + 1
      BY <3>1, AwaitingFinite, FS_AddElement
    <3> QED  BY <1>3, <3>2, AwaitingFinite DEF IInv, SlotsHeld, TypeOK
  <2> QED  BY <2>2, <2>4, <2>5, <2>6, <2>7, <2>8 DEF IInv
<1>4. CASE /\ ~ HasRoom
           /\ task' = [task EXCEPT ![c] = AfterError(c)]
           /\ overflow' = TRUE
           /\ UNCHANGED <<queue, free, commits>>
  <2>1. AfterError(c) \in {"outside", "returned"} /\ task[c] # "awaiting"
    BY DEF AfterError
  <2>2. TypeOK'
    BY <1>4, <2>1 DEF IInv, TypeOK, TaskStates
  <2>3. \A d : Queued(d)' <=> Queued(d)
    BY <1>4 DEF Queued
  <2>4. QueuedOnce'
    BY <1>1, <1>4, <2>3 DEF IInv, QueuedOnce, TypeOK
  <2>5. ServingOne'
    BY <1>1, <1>4 DEF IInv, ServingOne, TypeOK
  <2>6. AnswersAwaited'
    BY <1>1, <1>4, <2>1, <2>3 DEF IInv, AnswersAwaited, TypeOK
  <2>7. ShutdownOrder'
    BY <1>1, <1>2, <1>4, <2>3 DEF IInv, ShutdownOrder, TypeOK
  <2>8. Awaiting' = Awaiting
    BY <1>4, <2>1 DEF Awaiting, IInv, TypeOK
  <2>9. SlotsHeld'
    BY <1>4, <2>8 DEF IInv, SlotsHeld
  <2> QED  BY <2>2, <2>4, <2>5, <2>6, <2>7, <2>9 DEF IInv
<1> QED  BY <1>3, <1>4 DEF Enqueue

(***************************************************************************)
(* A task outside of call() that changes its state and takes no slot.      *)
(***************************************************************************)
LEMMA MovesInv ==
  ASSUME IInv, NEW c \in Callers, task[c] = "outside",
         NEW there \in {"acquiring", "returned"},
         there = "acquiring" => task[c] # "returned",
         task' = [task EXCEPT ![c] = there],
         UNCHANGED <<free, queue, exec, answer, commits, fatal, shutdown, stopping, overflow>>
  PROVE  IInv'
<1> USE DEF exec
<1>1. ~ Queued(c) /\ serving # c /\ answer[c] = "none"
  BY DEF IInv, QueuedOnce, ServingOne, AnswersAwaited, TypeOK
<1>2. shutdown \in {"no", "schedulers"} /\ (shutdown = "schedulers" => c \notin Schedulers)
  BY DEF IInv, ShutdownOrder, TypeOK, Shutdowns
<1>3. TypeOK'
  BY DEF IInv, TypeOK, TaskStates
<1>4. \A d : Queued(d)' <=> Queued(d)
  BY DEF Queued
<1>5. QueuedOnce'
  BY <1>1, <1>4 DEF IInv, QueuedOnce, TypeOK
<1>6. ServingOne'
  BY <1>1 DEF IInv, ServingOne, TypeOK
<1>7. AnswersAwaited'
  BY <1>1, <1>4 DEF IInv, AnswersAwaited, TypeOK
<1>8. ShutdownOrder'
  BY <1>2, <1>4 DEF IInv, ShutdownOrder, TypeOK
<1>9. Awaiting' = Awaiting
  BY DEF Awaiting, IInv, TypeOK
<1>10. SlotsHeld'
  BY <1>9 DEF IInv, SlotsHeld
<1> QED  BY <1>3, <1>5, <1>6, <1>7, <1>8, <1>10 DEF IInv

(***************************************************************************)
(* An answer is delivered: the task gives its slot back.                   *)
(***************************************************************************)
LEMMA DeliveredInv ==
  ASSUME IInv, NEW c \in Callers, Delivered(c)
  PROVE  IInv'
<1> USE DEF exec, ended
<1> DEFINE after == IF answer[c] = "error" THEN AfterError(c) ELSE "outside"
<1>1. /\ answer[c] # "none" /\ task[c] = "awaiting"
      /\ answer' = [answer EXCEPT ![c] = "none"]
      /\ task' = [task EXCEPT ![c] = after]
      /\ free' = free + 1
      /\ UNCHANGED <<queue, exec, commits, fatal, ended, overflow>>
  BY DEF Delivered, IInv, AnswersAwaited
<1>2. after \in {"outside", "returned"}
  BY DEF AfterError
<1>3. ~ Queued(c) /\ serving # c
  BY <1>1 DEF IInv, QueuedOnce, ServingOne
<1>4. shutdown \in {"no", "schedulers"} /\ (shutdown = "schedulers" => c \notin Schedulers)
  BY <1>1 DEF IInv, ShutdownOrder, TypeOK, Shutdowns
<1>5. \A d : Queued(d)' <=> Queued(d)
  BY <1>1 DEF Queued
<1> HIDE DEF after
<1>6. SlotsHeld' /\ free' \in 0..Size
  <2>1. Awaiting' = Awaiting \ {c} /\ c \in Awaiting
    BY <1>1, <1>2 DEF Awaiting, IInv, TypeOK
  <2>2. Cardinality(Awaiting') = Cardinality(Awaiting) - 1
    BY <2>1, AwaitingFinite, FS_RemoveElement
  <2>3. Cardinality(Awaiting') \in Nat
    BY <2>1, AwaitingFinite, FS_RemoveElement, FS_CardinalityType
  <2> QED  BY <1>1, <2>2, <2>3, AwaitingFinite, SizesAssumption DEF IInv, SlotsHeld, TypeOK
<1>7. TypeOK'
  BY <1>1, <1>2, <1>6 DEF IInv, TypeOK, TaskStates
<1>8. QueuedOnce'
  BY <1>1, <1>3, <1>5 DEF IInv, QueuedOnce, TypeOK
<1>9. ServingOne'
  BY <1>1, <1>3 DEF IInv, ServingOne, TypeOK
<1>10. AnswersAwaited'
  BY <1>1, <1>2, <1>5 DEF IInv, AnswersAwaited, TypeOK
<1>11. ShutdownOrder'
  BY <1>1, <1>4, <1>5 DEF IInv, ShutdownOrder, TypeOK
<1> QED  BY <1>6, <1>7, <1>8, <1>9, <1>10, <1>11 DEF IInv

(***************************************************************************)
(* The thread takes the next operation or the sentinel.                    *)
(***************************************************************************)
LEMMA GetInv == IInv /\ Get => IInv'
<1> SUFFICES ASSUME IInv, Get PROVE IInv'
  OBVIOUS
<1> USE DEF loop, ended
<1>1. /\ thread = "get" /\ queue # <<>> /\ queue' = Tail(queue)
      /\ UNCHANGED <<task, free, connected, answer, commits, fatal, ended, overflow>>
  BY DEF Get
<1>2. /\ queue' \in Seq(Callers \cup {Stop}) /\ Len(queue') = Len(queue) - 1
      /\ \A i \in 1..Len(queue') : queue'[i] = queue[i + 1]
      /\ Head(queue) = queue[1] /\ Head(queue) \in Callers \cup {Stop}
      /\ Len(queue) \in Nat \ {0}
  BY <1>1, Tailed DEF IInv, TypeOK
<1>3. \A d : Queued(d)' => Queued(d) /\ d # Head(queue)
  BY <1>2 DEF Queued, IInv, QueuedOnce
<1>4. \A d : Queued(d) => Queued(d)' \/ d = Head(queue)
  <2> SUFFICES ASSUME NEW i \in 1..Len(queue), i # 1
               PROVE  \E j \in 1..Len(queue') : queue'[j] = queue[i]
    BY <1>2 DEF Queued
  <2>1. i - 1 \in 1..Len(queue') /\ queue'[i - 1] = queue[i]
    BY <1>2
  <2> QED  BY <2>1
<1>5. serving \notin Callers /\ serving = Nobody /\ Queued(Head(queue))
  BY <1>1, <1>2 DEF IInv, ServingOne, TypeOK, Queued
<1>6. TypeOK'
  <2>1. Len(queue') <= Size
    BY <1>2, SizesAssumption DEF IInv, TypeOK
  <2>2. CASE Head(queue) = Stop
    BY <1>1, <1>2, <2>1, <2>2 DEF Get, IInv, TypeOK, ThreadStates
  <2>3. CASE Head(queue) # Stop
    BY <1>1, <1>2, <2>1, <2>3, SizesAssumption DEF Get, IInv, TypeOK, ThreadStates
  <2> QED  BY <2>2, <2>3
<1>7. QueuedOnce'
  <2>1. \A i, j \in 1..Len(queue') : queue'[i] = queue'[j] => i = j
    BY <1>2 DEF IInv, QueuedOnce
  <2>2. ASSUME NEW d \in Callers, Queued(d)' PROVE serving' # d
    BY <1>3, <1>5, <2>2 DEF Get
  <2> QED  BY <1>1, <1>3, <2>1, <2>2 DEF IInv, QueuedOnce
<1>8. ServingOne'
  <2>1. CASE Head(queue) = Stop
    BY <1>1, <1>5, <2>1 DEF Get, ServingOne
  <2>2. CASE Head(queue) # Stop
    <3>1. Head(queue) \in Callers /\ serving' = Head(queue) /\ thread' = "execute"
          /\ attempt' = 0
      BY <1>2, <2>2 DEF Get
    <3> QED  BY <1>1, <1>5, <3>1 DEF ServingOne, IInv, QueuedOnce
  <2> QED  BY <2>1, <2>2
<1>9. AnswersAwaited'
  <2> SUFFICES ASSUME NEW d \in Callers, task[d] = "awaiting", answer[d] = "none"
               PROVE  Queued(d)' \/ serving' = d
    BY <1>1 DEF AnswersAwaited, IInv, TypeOK
  <2>1. Queued(d)
    BY <1>5 DEF IInv, AnswersAwaited
  <2> QED  BY <1>4, <2>1, NamesAssumption DEF Get
<1>10. ShutdownOrder'
  BY <1>1, <1>3 DEF IInv, ShutdownOrder
<1>11. SlotsHeld'
  BY <1>1 DEF IInv, SlotsHeld, Awaiting
<1> QED  BY <1>6, <1>7, <1>8, <1>9, <1>10, <1>11 DEF IInv

(***************************************************************************)
(* An execution ends with an answer for the task, if it is still there,    *)
(* and with at most one more commit.                                       *)
(***************************************************************************)
LEMMA PostedInv ==
  ASSUME IInv, thread = "execute",
         NEW outcome \in {"result", "error"}, answer' = Posted(outcome),
         thread' \in {"get", "leaving"}, serving' = Nobody,
         commits' \in {commits, Committed},
         connected' \in BOOLEAN, fatal' \in BOOLEAN,
         UNCHANGED <<loop, queue, attempt, ended, overflow>>
  PROVE  IInv'
<1> USE DEF loop, ended
<1>1. /\ serving \in Callers /\ ~ Queued(serving) /\ answer[serving] = "none"
      /\ task[serving] \in {"awaiting", "returned"} /\ commits[serving] <= attempt
  BY DEF IInv, ServingOne, QueuedOnce
<1>2. \A d : Queued(d)' <=> Queued(d)
  BY DEF Queued
<1>3. /\ answer' \in [Callers -> {"none", "result", "error"}]
      /\ \A d \in Callers : d # serving => answer'[d] = answer[d]
      /\ task[serving] = "awaiting" => answer'[serving] = outcome
      /\ task[serving] # "awaiting" => answer'[serving] = "none"
  <2>1. CASE task[serving] = "awaiting"
    BY <1>1, <2>1 DEF Posted, IInv, TypeOK
  <2>2. CASE task[serving] # "awaiting"
    BY <1>1, <2>2 DEF Posted, IInv, TypeOK
  <2> QED  BY <2>1, <2>2
<1>4. /\ commits' \in [Callers -> 0..(Retries + 1)]
      /\ \A d \in Callers : d # serving => commits'[d] = commits[d]
  BY <1>1, SizesAssumption DEF Committed, IInv, TypeOK
<1>5. TypeOK'
  BY <1>3, <1>4 DEF IInv, TypeOK, ThreadStates
<1>6. QueuedOnce'
  BY <1>1, <1>2, <1>3, <1>4, NamesAssumption DEF IInv, QueuedOnce
<1>7. ServingOne'
  BY NamesAssumption DEF ServingOne
<1>8. AnswersAwaited'
  BY <1>1, <1>2, <1>3 DEF IInv, AnswersAwaited
<1>9. ShutdownOrder'
  BY <1>2 DEF IInv, ShutdownOrder
<1>10. SlotsHeld'
  BY DEF IInv, SlotsHeld, Awaiting
<1> QED  BY <1>5, <1>6, <1>7, <1>8, <1>9, <1>10 DEF IInv

(***************************************************************************)
(* The operation is to run again.                                          *)
(***************************************************************************)
LEMMA ReopenInv == IInv /\ Reopen => IInv'
<1> SUFFICES ASSUME IInv, Reopen PROVE IInv'
  OBVIOUS
<1> USE DEF loop, ended
<1>1. /\ thread = "execute" /\ attempt < Retries /\ commits' \in {commits, Committed}
      /\ attempt' = attempt + 1 /\ connected' \in BOOLEAN
      /\ UNCHANGED <<loop, queue, thread, serving, answer, fatal, ended, overflow>>
  BY DEF Reopen
<1>2. /\ serving \in Callers /\ ~ Queued(serving) /\ commits[serving] <= attempt
  BY <1>1 DEF IInv, ServingOne, QueuedOnce
<1>3. \A d : Queued(d)' <=> Queued(d)
  BY <1>1 DEF Queued
<1>4. /\ commits' \in [Callers -> 0..(Retries + 1)]
      /\ commits'[serving] <= attempt + 1
      /\ \A d \in Callers : d # serving => commits'[d] = commits[d]
  BY <1>1, <1>2, SizesAssumption DEF Committed, IInv, TypeOK
<1>5. TypeOK'
  BY <1>1, <1>4, SizesAssumption DEF IInv, TypeOK
<1>6. QueuedOnce'
  BY <1>1, <1>2, <1>3, <1>4 DEF IInv, QueuedOnce
<1>7. ServingOne'
  BY <1>1, <1>4 DEF IInv, ServingOne
<1>8. AnswersAwaited'
  BY <1>1, <1>3 DEF IInv, AnswersAwaited
<1>9. ShutdownOrder'
  BY <1>1, <1>3 DEF IInv, ShutdownOrder
<1>10. SlotsHeld'
  BY <1>1 DEF IInv, SlotsHeld, Awaiting
<1> QED  BY <1>5, <1>6, <1>7, <1>8, <1>9, <1>10 DEF IInv

(***************************************************************************)
(* A cancelled group: its members release their slots, and their           *)
(* operations stay where they are.                                         *)
(***************************************************************************)
LEMMA CancelInv ==
  ASSUME IInv, NEW group \in SUBSET Callers, Cancel(group),
         NEW next \in {"schedulers", "workers"}, shutdown' = next,
         shutdown \in {"no", "schedulers"},
         next = "schedulers" => group = Schedulers,
         next = "workers" => shutdown = "schedulers" /\ group = Workers
  PROVE  IInv'
<1> USE DEF exec
<1>1. /\ task' = [c \in Callers |-> IF c \in group THEN "returned" ELSE task[c]]
      /\ free' = free + Cardinality({c \in group : task[c] = "awaiting"})
      /\ answer' = [c \in Callers |-> IF c \in group THEN "none" ELSE answer[c]]
      /\ UNCHANGED <<queue, exec, commits, fatal, stopping, overflow>>
  BY DEF Cancel
<1>2. \A d : Queued(d)' <=> Queued(d)
  BY <1>1 DEF Queued
<1>3. SlotsHeld' /\ free' \in 0..Size
  <2> DEFINE given == {c \in group : task[c] = "awaiting"}
  <2>1. Awaiting' = Awaiting \ given /\ given = Awaiting \cap given
    BY <1>1 DEF Awaiting
  <2>2. Cardinality(Awaiting') = Cardinality(Awaiting) - Cardinality(given)
    <3> HIDE DEF given
    <3>1. Cardinality(Awaiting \ given) = Cardinality(Awaiting) - Cardinality(Awaiting \cap given)
      BY AwaitingFinite, FS_Difference
    <3> QED  BY <2>1, <3>1
  <2>3. Cardinality(given) \in Nat /\ Cardinality(Awaiting') \in Nat
    <3>1. given \in SUBSET Awaiting /\ Awaiting' \in SUBSET Awaiting
      BY <2>1
    <3> QED  BY <3>1, AwaitingFinite, FS_Subset, FS_CardinalityType
  <2>4. free' = free + Cardinality(given)
    BY <1>1
  <2> HIDE DEF given
  <2> QED  BY <2>2, <2>3, <2>4, AwaitingFinite, SizesAssumption
           DEF IInv, SlotsHeld, TypeOK
<1>4. TypeOK'
  <2>1. task' \in [Callers -> TaskStates]
    BY <1>1 DEF IInv, TypeOK, TaskStates
  <2>2. answer' \in [Callers -> {"none", "result", "error"}]
    BY <1>1 DEF IInv, TypeOK
  <2> QED  BY <1>1, <1>3, <2>1, <2>2 DEF IInv, TypeOK, Shutdowns
<1>5. QueuedOnce'
  BY <1>1, <1>2 DEF IInv, QueuedOnce
<1>6. ServingOne'
  BY <1>1 DEF IInv, ServingOne
<1>7. AnswersAwaited'
  BY <1>1, <1>2 DEF IInv, AnswersAwaited
<1>8. ShutdownOrder'
  BY <1>1, <1>2, NamesAssumption DEF IInv, ShutdownOrder, Callers
<1> QED  BY <1>3, <1>4, <1>5, <1>6, <1>7, <1>8 DEF IInv

(***************************************************************************)
(* close() finds the thread stopped, queues the sentinel, or fails.        *)
(***************************************************************************)
LEMMA CloseInv == IInv /\ Close => IInv'
<1> SUFFICES ASSUME IInv, Close PROVE IInv'
  OBVIOUS
<1> USE DEF loop, exec
<1>1. /\ shutdown = "workers"
      /\ UNCHANGED <<loop, exec, answer, commits, fatal, stopping, overflow>>
  BY DEF Close
<1>2. \A c \in Callers : task[c] = "returned"
  BY <1>1 DEF IInv, ShutdownOrder
<1>3. CASE /\ thread # "stopped" /\ free > 0 /\ HasRoom
           /\ queue' = WithStop /\ shutdown' = "joining"
  <2>1. /\ queue' \in Seq(Callers \cup {Stop}) /\ Len(queue') = Len(queue) + 1
        /\ \A i \in 1..Len(queue) : queue'[i] = queue[i]
        /\ queue'[Len(queue) + 1] = Stop /\ Len(queue) \in Nat
    BY <1>3, Appended DEF IInv, TypeOK, WithStop
  <2>2. \A d : Queued(d)' <=> Queued(d) \/ d = Stop
    BY <2>1 DEF Queued
  <2>3. TypeOK'
    BY <1>1, <1>3, <2>1, SizesAssumption DEF IInv, TypeOK, Shutdowns, HasRoom
  <2>4. ~ Queued(Stop)
    BY <1>1 DEF IInv, ShutdownOrder
  <2>5. QueuedOnce'
    <3>1. \A i, j \in 1..Len(queue') : queue'[i] = queue'[j] => i = j
      BY <2>1, <2>4 DEF IInv, QueuedOnce, Queued
    <3> QED  BY <1>1, <2>2, <3>1, NamesAssumption DEF IInv, QueuedOnce
  <2>6. ServingOne'
    BY <1>1 DEF IInv, ServingOne
  <2>7. AnswersAwaited'
    BY <1>1, <1>2, <2>2 DEF IInv, AnswersAwaited
  <2>8. ShutdownOrder'
    BY <1>1, <1>2, <1>3 DEF ShutdownOrder
  <2>9. SlotsHeld'
    BY <1>1 DEF IInv, SlotsHeld, Awaiting
  <2> QED  BY <2>3, <2>5, <2>6, <2>7, <2>8, <2>9 DEF IInv
<1>4. CASE shutdown' \in {"closed", "failed"} /\ UNCHANGED queue
  <2>1. \A d : Queued(d)' <=> Queued(d)
    BY <1>4 DEF Queued
  <2>2. TypeOK'
    BY <1>1, <1>4 DEF IInv, TypeOK, Shutdowns
  <2>3. QueuedOnce'
    BY <1>1, <1>4, <2>1 DEF IInv, QueuedOnce
  <2>4. ServingOne'
    BY <1>1 DEF IInv, ServingOne
  <2>5. AnswersAwaited'
    BY <1>1, <2>1 DEF IInv, AnswersAwaited
  <2>6. ShutdownOrder'
    BY <1>1, <1>2, <1>4, <2>1 DEF IInv, ShutdownOrder
  <2>7. SlotsHeld'
    BY <1>1 DEF IInv, SlotsHeld, Awaiting
  <2> QED  BY <2>2, <2>3, <2>4, <2>5, <2>6, <2>7 DEF IInv
<1> QED  BY <1>3, <1>4 DEF Close

(***************************************************************************)
(* Steps that change only the flags of the shutdown or of the thread.      *)
(***************************************************************************)
LEMMA FlagsInv ==
  ASSUME IInv,
         UNCHANGED <<task, free, queue, serving, attempt, answer, commits, overflow>>,
         fatal' \in BOOLEAN, stopping' \in BOOLEAN, connected' \in BOOLEAN,
         thread' = thread \/ (thread = "leaving" /\ thread' = "stopped"),
         shutdown' = shutdown \/ (shutdown = "joining" /\ shutdown' = "closed")
  PROVE  IInv'
<1>1. \A d : Queued(d)' <=> Queued(d)
  BY DEF Queued
<1>2. TypeOK'
  BY DEF IInv, TypeOK, ThreadStates, Shutdowns
<1>3. QueuedOnce'
  BY <1>1 DEF IInv, QueuedOnce
<1>4. ServingOne'
  BY DEF IInv, ServingOne
<1>5. AnswersAwaited'
  BY <1>1 DEF IInv, AnswersAwaited
<1>6. ShutdownOrder'
  BY <1>1 DEF IInv, ShutdownOrder
<1>7. SlotsHeld'
  BY DEF IInv, SlotsHeld, Awaiting
<1> QED  BY <1>2, <1>3, <1>4, <1>5, <1>6, <1>7 DEF IInv

(***************************************************************************)
(* Every step keeps the invariant.                                         *)
(***************************************************************************)
LEMMA InvStep == IInv /\ [Next]_vars => IInv'
<1> SUFFICES ASSUME IInv, [Next]_vars PROVE IInv'
  OBVIOUS
<1>0. fatal \in BOOLEAN /\ stopping \in BOOLEAN /\ connected \in BOOLEAN
  BY DEF IInv, TypeOK
<1>1. ASSUME NEW c \in Callers, Call(c) PROVE IInv'
  <2>1. free > 0
    BY <1>1 DEF Call, Locked, IInv, TypeOK
  <2> QED  BY <1>1, <2>1, EnqueueInv DEF Call
<1>2. ASSUME NEW c \in Callers, CallWaits(c) PROVE IInv'
  BY <1>2, MovesInv DEF CallWaits, ended
<1>3. ASSUME NEW c \in Callers, Acquired(c) PROVE IInv'
  BY <1>3, EnqueueInv DEF Acquired
<1>4. ASSUME NEW c \in Callers, CallRefused(c) PROVE IInv'
  BY <1>4, MovesInv DEF CallRefused, ended
<1>5. ASSUME NEW c \in Callers, Delivered(c) PROVE IInv'
  BY <1>5, DeliveredInv
<1>6. ASSUME NEW c \in Callers, Returns(c) PROVE IInv'
  BY <1>6, MovesInv DEF Returns, ended
<1>7. CASE Get
  BY <1>7, GetInv
<1>8. CASE Succeeds
  BY <1>8, PostedInv DEF Succeeds, IInv, TypeOK
<1>9. CASE OperationFails
  BY <1>9, PostedInv DEF OperationFails, IInv, TypeOK
<1>10. CASE TooLarge
  <2>1. commits' \in {commits, Committed}
    BY <1>10 DEF TooLarge
  <2> QED  BY <1>10, <2>1, PostedInv DEF TooLarge, Fail, IInv, TypeOK
<1>11. CASE Reopen
  BY <1>11, ReopenInv
<1>12. CASE GiveUp
  <2>1. commits' \in {commits, Committed}
    BY <1>12 DEF GiveUp
  <2> QED  BY <1>12, <2>1, PostedInv DEF GiveUp, Fail, IInv, TypeOK
<1>13. CASE Leave
  <2>1. /\ UNCHANGED <<task, free, queue, serving, attempt, answer, commits, overflow>>
        /\ thread' = thread \/ (thread = "leaving" /\ thread' = "stopped")
        /\ shutdown' = shutdown \/ (shutdown = "joining" /\ shutdown' = "closed")
    BY <1>13 DEF Leave, loop, ended
  <2>2. /\ fatal' = fatal
        /\ stopping' = stopping \/ stopping' = TRUE
        /\ connected' = connected \/ connected' = FALSE
    BY <1>13 DEF Leave, loop, ended
  <2>3. fatal' \in BOOLEAN /\ stopping' \in BOOLEAN /\ connected' \in BOOLEAN
    BY <1>0, <2>2, Zenon
  <2> QED  BY <2>1, <2>3, FlagsInv
<1>14. CASE Signal \/ Monitor
  <2>1. /\ UNCHANGED <<task, free, queue, serving, attempt, answer, commits, overflow>>
        /\ thread' = thread \/ (thread = "leaving" /\ thread' = "stopped")
        /\ shutdown' = shutdown \/ (shutdown = "joining" /\ shutdown' = "closed")
    BY <1>14 DEF Signal, Monitor, loop, exec
  <2>2. /\ fatal' = fatal
        /\ stopping' = stopping \/ stopping' = TRUE
        /\ connected' = connected \/ connected' = FALSE
    BY <1>14 DEF Signal, Monitor, loop, exec
  <2>3. fatal' \in BOOLEAN /\ stopping' \in BOOLEAN /\ connected' \in BOOLEAN
    BY <1>0, <2>2, Zenon
  <2> QED  BY <2>1, <2>3, FlagsInv
<1>15. CASE CancelSchedulers
  BY <1>15, CancelInv DEF CancelSchedulers, Callers
<1>16. CASE CancelWorkers
  BY <1>16, CancelInv DEF CancelWorkers, Callers
<1>17. CASE Close
  BY <1>17, CloseInv
<1>18. CASE Joined
  <2>1. /\ UNCHANGED <<task, free, queue, serving, attempt, answer, commits, overflow>>
        /\ thread' = thread \/ (thread = "leaving" /\ thread' = "stopped")
        /\ shutdown' = shutdown \/ (shutdown = "joining" /\ shutdown' = "closed")
    BY <1>18 DEF Joined, loop, exec
  <2>2. /\ fatal' = fatal
        /\ stopping' = stopping \/ stopping' = TRUE
        /\ connected' = connected \/ connected' = FALSE
    BY <1>18 DEF Joined, loop, exec
  <2>3. fatal' \in BOOLEAN /\ stopping' \in BOOLEAN /\ connected' \in BOOLEAN
    BY <1>0, <2>2, Zenon
  <2> QED  BY <2>1, <2>3, FlagsInv
<1>19. CASE UNCHANGED vars
  <2>1. /\ UNCHANGED <<task, free, queue, serving, attempt, answer, commits, overflow>>
        /\ thread' = thread \/ (thread = "leaving" /\ thread' = "stopped")
        /\ shutdown' = shutdown \/ (shutdown = "joining" /\ shutdown' = "closed")
    BY <1>19 DEF vars, loop, exec, ended
  <2>2. /\ fatal' = fatal
        /\ stopping' = stopping \/ stopping' = TRUE
        /\ connected' = connected \/ connected' = FALSE
    BY <1>19 DEF vars, loop, exec, ended
  <2>3. fatal' \in BOOLEAN /\ stopping' \in BOOLEAN /\ connected' \in BOOLEAN
    BY <1>0, <2>2, Zenon
  <2> QED  BY <2>1, <2>3, FlagsInv
<1> QED  BY <1>1, <1>2, <1>3, <1>4, <1>5, <1>6, <1>7, <1>8, <1>9, <1>10, <1>11,
            <1>12, <1>13, <1>14, <1>15, <1>16, <1>17, <1>18, <1>19
         DEF Next, ThreadStep, Shutdown

(***************************************************************************)
(* The invariant holds in every reachable state.                           *)
(***************************************************************************)
THEOREM Invariance == Spec => []IInv
<1>1. Init => IInv
  BY InvInit
<1>2. IInv /\ [Next]_vars => IInv'
  BY InvStep
<1> QED  BY <1>1, <1>2, PTL DEF Spec

-----------------------------------------------------------------------------
(* The theorems *)

(***************************************************************************)
(* Type correctness.  The bound of `commits' says that an operation is     *)
(* committed at most once for each of its attempts, and that of `free'     *)
(* that no slot is released twice.                                         *)
(***************************************************************************)
THEOREM TypeCorrect == Spec => []TypeOK
<1>1. IInv => TypeOK
  BY DEF IInv
<1> QED  BY <1>1, Invariance, PTL

(***************************************************************************)
(* Every step keeps the capacity of the queue when there are more slots    *)
(* than tasks.                                                             *)
(***************************************************************************)
LEMMA CapacityStep ==
  ASSUME Cardinality(Callers) < Size
  PROVE  IInv /\ QueueCapacity /\ [Next]_vars => QueueCapacity'
<1> SUFFICES ASSUME IInv, QueueCapacity, [Next]_vars PROVE QueueCapacity'
  OBVIOUS
<1>1. Cardinality(Callers) \in Nat /\ Len(queue) \in Nat /\ Size \in Nat
  BY NamesAssumption, SizesAssumption, FS_CardinalityType DEF IInv, TypeOK
<1>2. ASSUME NEW c \in Callers, task[c] \in {"outside", "acquiring"}, Enqueue(c),
             UNCHANGED ended
      PROVE  QueueCapacity'
  <2>1. HasRoom
    BY <1>1, <1>2, QueueShort DEF HasRoom
  <2> QED  BY <1>2, <2>1 DEF Enqueue, QueueCapacity, ended
<1>3. ASSUME NEW c \in Callers, Call(c) PROVE QueueCapacity'
  BY <1>2, <1>3 DEF Call
<1>4. ASSUME NEW c \in Callers, Acquired(c) PROVE QueueCapacity'
  BY <1>2, <1>4 DEF Acquired
<1>5. CASE Close
  <2>1. Len(queue) <= Cardinality(Callers)
    BY <1>5, QueueShortAtClose DEF Close
  <2>2. HasRoom
    BY <1>1, <2>1 DEF HasRoom
  <2> QED  BY <1>5, <2>2 DEF Close, QueueCapacity
<1>6. ASSUME NEW c \in Callers,
             CallWaits(c) \/ CallRefused(c) \/ Delivered(c) \/ Returns(c)
      PROVE  QueueCapacity'
  BY <1>6 DEF CallWaits, CallRefused, Delivered, Returns, ended, QueueCapacity
<1>7. CASE ThreadStep
  BY <1>7 DEF ThreadStep, Get, Succeeds, OperationFails, TooLarge, Reopen, GiveUp,
              Leave, ended, QueueCapacity
<1>8. CASE Signal \/ Monitor
  BY <1>8 DEF Signal, Monitor, QueueCapacity
<1>9. CASE CancelSchedulers \/ CancelWorkers \/ Joined
  BY <1>9 DEF CancelSchedulers, CancelWorkers, Joined, Cancel, QueueCapacity
<1>10. CASE UNCHANGED vars
  BY <1>10 DEF vars, ended, QueueCapacity
<1> QED  BY <1>3, <1>4, <1>5, <1>6, <1>7, <1>8, <1>9, <1>10 DEF Next, Shutdown

(***************************************************************************)
(* The queue never refuses the holder of a slot, nor the sentinel of       *)
(* close(), when DB_QUEUE_SIZE is larger than the number of calling tasks. *)
(* The default configuration has 64 slots for 34 tasks.                    *)
(***************************************************************************)
THEOREM QueueCapacityCorrect ==
  ASSUME Cardinality(Callers) < Size
  PROVE  Spec => []QueueCapacity
<1>1. Init => QueueCapacity
  BY DEF Init, QueueCapacity
<1>2. IInv /\ QueueCapacity /\ [Next]_vars => QueueCapacity'
  BY CapacityStep
<1> QED  BY <1>1, <1>2, Invariance, PTL DEF Spec

(***************************************************************************)
(* Before the shutdown cancels anybody, every operation in the queue has a *)
(* task that awaits it and holds a slot.                                   *)
(***************************************************************************)
NobodyCancelled ==
    shutdown = "no" => \A c \in Callers : Queued(c) => task[c] = "awaiting"

LEMMA RoomForHolder ==
  ASSUME IInv, NobodyCancelled, shutdown = "no", free > 0
  PROVE  HasRoom
<1>1. queue \in Seq(Callers \cup {Stop}) /\ free \in Nat /\ Size \in Nat /\ ~ Queued(Stop)
  BY SizesAssumption DEF IInv, TypeOK, ShutdownOrder
<1>2. \A i \in 1..Len(queue) : queue[i] \in Awaiting
  BY <1>1 DEF Queued, NobodyCancelled, Awaiting
<1>3. queue \in Seq(Awaiting)
  <2>1. queue \in [1..Len(queue) -> Awaiting] /\ Len(queue) \in Nat
    BY <1>1, <1>2
  <2> QED  BY <2>1
<1>4. Len(queue) <= Cardinality(Awaiting)
  BY <1>3, AwaitingFinite, NoRepetitionLength DEF IInv, QueuedOnce
<1>5. free + Cardinality(Awaiting) = Size
  BY DEF IInv, SlotsHeld
<1>6. Len(queue) \in Nat
  BY <1>1
<1> QED  BY <1>1, <1>4, <1>5, <1>6, AwaitingFinite DEF HasRoom

LEMMA NobodyCancelledStep ==
  IInv /\ NobodyCancelled /\ [Next]_vars => NobodyCancelled'
<1> SUFFICES ASSUME IInv, NobodyCancelled, [Next]_vars, shutdown' = "no", NEW c \in Callers,
                    Queued(c)'
             PROVE  task'[c] = "awaiting"
  BY DEF NobodyCancelled
<1>0. queue \in Seq(Callers \cup {Stop}) /\ task \in [Callers -> TaskStates]
  BY DEF IInv, TypeOK
<1>1. ASSUME NEW d \in Callers, Enqueue(d), shutdown = "no", task[d] # "awaiting"
      PROVE  task'[c] = "awaiting"
  <2>1. CASE HasRoom
    <3>1. queue' = Append(queue, d) /\ task' = [task EXCEPT ![d] = "awaiting"]
      BY <1>1, <2>1 DEF Enqueue
    <3>2. c = d \/ Queued(c)
      BY <1>0, <3>1 DEF Queued
    <3> QED  BY <1>0, <1>1, <3>1, <3>2 DEF NobodyCancelled
  <2>2. CASE ~ HasRoom
    <3>1. queue' = queue /\ task' = [task EXCEPT ![d] = AfterError(d)]
      BY <1>1, <2>2 DEF Enqueue
    <3>2. Queued(c)
      BY <3>1 DEF Queued
    <3> QED  BY <1>0, <1>1, <3>1, <3>2 DEF NobodyCancelled
  <2> QED  BY <2>1, <2>2
<1>2. ASSUME NEW d \in Callers, Call(d) \/ Acquired(d) PROVE task'[c] = "awaiting"
  BY <1>1, <1>2 DEF Call, Acquired, ended
<1>3. ASSUME NEW d \in Callers, CallWaits(d) \/ CallRefused(d) \/ Returns(d)
      PROVE  task'[c] = "awaiting"
  <2>1. queue' = queue /\ shutdown = "no" /\ task[d] = "outside" /\ \A e \in Callers \ {d} : task'[e] = task[e]
    BY <1>0, <1>3 DEF CallWaits, CallRefused, Returns, ended
  <2>2. Queued(c)
    BY <2>1 DEF Queued
  <2> QED  BY <2>1, <2>2 DEF NobodyCancelled
<1>4. ASSUME NEW d \in Callers, Delivered(d) PROVE task'[c] = "awaiting"
  <2>1. queue' = queue /\ shutdown = "no" /\ answer[d] # "none" /\ \A e \in Callers \ {d} : task'[e] = task[e]
    BY <1>0, <1>4 DEF Delivered, ended
  <2>2. Queued(c)
    BY <2>1 DEF Queued
  <2>3. c # d
    BY <2>1, <2>2 DEF IInv, QueuedOnce
  <2> QED  BY <2>1, <2>2, <2>3 DEF NobodyCancelled
<1>5. CASE Get
  <2>1. queue' = Tail(queue) /\ queue # <<>> /\ task' = task /\ shutdown = "no"
    BY <1>5 DEF Get, loop, ended
  <2>2. Queued(c)
    BY <1>0, <2>1 DEF Queued
  <2> QED  BY <2>1, <2>2 DEF NobodyCancelled
<1>6. CASE Succeeds \/ OperationFails \/ TooLarge \/ Reopen \/ GiveUp \/ Leave
           \/ Signal \/ Monitor \/ UNCHANGED vars
  <2>1. queue' = queue /\ task' = task /\ shutdown = "no"
    BY <1>6 DEF Succeeds, OperationFails, TooLarge, Reopen, GiveUp, Leave, Signal, Monitor,
       Fail, loop, ended, vars
  <2>2. Queued(c)
    BY <2>1 DEF Queued
  <2> QED  BY <2>1, <2>2 DEF NobodyCancelled
<1>7. CASE Shutdown
  BY <1>7 DEF Shutdown, CancelSchedulers, CancelWorkers, Close, Joined
<1> QED  BY <1>2, <1>3, <1>4, <1>5, <1>6, <1>7 DEF Next, ThreadStep

(***************************************************************************)
(* The queue never refuses the holder of a slot while nobody has been      *)
(* cancelled, for any number of tasks and slots: a slot is room.           *)
(***************************************************************************)
THEOREM HolderFindsRoomCorrect == Spec => []HolderFindsRoom
<1> DEFINE Inv == IInv /\ NobodyCancelled /\ HolderFindsRoom
<1>1. Init => Inv
  BY InvInit DEF Init, NobodyCancelled, HolderFindsRoom, Queued
<1>2. Inv /\ [Next]_vars => Inv'
  <2> SUFFICES ASSUME Inv, [Next]_vars, shutdown' = "no" PROVE ~ overflow'
    BY InvStep, NobodyCancelledStep DEF HolderFindsRoom
  <2>1. ASSUME NEW c \in Callers, Call(c) \/ Acquired(c) PROVE ~ overflow'
    <3>1. shutdown = "no" /\ free > 0 /\ Enqueue(c)
      BY <2>1 DEF Call, Acquired, Locked, ended, IInv, TypeOK
    <3>2. HasRoom
      BY <3>1, RoomForHolder
    <3> QED  BY <3>1, <3>2 DEF Enqueue, HolderFindsRoom
  <2>2. ASSUME NEW c \in Callers,
               CallWaits(c) \/ CallRefused(c) \/ Delivered(c) \/ Returns(c)
        PROVE  ~ overflow'
    BY <2>2 DEF CallWaits, CallRefused, Delivered, Returns, ended, HolderFindsRoom
  <2>3. CASE ThreadStep \/ Signal \/ Monitor \/ UNCHANGED vars
    BY <2>3 DEF ThreadStep, Get, Succeeds, OperationFails, TooLarge, Reopen, GiveUp,
       Leave, Fail, Signal, Monitor, ended, vars, HolderFindsRoom
  <2>4. CASE Shutdown
    BY <2>4 DEF Shutdown, CancelSchedulers, CancelWorkers, Close, Joined
  <2> QED  BY <2>1, <2>2, <2>3, <2>4 DEF Next
<1>3. Inv => HolderFindsRoom
  OBVIOUS
<1> QED  BY <1>1, <1>2, <1>3, PTL DEF Spec

(***************************************************************************)
(* A sequence without repetition holds an element at one place or at none. *)
(***************************************************************************)
LEMMA Places ==
  ASSUME IInv, NEW c
  PROVE  Cardinality({i \in 1..Len(queue) : queue[i] = c}) = IF Queued(c) THEN 1 ELSE 0
<1>1. CASE Queued(c)
  <2>1. PICK i \in 1..Len(queue) : queue[i] = c
    BY <1>1 DEF Queued
  <2>2. {j \in 1..Len(queue) : queue[j] = c} = {i}
    BY <2>1 DEF IInv, QueuedOnce
  <2> QED  BY <1>1, <2>2, FS_Singleton
<1>2. CASE ~ Queued(c)
  <2>1. {j \in 1..Len(queue) : queue[j] = c} = {}
    BY <1>2 DEF Queued
  <2> QED  BY <1>2, <2>1, FS_EmptySet
<1> QED  BY <1>1, <1>2

(***************************************************************************)
(* The slots are conserved, and a task that awaits an answer has exactly   *)
(* one operation under way, for any number of tasks and slots.             *)
(***************************************************************************)
THEOREM SlotsMatchCorrect == Spec => []SlotsMatch
<1>1. ASSUME IInv PROVE SlotsMatch
  <2>1. free + Cardinality(Awaiting) = Size
    BY <1>1 DEF IInv, SlotsHeld
  <2>2. ASSUME NEW c \in Awaiting
        PROVE  Cardinality({i \in 1..Len(queue) : queue[i] = c})
                 + (IF serving = c THEN 1 ELSE 0)
                 + (IF answer[c] # "none" THEN 1 ELSE 0) = 1
    <3>1. c \in Callers /\ task[c] = "awaiting"
      BY DEF Awaiting
    <3>2. Cardinality({i \in 1..Len(queue) : queue[i] = c}) = IF Queued(c) THEN 1 ELSE 0
      BY <1>1, Places
    <3>3. CASE Queued(c)
      BY <1>1, <3>1, <3>2, <3>3 DEF IInv, QueuedOnce
    <3>4. CASE serving = c /\ ~ Queued(c)
      BY <1>1, <3>1, <3>2, <3>4 DEF IInv, ServingOne
    <3>5. CASE answer[c] # "none" /\ serving # c /\ ~ Queued(c)
      BY <3>2, <3>5
    <3> QED  BY <1>1, <3>1, <3>3, <3>4, <3>5 DEF IInv, AnswersAwaited
  <2> QED  BY <2>1, <2>2 DEF SlotsMatch
<1> QED  BY <1>1, Invariance, PTL

(***************************************************************************)
(* The sentinel is last in the queue, so that the thread leaves its loop   *)
(* with an empty queue unless it has failed; and close() is over only      *)
(* when the thread is.                                                     *)
(***************************************************************************)
Draining ==
    /\ \A i \in 1..Len(queue) : queue[i] = Stop => i = Len(queue)
    /\ thread \in {"leaving", "stopped"} /\ ~ fatal =>
          queue = <<>> /\ shutdown \in {"joining", "closed"}
    /\ shutdown = "closed" => thread = "stopped"

LEMMA DrainingStep ==
  IInv /\ Draining /\ [Next]_vars => Draining'
<1> SUFFICES ASSUME IInv, Draining, [Next]_vars PROVE Draining'
  OBVIOUS
<1>0. queue \in Seq(Callers \cup {Stop}) /\ Len(queue) \in Nat
  BY DEF IInv, TypeOK
<1>1. ASSUME NEW c \in Callers, Call(c) \/ Acquired(c) PROVE Draining'
  <2>1. shutdown \in {"no", "schedulers"} /\ UNCHANGED <<thread, fatal, shutdown>>
    BY <1>1 DEF Call, Acquired, exec, ended, IInv, ShutdownOrder, TypeOK, Shutdowns
  <2>2. ~ Queued(Stop)
    BY <2>1 DEF IInv, ShutdownOrder
  <2>3. queue' = Append(queue, c) \/ queue' = queue
    BY <1>1 DEF Call, Acquired, Enqueue
  <2>4. \A i \in 1..Len(queue') : queue'[i] = Stop => i = Len(queue')
    <3>1. CASE queue' = Append(queue, c)
      BY <1>0, <2>2, <3>1, Appended DEF Queued
    <3>2. CASE queue' = queue
      BY <3>2 DEF Draining
    <3> QED  BY <2>3, <3>1, <3>2
  <2> QED  BY <2>1, <2>4 DEF Draining
<1>2. ASSUME NEW c \in Callers,
             CallWaits(c) \/ CallRefused(c) \/ Delivered(c) \/ Returns(c)
      PROVE  Draining'
  BY <1>2 DEF CallWaits, CallRefused, Delivered, Returns, exec, ended, Draining
<1>3. CASE Get
  <2>1. /\ thread = "get" /\ queue # <<>> /\ queue' = Tail(queue)
        /\ UNCHANGED <<fatal, shutdown>> /\ shutdown # "closed"
    BY <1>3 DEF Get, ended, Draining
  <2>2. /\ Len(Tail(queue)) = Len(queue) - 1 /\ Len(queue) \in Nat \ {0}
        /\ \A i \in 1..Len(Tail(queue)) : Tail(queue)[i] = queue[i + 1]
        /\ Head(queue) = queue[1] /\ Tail(queue) \in Seq(Callers \cup {Stop})
    BY <1>0, <2>1, Tailed
  <2>3. CASE Head(queue) = Stop
    <3>0. 1 \in 1..Len(queue) /\ queue[1] = Stop
      BY <2>2, <2>3
    <3>1. Queued(Stop) /\ 1 = Len(queue)
      BY <3>0 DEF Queued, Draining
    <3>2. shutdown = "joining" /\ Tail(queue) = <<>>
      BY <2>1, <2>2, <3>1 DEF IInv, ShutdownOrder
    <3>3. thread' = "leaving"
      BY <1>3, <2>3 DEF Get
    <3> QED  BY <2>1, <3>2, <3>3 DEF Draining
  <2>4. CASE Head(queue) # Stop
    <3>1. thread' = "execute"
      BY <1>3, <2>4 DEF Get
    <3>2. \A i \in 1..Len(queue') : queue'[i] = Stop => i = Len(queue')
      <4> SUFFICES ASSUME NEW i \in 1..Len(Tail(queue)), Tail(queue)[i] = Stop
                   PROVE  i = Len(Tail(queue))
        BY <2>1
      <4>1. i \in Int /\ i + 1 \in 1..Len(queue) /\ queue[i + 1] = Stop
        BY <2>2
      <4>2. i + 1 = Len(queue)
        BY <4>1 DEF Draining
      <4>3. Len(Tail(queue)) = Len(queue) - 1
        BY <2>2
      <4>4. i \in Int
        BY <4>1
      <4>5. i = Len(queue) - 1
        <5> DEFINE n == Len(queue)
        <5>1. i \in Int /\ i + 1 = n
          BY <4>4, <4>2
        <5> HIDE DEF n
        <5>2. i = n - 1
          BY <5>1, Z3
        <5> QED  BY <5>2 DEF n
      <4> QED  BY ONLY <4>3, <4>5, Zenon
    <3> QED  BY <2>1, <3>1, <3>2 DEF Draining
  <2> QED  BY <2>3, <2>4
<1>4. CASE Succeeds \/ OperationFails \/ Reopen
  BY <1>4 DEF Succeeds, OperationFails, Reopen, ended, Draining
<1>5. CASE TooLarge \/ GiveUp
  BY <1>5 DEF TooLarge, GiveUp, Fail, ended, Draining
<1>6. CASE Leave \/ Signal \/ Monitor \/ UNCHANGED vars
  BY <1>6 DEF Leave, Signal, Monitor, exec, ended, vars, Draining
<1>7. CASE CancelSchedulers \/ CancelWorkers
  BY <1>7 DEF CancelSchedulers, CancelWorkers, Cancel, exec, Draining
<1>8. CASE Close
  <2>1. shutdown = "workers" /\ UNCHANGED <<thread, fatal>> /\ ~ Queued(Stop)
    BY <1>8 DEF Close, exec, IInv, ShutdownOrder
  <2>2. CASE thread = "stopped"
    BY <1>8, <2>1, <2>2 DEF Close, Draining
  <2>3. CASE thread # "stopped"
    <3>1. shutdown' # "closed" /\ (queue' = queue \/ queue' = Append(queue, Stop))
      BY <1>8, <2>3 DEF Close, WithStop
    <3>2. \A i \in 1..Len(queue') : queue'[i] = Stop => i = Len(queue')
      <4>1. CASE queue' = Append(queue, Stop)
        BY <1>0, <2>1, <4>1, Appended DEF Queued
      <4>2. CASE queue' = queue
        BY <4>2 DEF Draining
      <4> QED  BY <3>1, <4>1, <4>2
    <3> QED  BY <2>1, <2>3, <3>1, <3>2 DEF Draining
  <2> QED  BY <2>2, <2>3
<1>9. CASE Joined
  BY <1>9 DEF Joined, exec, Draining
<1> QED  BY <1>1, <1>2, <1>3, <1>4, <1>5, <1>6, <1>7, <1>8, <1>9
         DEF Next, ThreadStep, Shutdown

(***************************************************************************)
(* A shutdown that ends has executed everything that was ever queued,      *)
(* unless the worker has failed.                                           *)
(***************************************************************************)
THEOREM DrainedOnCloseCorrect == Spec => []DrainedOnClose
<1> DEFINE Inv == IInv /\ Draining
<1>1. Init => Inv
  BY InvInit DEF Init, Draining
<1>2. Inv /\ [Next]_vars => Inv'
  BY InvStep, DrainingStep
<1>3. Inv => DrainedOnClose
  BY DEF IInv, TypeOK, ServingOne, Draining, DrainedOnClose
<1> QED  BY <1>1, <1>2, <1>3, PTL DEF Spec
=============================================================================
