-------------------------- MODULE JSONLWriterProofs --------------------------
(***************************************************************************)
(* Proofs about JSONLWriter for any size of the queue, any number of       *)
(* events and any choice of what may go wrong.                             *)
(***************************************************************************)
EXTENDS JSONLWriter, SequenceTheorems, TLAPS

-----------------------------------------------------------------------------
(* The inductive invariant *)

Requests == {"snapshot", "flush", "final"}

\* The thread has written or buffered the first so many events.
written == Len(file) + Len(buffer)

InPlace(f, b) ==
    /\ \A i \in 1..Len(f) : f[i] = i
    /\ \A i \in 1..Len(b) : b[i] = Len(f) + i

\* A queue of the events from w + 1 to n.
InOrder(q, w, n) ==
    /\ Len(q) = n - w
    /\ \A i \in 1..Len(q) : q[i] = Event(w + i)

\* A queue of the events from w + 1 to n, with a request after event m.
WithRequest(q, w, n, m, r) ==
    /\ w <= m /\ m <= n
    /\ Len(q) = n - w + 1
    /\ \A i \in 1..Len(q) :
          /\ i < m - w + 1 => q[i] = Event(w + i)
          /\ i = m - w + 1 => q[i] = r
          /\ i > m - w + 1 => q[i] = Event(w + i - 1)

\* The shutdown sequence has queued something that the thread has not taken.
Pending ==
    /\ thread = "get"
    /\ op = "join" \/ (op \in Requests /\ at = "wait" /\ answer = "none")

Place == IF op = "join" THEN accepted ELSE mark
Asked == IF op = "join" THEN Request("stop") ELSE Item[op]

\* At most one request is under way; the thread is with its event or its
\* request, and the events are where they belong.
Order ==
    /\ InPlace(file, buffer)
    /\ Pending => WithRequest(queue, written, accepted, Place, Asked)
    /\ ~ Pending => InOrder(queue, written, accepted)

\* The thread and the shutdown sequence take turns.
Turns ==
    /\ answer # "none" =>
          op \in Requests /\ at = "wait" /\ thread \notin {"snapshot", "synced"}
    /\ thread \in {"snapshot", "synced"} => op = "snapshot" /\ at = "wait"
    /\ op \in {"stop", "join"} => stop
    /\ op = "close" => at # "wait"
    /\ thread \in {"ending", "stopped"} => stop /\ op \in {"join", "done"} /\ queue = <<>>
    /\ thread = "stopped" => buffer = <<>>
    /\ thread = "dead" => op = "done"

\* What holds as long as no write fails.
Smooth ==
    /\ ~ fatal /\ thread # "draining"
    /\ Turns
    /\ thread # "dead" => Order
    /\ answer = "ok" /\ op \in {"flush", "final"} => mark <= Len(file)

\* The file that is put in place has been synced.
SyncedFirst == path # "torn" /\ (thread = "synced" => tmp = "whole")

IInv == TypeOK /\ SyncedFirst /\ ("write" \notin env => Smooth)
-----------------------------------------------------------------------------
(* Lemmas about sequences, the queue and the file *)

(***************************************************************************)
(* What the tail of a nonempty sequence holds.                             *)
(***************************************************************************)
LEMMA Tailed ==
  ASSUME NEW S, NEW q \in Seq(S), q # <<>>
  PROVE  /\ Tail(q) \in Seq(S) /\ Len(Tail(q)) = Len(q) - 1 /\ Len(q) \in Nat \ {0}
         /\ \A i \in 1..Len(Tail(q)) : Tail(q)[i] = q[i + 1]
         /\ Head(q) = q[1] /\ Head(q) \in S
OBVIOUS

(***************************************************************************)
(* What an appended sequence holds.                                        *)
(***************************************************************************)
LEMMA Appended ==
  ASSUME NEW S, NEW q \in Seq(S), NEW x \in S
  PROVE  /\ Append(q, x) \in Seq(S) /\ Len(Append(q, x)) = Len(q) + 1
         /\ \A i \in 1..Len(q) : Append(q, x)[i] = q[i]
         /\ Append(q, x)[Len(q) + 1] = x
OBVIOUS

(***************************************************************************)
(* What two sequences in a row hold.                                       *)
(***************************************************************************)
LEMMA InARow ==
  ASSUME NEW S, NEW f \in Seq(S), NEW b \in Seq(S)
  PROVE  /\ f \o b \in Seq(S) /\ Len(f \o b) = Len(f) + Len(b)
         /\ \A i \in 1..Len(f) : (f \o b)[i] = f[i]
         /\ \A i \in 1..Len(b) : (f \o b)[Len(f) + i] = b[i]
OBVIOUS

(***************************************************************************)
(* An event is not a request.                                              *)
(***************************************************************************)
LEMMA EventIsNoRequest ==
  ASSUME NEW e, NEW kind \in {"snapshot", "flush", "stop"}
  PROVE  Event(e) # Request(kind)
BY DEF Event, Request

(***************************************************************************)
(* Two events are the same if their numbers are.                           *)
(***************************************************************************)
LEMMA EventsDiffer ==
  ASSUME NEW d, NEW e, Event(d) = Event(e)
  PROVE  d = e
BY DEF Event

(***************************************************************************)
(* emit() appends the next event.                                          *)
(***************************************************************************)
LEMMA EventQueued ==
  ASSUME NEW S, NEW q \in Seq(S), NEW w \in Nat, NEW n \in Nat,
         Event(n + 1) \in S, InOrder(q, w, n)
  PROVE  InOrder(Append(q, Event(n + 1)), w, n + 1)
<1> DEFINE p == Append(q, Event(n + 1))
<1>1. /\ Len(p) = Len(q) + 1 /\ p[Len(q) + 1] = Event(n + 1)
      /\ \A i \in 1..Len(q) : p[i] = q[i]
  BY Appended
<1>2. Len(q) = n - w /\ Len(q) \in Nat /\ \A i \in 1..Len(q) : q[i] = Event(w + i)
  BY DEF InOrder
<1> HIDE DEF p
<1>3. ASSUME NEW i \in 1..Len(p) PROVE p[i] = Event(w + i)
  <2>1. CASE i = Len(q) + 1
    <3>1. w + i = n + 1
      BY <1>2, <2>1
    <3> QED  BY <1>1, <2>1, <3>1
  <2>2. CASE i # Len(q) + 1
    <3>1. i \in 1..Len(q)
      BY <1>1, <1>2, <2>2
    <3> QED  BY <1>1, <1>2, <3>1
  <2> QED  BY <2>1, <2>2
<1>4. Len(p) = n + 1 - w
  BY <1>1, <1>2
<1>5. InOrder(p, w, n + 1)
  BY <1>3, <1>4 DEF InOrder
<1> QED  BY <1>5 DEF p

(***************************************************************************)
(* A request is queued behind all events.                                  *)
(***************************************************************************)
LEMMA RequestQueued ==
  ASSUME NEW S, NEW q \in Seq(S), NEW w \in Nat, NEW n \in Nat, NEW r \in S,
         InOrder(q, w, n)
  PROVE  WithRequest(Append(q, r), w, n, n, r)
<1> DEFINE p == Append(q, r)
<1>1. /\ Len(p) = Len(q) + 1 /\ p[Len(q) + 1] = r
      /\ \A i \in 1..Len(q) : p[i] = q[i]
  BY Appended
<1>2. Len(q) = n - w /\ Len(q) \in Nat /\ \A i \in 1..Len(q) : q[i] = Event(w + i)
  BY DEF InOrder
<1> HIDE DEF p
<1>3. Len(p) = n - w + 1 /\ w <= n
  BY <1>1, <1>2
<1>4. ASSUME NEW i \in 1..Len(p)
      PROVE  /\ i < n - w + 1 => p[i] = Event(w + i)
             /\ i = n - w + 1 => p[i] = r
             /\ i > n - w + 1 => p[i] = Event(w + i - 1)
  BY <1>1, <1>2, <1>3
<1>5. WithRequest(p, w, n, n, r)
  BY <1>3, <1>4 DEF WithRequest
<1> QED  BY <1>5 DEF p

(***************************************************************************)
(* emit() appends the next event behind a request.                         *)
(***************************************************************************)
LEMMA EventQueuedBehind ==
  ASSUME NEW S, NEW q \in Seq(S), NEW w \in Nat, NEW n \in Nat, NEW m \in Nat, NEW r,
         Event(n + 1) \in S, WithRequest(q, w, n, m, r)
  PROVE  WithRequest(Append(q, Event(n + 1)), w, n + 1, m, r)
<1> DEFINE p == Append(q, Event(n + 1))
<1>1. /\ Len(p) = Len(q) + 1 /\ p[Len(q) + 1] = Event(n + 1)
      /\ \A i \in 1..Len(q) : p[i] = q[i]
  BY Appended
<1>2. Len(q) = n - w + 1 /\ Len(q) \in Nat /\ w <= m /\ m <= n
  BY DEF WithRequest
<1> HIDE DEF p
<1>3. Len(p) = (n + 1) - w + 1 /\ m <= n + 1
  BY <1>1, <1>2
<1>4. ASSUME NEW i \in 1..Len(p)
      PROVE  /\ i < m - w + 1 => p[i] = Event(w + i)
             /\ i = m - w + 1 => p[i] = r
             /\ i > m - w + 1 => p[i] = Event(w + i - 1)
  <2>1. CASE i = Len(q) + 1
    <3>1. i > m - w + 1 /\ w + i - 1 = n + 1
      BY <1>2, <2>1
    <3> QED  BY <1>1, <2>1, <3>1
  <2>2. CASE i # Len(q) + 1
    <3>1. i \in 1..Len(q) /\ p[i] = q[i]
      BY <1>1, <1>2, <2>2
    <3> QED  BY <3>1 DEF WithRequest
  <2> QED  BY <2>1, <2>2
<1>5. WithRequest(p, w, n + 1, m, r)
  BY <1>2, <1>3, <1>4 DEF WithRequest
<1> QED  BY <1>5 DEF p

(***************************************************************************)
(* Without a request the thread takes the next event.                      *)
(***************************************************************************)
LEMMA TakenInOrder ==
  ASSUME NEW S, NEW q \in Seq(S), NEW w \in Nat, NEW n \in Nat,
         q # <<>>, InOrder(q, w, n)
  PROVE  Head(q) = Event(w + 1) /\ InOrder(Tail(q), w + 1, n)
<1> DEFINE p == Tail(q)
<1>1. /\ Len(p) = Len(q) - 1 /\ Len(q) \in Nat \ {0} /\ Head(q) = q[1]
      /\ \A i \in 1..Len(p) : p[i] = q[i + 1]
  BY Tailed
<1>2. Len(q) = n - w /\ \A i \in 1..Len(q) : q[i] = Event(w + i)
  BY DEF InOrder
<1> HIDE DEF p
<1>3. Len(p) = n - (w + 1)
  BY <1>1, <1>2
<1>4. ASSUME NEW i \in 1..Len(p) PROVE p[i] = Event((w + 1) + i)
  <2>1. i + 1 \in 1..Len(q) /\ (w + 1) + i = w + (i + 1)
    BY <1>1
  <2> QED  BY <1>1, <1>2, <2>1
<1>5. InOrder(p, w + 1, n)
  BY <1>3, <1>4 DEF InOrder
<1>6. 1 \in 1..Len(q)
  BY <1>1
<1> QED  BY <1>1, <1>2, <1>5, <1>6 DEF p

(***************************************************************************)
(* A request comes when the events before it have been taken.              *)
(***************************************************************************)
LEMMA RequestTaken ==
  ASSUME NEW S, NEW q \in Seq(S), NEW w \in Nat, NEW n \in Nat, NEW m \in Nat, NEW r,
         NEW kind \in {"snapshot", "flush", "stop"},
         q # <<>>, WithRequest(q, w, n, m, r), Head(q) = Request(kind)
  PROVE  r = Request(kind) /\ m = w /\ InOrder(Tail(q), w, n)
<1> DEFINE p == Tail(q)
<1>1. /\ Len(p) = Len(q) - 1 /\ Len(q) \in Nat \ {0} /\ Head(q) = q[1]
      /\ \A i \in 1..Len(p) : p[i] = q[i + 1]
  BY Tailed
<1>2. Len(q) = n - w + 1 /\ w <= m /\ m <= n
  BY DEF WithRequest
<1>3. 1 \in 1..Len(q)
  BY <1>1
<1>4. ~ (1 < m - w + 1)
  <2> SUFFICES ASSUME 1 < m - w + 1 PROVE FALSE
    OBVIOUS
  <2>1. q[1] = Event(w + 1)
    BY <1>3 DEF WithRequest
  <2> QED  BY <1>1, <2>1, EventIsNoRequest
<1>5. m = w
  BY <1>2, <1>4
<1>6. q[1] = r
  <2>1. 1 = m - w + 1
    BY <1>5
  <2> QED  BY <1>3, <2>1 DEF WithRequest
<1> HIDE DEF p
<1>7. ASSUME NEW i \in 1..Len(p) PROVE p[i] = Event(w + i)
  <2>1. i + 1 \in 1..Len(q) /\ i + 1 > m - w + 1 /\ w + (i + 1) - 1 = w + i
    BY <1>1, <1>5
  <2>2. q[i + 1] = Event(w + (i + 1) - 1)
    BY <2>1 DEF WithRequest
  <2> QED  BY <1>1, <2>1, <2>2
<1>8. InOrder(p, w, n)
  BY <1>1, <1>2, <1>7 DEF InOrder
<1> QED  BY <1>1, <1>5, <1>6, <1>8 DEF p

(***************************************************************************)
(* An event that comes before the request is the next one.                 *)
(***************************************************************************)
LEMMA EventTakenBefore ==
  ASSUME NEW S, NEW q \in Seq(S), NEW w \in Nat, NEW n \in Nat, NEW m \in Nat,
         NEW kind \in {"snapshot", "flush", "stop"}, NEW e,
         q # <<>>, WithRequest(q, w, n, m, Request(kind)), Head(q) = Event(e)
  PROVE  e = w + 1 /\ WithRequest(Tail(q), w + 1, n, m, Request(kind))
<1> DEFINE p == Tail(q)
           r == Request(kind)
<1>1. /\ Len(p) = Len(q) - 1 /\ Len(q) \in Nat \ {0} /\ Head(q) = q[1]
      /\ \A i \in 1..Len(p) : p[i] = q[i + 1]
  BY Tailed
<1>2. Len(q) = n - w + 1 /\ w <= m /\ m <= n
  BY DEF WithRequest
<1>3. 1 \in 1..Len(q)
  BY <1>1
<1>4. 1 # m - w + 1
  <2> SUFFICES ASSUME 1 = m - w + 1 PROVE FALSE
    OBVIOUS
  <2>1. q[1] = r
    BY <1>3 DEF WithRequest
  <2> QED  BY <1>1, <2>1, EventIsNoRequest
<1>5. 1 < m - w + 1 /\ w + 1 <= m
  BY <1>2, <1>4
<1>6. q[1] = Event(w + 1)
  BY <1>3, <1>5 DEF WithRequest
<1>7. e = w + 1
  BY <1>1, <1>6, EventsDiffer
<1> HIDE DEF p, r
<1>8. ASSUME NEW i \in 1..Len(p)
      PROVE  /\ i < m - (w + 1) + 1 => p[i] = Event((w + 1) + i)
             /\ i = m - (w + 1) + 1 => p[i] = r
             /\ i > m - (w + 1) + 1 => p[i] = Event((w + 1) + i - 1)
  <2>1. /\ i + 1 \in 1..Len(q)
        /\ w + (i + 1) = (w + 1) + i /\ w + (i + 1) - 1 = (w + 1) + i - 1
    BY <1>1
  <2>2. /\ i + 1 < m - w + 1 => q[i + 1] = Event(w + (i + 1))
        /\ i + 1 = m - w + 1 => q[i + 1] = r
        /\ i + 1 > m - w + 1 => q[i + 1] = Event(w + (i + 1) - 1)
    BY <2>1 DEF WithRequest, r
  <2>3. p[i] = q[i + 1]
    BY <1>1
  <2>4. /\ i < m - (w + 1) + 1 => i + 1 < m - w + 1
        /\ i = m - (w + 1) + 1 => i + 1 = m - w + 1
        /\ i > m - (w + 1) + 1 => i + 1 > m - w + 1
    OBVIOUS
  <2> QED  BY <2>1, <2>2, <2>3, <2>4
<1>9. Len(p) = n - (w + 1) + 1
  BY <1>1, <1>2
<1>10. WithRequest(p, w + 1, n, m, r)
  BY <1>2, <1>5, <1>8, <1>9 DEF WithRequest
<1> QED  BY <1>7, <1>10 DEF p, r

(***************************************************************************)
(* Flushing moves the buffer behind the file.                              *)
(***************************************************************************)
LEMMA FlushedInPlace ==
  ASSUME NEW S, NEW f \in Seq(S), NEW b \in Seq(S), InPlace(f, b)
  PROVE  InPlace(f \o b, <<>>)
<1>1. /\ Len(f \o b) = Len(f) + Len(b) /\ Len(f) \in Nat /\ Len(b) \in Nat
      /\ \A i \in 1..Len(f) : (f \o b)[i] = f[i]
      /\ \A i \in 1..Len(b) : (f \o b)[Len(f) + i] = b[i]
  BY InARow
<1> DEFINE g == f \o b
<1> HIDE DEF g
<1>2. ASSUME NEW i \in 1..Len(g) PROVE g[i] = i
  <2>1. CASE i \in 1..Len(f)
    BY <1>1, <2>1 DEF InPlace, g
  <2>2. CASE i \notin 1..Len(f)
    <3> DEFINE j == i - Len(f)
    <3>1. j \in 1..Len(b) /\ i = Len(f) + j
      BY <1>1, <2>2 DEF g
    <3> HIDE DEF j
    <3>2. g[Len(f) + j] = b[j] /\ b[j] = Len(f) + j
      BY <1>1, <3>1 DEF InPlace, g
    <3> QED  BY <3>1, <3>2
  <2> QED  BY <2>1, <2>2
<1>3. InPlace(g, <<>>)
  BY <1>2 DEF InPlace
<1> QED  BY <1>3 DEF g

(***************************************************************************)
(* The next event is written to the handle.                                *)
(***************************************************************************)
LEMMA BufferedInPlace ==
  ASSUME NEW S, NEW f \in Seq(S), NEW b \in Seq(S), NEW e \in S,
         InPlace(f, b), e = Len(f) + Len(b) + 1
  PROVE  InPlace(f, Append(b, e))
<1>1. /\ Len(Append(b, e)) = Len(b) + 1 /\ Len(b) \in Nat /\ Len(f) \in Nat
      /\ \A i \in 1..Len(b) : Append(b, e)[i] = b[i]
      /\ Append(b, e)[Len(b) + 1] = e
  BY Appended
<1> DEFINE c == Append(b, e)
<1> HIDE DEF c
<1>2. ASSUME NEW i \in 1..Len(c) PROVE c[i] = Len(f) + i
  <2>1. CASE i = Len(b) + 1
    <3>1. c[Len(b) + 1] = e /\ e = Len(f) + (Len(b) + 1)
      BY <1>1 DEF c
    <3> QED  BY <2>1, <3>1
  <2>2. CASE i # Len(b) + 1
    <3>1. i \in 1..Len(b)
      BY <1>1, <2>2 DEF c
    <3> QED  BY <1>1, <3>1 DEF InPlace, c
  <2> QED  BY <2>1, <2>2
<1>3. InPlace(f, c)
  BY <1>2 DEF InPlace
<1> QED  BY <1>3 DEF c

(***************************************************************************)
(* A file of the first n events is the sequence of all of them, and it has *)
(* every shorter sequence of them as a prefix.                             *)
(***************************************************************************)
LEMMA FileIsAccepted ==
  ASSUME NEW S, NEW f \in Seq(S), \A i \in 1..Len(f) : f[i] = i
  PROVE  f = Accepted(Len(f)) /\ \A m \in 0..Len(f) : IsPrefix(Accepted(m), f)
<1>1. f = Accepted(Len(f))
  BY DEF Accepted
<1>2. ASSUME NEW m \in 0..Len(f) PROVE IsPrefix(Accepted(m), f)
  <2>1. Accepted(m) \in Seq(Nat) /\ Len(Accepted(m)) = m
    BY DEF Accepted
  <2>2. SubSeq(Accepted(m), 1, m) = Accepted(m)
    BY <2>1 DEF Accepted
  <2>3. SubSeq(f, 1, m) = Accepted(m)
    BY DEF Accepted
  <2> QED  BY <2>1, <2>2, <2>3 DEF IsPrefix
<1> QED  BY <1>1, <1>2

-----------------------------------------------------------------------------
(* Type correctness *)

LEMMA TypeInit == Init => TypeOK
<1>1. <<>> \in Seq(Items) /\ <<>> \in Seq(1..MaxEvents) /\ Len(<<>>) = 0
  OBVIOUS
<1>2. Len(<<>>) <= QueueSize /\ 0 \in 0..MaxEvents
  BY <1>1, WriterAssumption
<1> SUFFICES ASSUME Init PROVE TypeOK
  OBVIOUS
<1>3. queue \in Seq(Items) /\ Len(queue) <= QueueSize /\ accepted \in 0..MaxEvents
  BY <1>1, <1>2 DEF Init
<1>4. buffer \in Seq(1..MaxEvents) /\ file \in Seq(1..MaxEvents) /\ mark \in 0..MaxEvents
  BY <1>1, <1>2 DEF Init
<1> QED  BY <1>3, <1>4 DEF Init, TypeOK, ThreadStates

(***************************************************************************)
(* What the thread takes leaves a shorter queue.                           *)
(***************************************************************************)
LEMMA TakesType ==
  ASSUME TypeOK, NEW item, Takes(item)
  PROVE  /\ queue' \in Seq(Items) /\ Len(queue') <= QueueSize
         /\ item \in Items
<1>1. /\ queue \in Seq(Items) /\ queue # <<>> /\ Len(queue) <= QueueSize
      /\ queue' = Tail(queue) /\ item = Head(queue)
  BY DEF TypeOK, Takes
<1>2. /\ Tail(queue) \in Seq(Items) /\ Len(Tail(queue)) = Len(queue) - 1
      /\ Len(queue) \in Nat /\ Head(queue) \in Items
  BY <1>1, Tailed
<1> QED  BY <1>1, <1>2, WriterAssumption

(***************************************************************************)
(* What is queued where there is room fits.                                *)
(***************************************************************************)
LEMMA QueuedType ==
  ASSUME TypeOK, NEW item \in Items, HasRoom, queue' = Append(queue, item)
  PROVE  queue' \in Seq(Items) /\ Len(queue') <= QueueSize
<1>1. queue \in Seq(Items) /\ Len(queue) \in Nat /\ Len(queue) < QueueSize
  BY DEF TypeOK, HasRoom
<1>2. Append(queue, item) \in Seq(Items) /\ Len(Append(queue, item)) = Len(queue) + 1
  BY <1>1, Appended
<1> QED  BY <1>1, <1>2, WriterAssumption

LEMMA FlushedType ==
  ASSUME TypeOK, Flushed
  PROVE  buffer' \in Seq(1..MaxEvents) /\ file' \in Seq(1..MaxEvents)
BY DEF TypeOK, Flushed

LEMMA AbandonedType ==
  ASSUME TypeOK, NEW e \in 1..MaxEvents, Abandoned(buffer) \/ Abandoned(Append(buffer, e))
  PROVE  file' \in Seq(1..MaxEvents)
<1>1. ASSUME NEW b \in Seq(1..MaxEvents), Abandoned(b) PROVE file' \in Seq(1..MaxEvents)
  <2>1. PICK n \in 0..Len(b) : file' = file \o SubSeq(b, 1, n)
    BY <1>1 DEF Abandoned
  <2>2. SubSeq(b, 1, n) \in Seq(1..MaxEvents)
    <3>1. 1 \in Int /\ n \in Int
      OBVIOUS
    <3>2. \A j \in 1..n : j \in 1..Len(b)
      OBVIOUS
    <3> DEFINE S == 1..MaxEvents
    <3>0. b \in Seq(S)
      OBVIOUS
    <3> HIDE DEF S
    <3>3. \A j \in 1..n : b[j] \in S
      BY <3>0, <3>2
    <3>4. SubSeq(b, 1, n) \in Seq(S)
      BY ONLY <3>1, <3>3, SubSeqProperties
    <3> QED  BY <3>4 DEF S
  <2> QED  BY <2>1, <2>2 DEF TypeOK
<1>2. buffer \in Seq(1..MaxEvents) /\ Append(buffer, e) \in Seq(1..MaxEvents)
  BY DEF TypeOK
<1> QED  BY <1>1, <1>2

LEMMA ThreadStepType ==
  ASSUME TypeOK, ThreadStep
  PROVE  TypeOK'
<1>0. <<>> \in Seq(1..MaxEvents)
  OBVIOUS
<1>1. ASSUME NEW e \in 1..MaxEvents, WriteEvent(e) PROVE TypeOK'
  <2>1. queue' \in Seq(Items) /\ Len(queue') <= QueueSize
    BY <1>1, TakesType DEF WriteEvent
  <2>2. buffer' \in Seq(1..MaxEvents) /\ file' \in Seq(1..MaxEvents)
    <3>1. /\ Append(buffer, e) \in Seq(1..MaxEvents)
          /\ Append(file \o buffer, e) \in Seq(1..MaxEvents)
      BY DEF TypeOK
    <3> QED  BY <1>0, <1>1, <3>1 DEF WriteEvent, TypeOK
  <2> QED  BY <1>1, <2>1, <2>2 DEF WriteEvent, TypeOK, files, client
<1>2. ASSUME NEW e \in 1..MaxEvents, WriteRecovers(e) PROVE TypeOK'
  <2>1. queue' \in Seq(Items) /\ Len(queue') <= QueueSize
    BY <1>2, TakesType DEF WriteRecovers
  <2>2. buffer' \in Seq(1..MaxEvents) /\ file' \in Seq(1..MaxEvents)
    <3>1. <<e>> \in Seq(1..MaxEvents)
      OBVIOUS
    <3> QED  BY <1>2, <3>1, AbandonedType DEF WriteRecovers
  <2> QED  BY <1>2, <2>1, <2>2 DEF WriteRecovers, TypeOK, files, client
<1>3. ASSUME NEW e \in 1..MaxEvents, WriteFails(e) PROVE TypeOK'
  <2>1. queue' \in Seq(Items) /\ Len(queue') <= QueueSize
    BY <1>3, TakesType DEF WriteFails
  <2>2. buffer' \in Seq(1..MaxEvents) /\ file' \in Seq(1..MaxEvents)
    BY <1>0, <1>3, AbandonedType DEF WriteFails
  <2> QED  BY <1>3, <2>1, <2>2 DEF WriteFails, Fails, TypeOK, ThreadStates, files, client
<1>4. CASE IdleFlush
  <2>1. buffer' \in Seq(1..MaxEvents) /\ file' \in Seq(1..MaxEvents)
    BY <1>4, FlushedType DEF IdleFlush
  <2> QED  BY <1>4, <2>1 DEF IdleFlush, TypeOK, files, client
<1>5. CASE IdleFlushFails \/ Drained
  BY <1>5 DEF IdleFlushFails, Drained, Fails, TypeOK, ThreadStates, content, files, client
<1>6. CASE ServeFlush
  <2>1. queue' \in Seq(Items) /\ Len(queue') <= QueueSize
    BY <1>6, TakesType DEF ServeFlush
  <2>2. Flushed \/ UNCHANGED content
    BY <1>6 DEF ServeFlush, OnFlush
  <2>3. buffer' \in Seq(1..MaxEvents) /\ file' \in Seq(1..MaxEvents)
    BY <2>2, FlushedType DEF content, TypeOK
  <2>4. answer' \in {"ok", "error"}
    BY <1>6 DEF ServeFlush
  <2> QED  BY <1>6, <2>1, <2>3, <2>4 DEF ServeFlush, TypeOK, files, client
<1>7. CASE BeginSnapshot \/ TakeStop
  <2>1. queue' \in Seq(Items) /\ Len(queue') <= QueueSize
    BY <1>7, TakesType DEF BeginSnapshot, TakeStop
  <2> QED  BY <1>7, <2>1
           DEF BeginSnapshot, TakeStop, TypeOK, ThreadStates, content, files, client
<1>8. CASE SyncSnapshot \/ ReplaceSnapshot \/ SnapshotFails
  BY <1>8 DEF SyncSnapshot, Synced, ReplaceSnapshot, SnapshotFails, TypeOK, ThreadStates,
              content, files, client
<1>9. CASE Drain
  <2>1. queue \in Seq(Items) /\ queue # <<>> /\ Len(queue) <= QueueSize
    BY <1>9 DEF Drain, TypeOK
  <2>2. /\ Tail(queue) \in Seq(Items) /\ Len(Tail(queue)) = Len(queue) - 1
        /\ Len(queue) \in Nat
    BY <2>1, Tailed
  <2>3. queue' \in Seq(Items) /\ Len(queue') <= QueueSize
    BY <1>9, <2>1, <2>2, WriterAssumption DEF Drain
  <2>4. answer' \in {"none", "ok", "error"}
    BY <1>9 DEF Drain, TypeOK
  <2> QED  BY <1>9, <2>3, <2>4 DEF Drain, TypeOK, content, files, client
<1>10. CASE Ends
  <2>1. Flushed \/ UNCHANGED content
    BY <1>10 DEF Ends
  <2>2. buffer' \in Seq(1..MaxEvents) /\ file' \in Seq(1..MaxEvents)
    BY <2>1, FlushedType DEF content, TypeOK
  <2> QED  BY <1>10, <2>2 DEF Ends, TypeOK, ThreadStates, files, client
<1> QED  BY <1>1, <1>2, <1>3, <1>4, <1>5, <1>6, <1>7, <1>8, <1>9, <1>10 DEF ThreadStep

LEMMA ClientStepType ==
  ASSUME TypeOK, ClientStep
  PROVE  TypeOK'
<1>1. CASE CheckFatal
  BY <1>1 DEF CheckFatal, FollowedBy, TypeOK, content, files
<1>2. CASE PutRequest
  <2>1. Item[op] \in Items
    BY <1>2 DEF PutRequest, Item, Items
  <2>2. queue' \in Seq(Items) /\ Len(queue') <= QueueSize
    BY <1>2, <2>1, QueuedType DEF PutRequest
  <2> QED  BY <1>2, <2>2 DEF PutRequest, TypeOK, content, files
<1>3. CASE Answered
  <2>1. op' \in {"flush", "close", "stop", "done"}
    BY <1>3 DEF Answered, FollowedBy
  <2>2. stop' \in BOOLEAN
    BY <1>3 DEF Answered, TypeOK
  <2> QED  BY <1>3, <2>1, <2>2 DEF Answered, TypeOK, content, files
<1>4. CASE BeginClose
  BY <1>4 DEF BeginClose, TypeOK, content, files
<1>5. CASE PutStop
  <2>1. Request("stop") \in Items
    BY DEF Items
  <2>2. queue' \in Seq(Items) /\ Len(queue') <= QueueSize
    BY <1>5, <2>1, QueuedType DEF PutStop
  <2> QED  BY <1>5, <2>2 DEF PutStop, TypeOK, content, files
<1>6. CASE Join
  BY <1>6 DEF Join, TypeOK, content, files
<1> QED  BY <1>1, <1>2, <1>3, <1>4, <1>5, <1>6 DEF ClientStep

LEMMA TypeStep == TypeOK /\ [Next]_vars => TypeOK'
<1> SUFFICES ASSUME TypeOK, [Next]_vars PROVE TypeOK'
  OBVIOUS
<1>1. CASE Emit
  <2>1. accepted + 1 \in 1..MaxEvents
    BY <1>1, WriterAssumption DEF Emit, TypeOK
  <2>2. Event(accepted + 1) \in Items
    BY <2>1 DEF Items
  <2>3. queue' \in Seq(Items) /\ Len(queue') <= QueueSize
    BY <1>1, <2>2, QueuedType DEF Emit
  <2> QED  BY <1>1, <2>1, <2>3 DEF Emit, TypeOK, content, files, client
<1>2. CASE StartShutdown
  BY <1>2 DEF StartShutdown, TypeOK, content, files
<1>3. CASE Crash
  <2>1. <<>> \in Seq(Items) /\ Len(<<>>) <= QueueSize
    BY WriterAssumption
  <2> QED  BY <1>3, <2>1 DEF Crash, TypeOK, ThreadStates, content, files
<1>4. CASE UNCHANGED vars
  BY <1>4 DEF vars, TypeOK, content, files, client
<1> QED  BY <1>1, <1>2, <1>3, <1>4, ThreadStepType, ClientStepType DEF Next

(***************************************************************************)
(* Every variable of JSONLWriter keeps to its type: the queue within       *)
(* DHT_JSONL_QUEUE_SIZE, whoever puts something in.                        *)
(***************************************************************************)
THEOREM TypeCorrect == Spec => []TypeOK
BY TypeInit, TypeStep, PTL DEF Spec

-----------------------------------------------------------------------------
(* The events are where they belong as long as no write fails *)

(***************************************************************************)
(* What the shutdown sequence waits for, by the step it is in.             *)
(***************************************************************************)
LEMMA AskedRequest ==
  ASSUME Pending
  PROVE  /\ \E kind \in {"snapshot", "flush", "stop"} : Asked = Request(kind)
         /\ Asked = Request("snapshot") => op = "snapshot"
         /\ Asked = Request("flush") => op \in {"flush", "final"}
         /\ Asked = Request("stop") => op = "join"
<1>1. op \in {"join", "snapshot", "flush", "final"}
  BY DEF Pending, Requests
<1>2. op = "join" => Asked = Request("stop")
  BY DEF Asked
<1>3. op = "snapshot" => Asked = Request("snapshot")
  BY DEF Asked, Item
<1>4. op \in {"flush", "final"} => Asked = Request("flush")
  BY DEF Asked, Item
<1>5. /\ Request("snapshot") # Request("flush") /\ Request("snapshot") # Request("stop")
      /\ Request("flush") # Request("stop")
  BY DEF Request
<1> QED  BY <1>1, <1>2, <1>3, <1>4, <1>5

LEMMA Numbers ==
  ASSUME TypeOK
  PROVE  /\ Len(file) \in Nat /\ Len(buffer) \in Nat
         /\ written \in Nat /\ accepted \in Nat /\ Place \in Nat
BY WriterAssumption DEF TypeOK, written, Place

(***************************************************************************)
(* The thread takes the event that comes next.                             *)
(***************************************************************************)
LEMMA EventTaken ==
  ASSUME TypeOK, Smooth, NEW e, Takes(Event(e))
  PROVE  /\ e = written + 1
         /\ Pending => WithRequest(queue', written + 1, accepted, Place, Asked)
         /\ ~ Pending => InOrder(queue', written + 1, accepted)
<1>1. /\ thread = "get" /\ queue # <<>> /\ Head(queue) = Event(e) /\ queue' = Tail(queue)
      /\ queue \in Seq(Items) /\ Order
  BY DEF Takes, TypeOK, Smooth
<1>2. CASE Pending
  <2>1. PICK kind \in {"snapshot", "flush", "stop"} : Asked = Request(kind)
    BY <1>2, AskedRequest
  <2>2. WithRequest(queue, written, accepted, Place, Request(kind))
    BY <1>1, <1>2, <2>1 DEF Order
  <2>3. e = written + 1 /\ WithRequest(Tail(queue), written + 1, accepted, Place, Request(kind))
    BY <1>1, <2>2, Numbers, EventTakenBefore
  <2> QED  BY <1>1, <1>2, <2>1, <2>3
<1>3. CASE ~ Pending
  <2>1. InOrder(queue, written, accepted)
    BY <1>1, <1>3 DEF Order
  <2>2. Head(queue) = Event(written + 1) /\ InOrder(Tail(queue), written + 1, accepted)
    BY <1>1, <2>1, Numbers, TakenInOrder
  <2> QED  BY <1>1, <1>3, <2>2, EventsDiffer
<1> QED  BY <1>2, <1>3

(***************************************************************************)
(* A request is taken when all events before it have been written.         *)
(***************************************************************************)
LEMMA RequestIsTaken ==
  ASSUME TypeOK, Smooth, NEW kind \in {"snapshot", "flush", "stop"}, Takes(Request(kind))
  PROVE  /\ Pending /\ Asked = Request(kind) /\ Place = written
         /\ InOrder(queue', written, accepted)
<1>1. /\ thread = "get" /\ queue # <<>> /\ Head(queue) = Request(kind)
      /\ queue' = Tail(queue) /\ queue \in Seq(Items) /\ Order
  BY DEF Takes, TypeOK, Smooth
<1>2. Pending
  <2> SUFFICES ASSUME ~ Pending PROVE FALSE
    OBVIOUS
  <2>1. InOrder(queue, written, accepted)
    BY <1>1 DEF Order
  <2>2. Head(queue) = Event(written + 1)
    BY <1>1, <2>1, Numbers, TakenInOrder
  <2> QED  BY <1>1, <2>2, EventIsNoRequest
<1>3. WithRequest(queue, written, accepted, Place, Asked)
  BY <1>1, <1>2 DEF Order
<1>4. Asked = Request(kind) /\ Place = written /\ InOrder(Tail(queue), written, accepted)
  BY <1>1, <1>3, Numbers, RequestTaken
<1> QED  BY <1>1, <1>2, <1>4

(***************************************************************************)
(* Flushing leaves the events in place, all of them in the file.           *)
(***************************************************************************)
LEMMA FlushedAll ==
  ASSUME TypeOK, InPlace(file, buffer), Flushed
  PROVE  InPlace(file, buffer)' /\ written' = written /\ Len(file)' = written
<1>1. /\ file \in Seq(1..MaxEvents) /\ buffer \in Seq(1..MaxEvents)
      /\ file' = file \o buffer /\ buffer' = <<>>
  BY DEF TypeOK, Flushed
<1>2. InPlace(file \o buffer, <<>>) /\ Len(file \o buffer) = Len(file) + Len(buffer)
  BY <1>1, FlushedInPlace, InARow
<1>3. Len(<<>>) = 0 /\ Len(file) + Len(buffer) \in Nat
  BY Numbers
<1> QED  BY <1>1, <1>2, <1>3 DEF written, InPlace

LEMMA WriteEventSmooth ==
  ASSUME TypeOK, TypeOK', Smooth, NEW e \in 1..MaxEvents, WriteEvent(e)
  PROVE  Smooth'
<1>1. /\ Takes(Event(e)) /\ thread = "get"
      /\ UNCHANGED <<accepted, stop, fatal, thread, op, at, answer, mark>>
  BY DEF WriteEvent, Takes, client
<1>2. /\ e = written + 1
      /\ Pending => WithRequest(queue', written + 1, accepted, Place, Asked)
      /\ ~ Pending => InOrder(queue', written + 1, accepted)
  BY <1>1, EventTaken
<1>3. /\ file \in Seq(1..MaxEvents) /\ buffer \in Seq(1..MaxEvents)
      /\ InPlace(file, buffer) /\ Len(file) \in Nat /\ Len(buffer) \in Nat
  BY <1>1, Numbers DEF TypeOK, Smooth, Order
<1>4. InPlace(file, buffer)' /\ written' = written + 1 /\ Len(file) <= Len(file)'
  <2>1. CASE buffer' = Append(buffer, e) /\ UNCHANGED file
    <3>1. InPlace(file, Append(buffer, e)) /\ Len(Append(buffer, e)) = Len(buffer) + 1
      BY <1>2, <1>3, BufferedInPlace, Appended DEF written
    <3> QED  BY <1>3, <2>1, <3>1 DEF written, InPlace
  <2>2. CASE buffer' = <<>> /\ file' = Append(file \o buffer, e)
    <3> DEFINE g == file \o buffer
    <3>1. g \in Seq(1..MaxEvents) /\ Len(g) = Len(file) + Len(buffer) /\ InPlace(g, <<>>)
      BY <1>3, FlushedInPlace, InARow
    <3>2. file' = Append(g, e) /\ Len(<<>>) = 0
      BY <2>2
    <3> HIDE DEF g
    <3>3. /\ Len(Append(g, e)) = Len(g) + 1 /\ Append(g, e)[Len(g) + 1] = e
          /\ \A i \in 1..Len(g) : Append(g, e)[i] = g[i]
      BY <3>1, Appended
    <3>4. e = Len(g) + 1
      BY <1>2, <3>1 DEF written
    <3>5. \A i \in 1..Len(Append(g, e)) : Append(g, e)[i] = i
      BY <1>3, <3>1, <3>3, <3>4 DEF InPlace
    <3> QED  BY <1>3, <2>2, <3>1, <3>2, <3>3, <3>5 DEF written, InPlace
  <2> QED  BY <2>1, <2>2 DEF WriteEvent
<1>5. (Pending <=> Pending') /\ Place' = Place /\ Asked' = Asked
  BY <1>1 DEF Pending, Place, Asked
<1>6. Order'
  BY <1>1, <1>2, <1>4, <1>5 DEF Order, InOrder, WithRequest
<1>7. Turns'
  BY <1>1 DEF Smooth, Turns
<1>8. answer' = "ok" /\ op' \in {"flush", "final"} => mark' <= Len(file)'
  <2>1. mark \in Nat /\ Len(file)' \in Nat
    BY <1>1, WriterAssumption DEF TypeOK
  <2> QED  BY <1>1, <1>3, <1>4, <2>1 DEF Smooth
<1> QED  BY <1>1, <1>6, <1>7, <1>8 DEF Smooth

(***************************************************************************)
(* A step that is neither a request taken or made nor an event leaves the  *)
(* order of things alone.                                                  *)
(***************************************************************************)
LEMMA OrderKept ==
  ASSUME TypeOK, Smooth, thread # "dead",
         InPlace(file, buffer)', written' = written, UNCHANGED <<queue, accepted>>,
         Pending' <=> Pending, Pending => Place' = Place /\ Asked' = Asked
  PROVE  Order'
<1>1. Order
  BY DEF Smooth
<1>2. Pending' => WithRequest(queue', written', accepted', Place', Asked')
  BY <1>1 DEF Order
<1>3. ~ Pending' => InOrder(queue', written', accepted')
  BY <1>1 DEF Order
<1> QED  BY <1>2, <1>3 DEF Order, WithRequest, InOrder

LEMMA IdleFlushSmooth ==
  ASSUME TypeOK, TypeOK', Smooth, IdleFlush
  PROVE  Smooth'
<1>1. /\ thread = "get" /\ Flushed
      /\ UNCHANGED <<queue, accepted, stop, fatal, thread, op, at, answer, mark>>
  BY DEF IdleFlush, client
<1>2. InPlace(file, buffer)' /\ written' = written /\ Len(file)' = written
  BY <1>1, FlushedAll DEF Smooth, Order
<1>3. (Pending' <=> Pending) /\ Place' = Place /\ Asked' = Asked
  BY <1>1 DEF Pending, Place, Asked
<1>4. Order'
  BY <1>1, <1>2, <1>3, OrderKept
<1>5. answer' = "ok" /\ op' \in {"flush", "final"} => mark' <= Len(file)'
  <2>1. mark \in Nat
    BY WriterAssumption DEF TypeOK
  <2> QED  BY <1>1, <1>2, <2>1, Numbers DEF Smooth, written
<1> QED  BY <1>1, <1>4, <1>5 DEF Smooth, Turns

LEMMA ServeFlushSmooth ==
  ASSUME TypeOK, TypeOK', Smooth, ServeFlush
  PROVE  Smooth'
<1>1. /\ Takes(Request("flush")) /\ thread = "get" /\ answer' \in {"ok", "error"}
      /\ Flushed \/ UNCHANGED content
      /\ answer' = "ok" => Flushed
      /\ UNCHANGED <<accepted, stop, fatal, thread, op, at, mark>>
  BY DEF ServeFlush, OnFlush, Takes, client
<1>2. /\ Pending /\ Asked = Request("flush") /\ Place = written
      /\ InOrder(queue', written, accepted)
  BY <1>1, RequestIsTaken
<1>3. op \in {"flush", "final"} /\ at = "wait"
  BY <1>2, AskedRequest DEF Pending
<1>4. InPlace(file, buffer)' /\ written' = written /\ (Flushed => Len(file)' = written)
  <2>1. InPlace(file, buffer)
    BY <1>1 DEF Smooth, Order
  <2>2. CASE Flushed
    BY <2>1, <2>2, FlushedAll
  <2>3. CASE UNCHANGED content /\ ~ Flushed
    BY <2>1, <2>3 DEF content, written, InPlace
  <2> QED  BY <1>1, <2>2, <2>3
<1>5. ~ Pending'
  BY <1>1, <1>3 DEF Pending
<1>6. Order'
  BY <1>1, <1>2, <1>4, <1>5 DEF Order, InOrder
<1>7. answer' = "ok" => mark' <= Len(file)'
  <2>1. mark = written
    BY <1>2, <1>3 DEF Place
  <2> QED  BY <1>1, <1>4, <2>1, Numbers
<1>8. Turns'
  BY <1>1, <1>3 DEF Smooth, Turns, Requests
<1> QED  BY <1>1, <1>6, <1>7, <1>8 DEF Smooth

LEMMA BeginSnapshotSmooth ==
  ASSUME TypeOK, Smooth, BeginSnapshot
  PROVE  Smooth'
<1>1. /\ Takes(Request("snapshot")) /\ thread = "get" /\ thread' = "snapshot"
      /\ UNCHANGED <<accepted, stop, fatal, file, buffer, op, at, answer, mark>>
  BY DEF BeginSnapshot, Takes, client, content
<1>2. /\ Pending /\ Asked = Request("snapshot")
      /\ InOrder(queue', written, accepted)
  BY <1>1, RequestIsTaken
<1>3. op = "snapshot" /\ at = "wait" /\ answer = "none"
  BY <1>2, AskedRequest DEF Pending
<1>4. ~ Pending' /\ written' = written
  BY <1>1 DEF Pending, written
<1>5. Order'
  BY <1>1, <1>2, <1>4 DEF Smooth, Order, InOrder, InPlace
<1> QED  BY <1>1, <1>3, <1>5 DEF Smooth, Turns

LEMMA TakeStopSmooth ==
  ASSUME TypeOK, TypeOK', Smooth, TakeStop
  PROVE  Smooth'
<1>1. /\ Takes(Request("stop")) /\ thread = "get" /\ thread' = "ending"
      /\ UNCHANGED <<accepted, stop, fatal, file, buffer, op, at, answer, mark>>
  BY DEF TakeStop, Takes, client, content
<1>2. /\ Pending /\ Asked = Request("stop") /\ Place = written
      /\ InOrder(queue', written, accepted)
  BY <1>1, RequestIsTaken
<1>3. op = "join"
  BY <1>2, AskedRequest
<1>4. accepted = written
  BY <1>2, <1>3 DEF Place
<1>5. Len(queue') = 0
  BY <1>2, <1>4, Numbers DEF InOrder
<1>6. queue' = <<>>
  BY <1>5 DEF TypeOK
<1>7. ~ Pending' /\ written' = written
  BY <1>1 DEF Pending, written
<1>8. Order'
  BY <1>1, <1>2, <1>7 DEF Smooth, Order, InOrder, InPlace
<1> QED  BY <1>1, <1>3, <1>6, <1>8 DEF Smooth, Turns

LEMMA SnapshotStepsSmooth ==
  ASSUME TypeOK, Smooth, SyncSnapshot \/ ReplaceSnapshot \/ SnapshotFails
  PROVE  Smooth'
<1>1. /\ thread \in {"snapshot", "synced"}
      /\ UNCHANGED <<queue, accepted, stop, fatal, file, buffer, op, at, mark>>
      /\ \/ thread' = "synced" /\ answer' = answer
         \/ thread' = "get" /\ answer' \in {"ok", "error"}
  BY DEF SyncSnapshot, ReplaceSnapshot, SnapshotFails, content, client
<1>2. op = "snapshot" /\ at = "wait"
  BY <1>1 DEF Smooth, Turns
<1>3. ~ Pending /\ ~ Pending'
  BY <1>1, <1>2 DEF Pending
<1>4. written' = written /\ InPlace(file, buffer)'
  BY <1>1 DEF written, Smooth, Order, InPlace
<1>5. Order'
  BY <1>1, <1>3, <1>4, OrderKept
<1> QED  BY <1>1, <1>2, <1>5 DEF Smooth, Turns, Requests

LEMMA EndsSmooth ==
  ASSUME TypeOK, "write" \notin env, Smooth, Ends
  PROVE  Smooth'
<1>1. /\ thread = "ending" /\ thread' = "stopped" /\ Flushed
      /\ UNCHANGED <<queue, accepted, stop, fatal, op, at, answer, mark>>
  BY DEF Ends, client
<1>2. InPlace(file, buffer)' /\ written' = written
  BY <1>1, FlushedAll DEF Smooth, Order
<1>3. ~ Pending /\ ~ Pending'
  BY <1>1 DEF Pending
<1>4. Order'
  BY <1>1, <1>2, <1>3, OrderKept
<1>5. /\ stop /\ op \in {"join", "done"} /\ queue = <<>> /\ answer = "none"
      /\ ~ fatal /\ buffer' = <<>>
  BY <1>1 DEF Smooth, Turns, Requests, Flushed
<1> QED  BY <1>1, <1>4, <1>5 DEF Smooth, Turns

LEMMA EmitSmooth ==
  ASSUME TypeOK, TypeOK', Smooth, Emit
  PROVE  Smooth'
<1>1. /\ ~ stop /\ thread # "dead" /\ accepted' = accepted + 1
      /\ queue' = Append(queue, Event(accepted + 1))
      /\ UNCHANGED <<stop, fatal, thread, file, buffer, op, at, answer, mark>>
  BY DEF Emit, Accepting, content, client
<1>2. queue \in Seq(Items) /\ accepted \in Nat /\ Order /\ Event(accepted + 1) \in Items
  <2>1. accepted + 1 \in 1..MaxEvents
    BY <1>1, Numbers, WriterAssumption DEF TypeOK
  <2> QED  BY <1>1, <2>1, Numbers DEF TypeOK, Smooth, Items
<1>3. op # "join"
  BY <1>1 DEF Smooth, Turns
<1>4. /\ (Pending' <=> Pending) /\ Place' = Place /\ Asked' = Asked
      /\ written' = written /\ InPlace(file, buffer)'
  BY <1>1, <1>2, <1>3 DEF Pending, Place, Asked, written, Order, InPlace
<1>5. Pending => WithRequest(Append(queue, Event(accepted + 1)), written, accepted + 1,
                             Place, Asked)
  BY <1>2, Numbers, EventQueuedBehind DEF Order
<1>6. ~ Pending => InOrder(Append(queue, Event(accepted + 1)), written, accepted + 1)
  BY <1>2, Numbers, EventQueued DEF Order
<1>7. Order'
  BY <1>1, <1>4, <1>5, <1>6 DEF Order, InOrder, WithRequest
<1>8. thread \notin {"ending", "stopped"}
  BY <1>1 DEF Smooth, Turns
<1> QED  BY <1>1, <1>7, <1>8 DEF Smooth, Turns

LEMMA PutRequestSmooth ==
  ASSUME TypeOK, Smooth, PutRequest
  PROVE  Smooth'
<1>1. /\ op \in Requests /\ at = "put" /\ at' = "wait" /\ mark' = accepted
      /\ queue' = Append(queue, Item[op])
      /\ UNCHANGED <<accepted, stop, fatal, thread, file, buffer, op, answer>>
  BY DEF PutRequest, Requests, content
<1>2. answer = "none" /\ thread = "get"
  BY <1>1 DEF Smooth, Turns, TypeOK, ThreadStates, Requests
<1>3. ~ Pending /\ Pending' /\ Place' = accepted /\ Asked' = Item[op]
  BY <1>1, <1>2 DEF Pending, Place, Asked, Requests
<1>4. Item[op] \in Items /\ queue \in Seq(Items)
  BY <1>1 DEF Item, Items, Requests, TypeOK
<1>5. InOrder(queue, written, accepted) /\ InPlace(file, buffer)
  BY <1>2, <1>3 DEF Smooth, Order
<1>6. WithRequest(Append(queue, Item[op]), written, accepted, accepted, Item[op])
  BY <1>4, <1>5, Numbers, RequestQueued
<1>7. written' = written
  BY <1>1 DEF written
<1>8. Order'
  BY <1>1, <1>3, <1>5, <1>6, <1>7 DEF Order, WithRequest, InPlace
<1> QED  BY <1>1, <1>2, <1>8 DEF Smooth, Turns, Requests

LEMMA PutStopSmooth ==
  ASSUME TypeOK, Smooth, PutStop
  PROVE  Smooth'
<1>1. /\ op = "stop" /\ op' = "join" /\ queue' = Append(queue, Request("stop"))
      /\ UNCHANGED <<accepted, stop, fatal, thread, file, buffer, at, answer, mark>>
  BY DEF PutStop, content
<1>2. answer = "none" /\ thread = "get" /\ stop
  BY <1>1 DEF Smooth, Turns, TypeOK, ThreadStates, Requests
<1>3. ~ Pending /\ Pending' /\ Place' = accepted /\ Asked' = Request("stop")
  BY <1>1, <1>2 DEF Pending, Place, Asked, Requests
<1>4. Request("stop") \in Items /\ queue \in Seq(Items)
  BY DEF Items, TypeOK
<1>5. InOrder(queue, written, accepted) /\ InPlace(file, buffer)
  BY <1>2, <1>3 DEF Smooth, Order
<1>6. WithRequest(Append(queue, Request("stop")), written, accepted, accepted,
                  Request("stop"))
  BY <1>4, <1>5, Numbers, RequestQueued
<1>7. written' = written
  BY <1>1 DEF written
<1>8. Order'
  BY <1>1, <1>3, <1>5, <1>6, <1>7 DEF Order, WithRequest, InPlace
<1> QED  BY <1>1, <1>2, <1>8 DEF Smooth, Turns

(***************************************************************************)
(* The other steps of the shutdown sequence leave the queue alone, with    *)
(* nothing under way before and after.                                     *)
(***************************************************************************)
LEMMA OtherClientStepsSmooth ==
  ASSUME TypeOK, Smooth,
         StartShutdown \/ CheckFatal \/ Answered \/ BeginClose \/ Join
  PROVE  Smooth'
<1>1. UNCHANGED <<queue, accepted, fatal, thread, file, buffer, mark>>
  BY DEF StartShutdown, CheckFatal, Answered, BeginClose, Join, content
<1>2. ~ Pending
  <2>1. CASE StartShutdown \/ BeginClose
    BY <2>1 DEF StartShutdown, BeginClose, Pending, Requests
  <2>2. CASE CheckFatal \/ Answered \/ Join
    BY <2>2 DEF CheckFatal, Answered, Join, Pending, Requests
  <2> QED  BY <2>1, <2>2
<1>3. Turns' /\ ~ Pending' /\ answer' = "none"
  <2>0. Turns /\ ~ fatal
    BY DEF Smooth
  <2>1. CASE StartShutdown
    BY <2>0, <2>1 DEF StartShutdown, Turns, Pending, Requests, TypeOK
  <2>2. CASE CheckFatal
    BY <2>0, <2>2 DEF CheckFatal, Turns, Pending, Requests, TypeOK
  <2>3. CASE Answered
    <3>1. /\ op \in Requests /\ at = "wait" /\ answer' = "none"
          /\ op' \in {"flush", "close", "stop", "done"}
          /\ op' = "stop" => stop'
          /\ at' = (IF op' = "stop" THEN "put" ELSE "check")
          /\ thread' = thread /\ answer # "none"
      BY <2>3 DEF Answered, FollowedBy, Requests
    <3> QED  BY <2>0, <3>1 DEF Turns, Pending, Requests
  <2>4. CASE BeginClose
    BY <2>0, <2>4 DEF BeginClose, Turns, Pending, Requests, TypeOK
  <2>5. CASE Join
    <3>1. /\ op = "join" /\ op' = "done" /\ thread = "stopped"
          /\ stop' = stop /\ answer' = answer
      BY <2>5 DEF Join
    <3>2. answer = "none" /\ stop /\ queue = <<>> /\ buffer = <<>>
      BY <2>0, <3>1 DEF Turns, Requests
    <3> QED  BY <1>1, <3>1, <3>2 DEF Turns, Pending
  <2> QED  BY <2>1, <2>2, <2>3, <2>4, <2>5
<1>4. thread # "dead" => Order'
  <2> SUFFICES ASSUME thread # "dead" PROVE Order'
    OBVIOUS
  <2>1. written' = written /\ InPlace(file, buffer)'
    BY <1>1 DEF written, Smooth, Order, InPlace
  <2> QED  BY <1>1, <1>2, <1>3, <2>1, OrderKept
<1> QED  BY <1>1, <1>3, <1>4 DEF Smooth

-----------------------------------------------------------------------------
(* The invariant *)

LEMMA Inductive == IInv /\ [Next]_vars => IInv'
<1> SUFFICES ASSUME IInv, [Next]_vars PROVE IInv'
  OBVIOUS
<1>1. TypeOK /\ TypeOK'
  BY TypeStep DEF IInv
<1>2. env' = env
  BY DEF Next, ClientStep, ThreadStep, Emit, StartShutdown, CheckFatal, PutRequest, Answered,
         BeginClose, PutStop, Join, WriteEvent, WriteRecovers, WriteFails, IdleFlush,
         IdleFlushFails, ServeFlush, BeginSnapshot, SyncSnapshot, ReplaceSnapshot,
         SnapshotFails, TakeStop, Drain, Drained, Ends, Crash, vars
<1>3. SyncedFirst'
  <2>0. SyncedFirst
    BY DEF IInv
  <2>1. CASE SyncSnapshot
    BY <2>0, <2>1 DEF SyncSnapshot, Synced, SyncedFirst
  <2>2. CASE ReplaceSnapshot \/ SnapshotFails
    BY <2>0, <2>2 DEF ReplaceSnapshot, SnapshotFails, SyncedFirst, files
  <2>3. CASE BeginSnapshot \/ TakeStop \/ Drain \/ Drained \/ Ends \/ IdleFlushFails
    BY <2>0, <2>3 DEF BeginSnapshot, TakeStop, Drain, Drained, Ends, IdleFlushFails, Fails,
                      SyncedFirst, files, Takes
  <2>4. CASE \/ \E e \in 1..MaxEvents : WriteEvent(e) \/ WriteRecovers(e) \/ WriteFails(e)
             \/ IdleFlush \/ ServeFlush
    BY <2>0, <2>4 DEF WriteEvent, WriteRecovers, WriteFails, Fails, IdleFlush, ServeFlush,
                      SyncedFirst, files, Takes
  <2>5. CASE Emit \/ StartShutdown \/ ClientStep \/ Crash
    BY <2>0, <2>5 DEF Emit, StartShutdown, ClientStep, CheckFatal, PutRequest, Answered,
                      BeginClose, PutStop, Join, Crash, SyncedFirst, files
  <2>6. CASE UNCHANGED vars
    BY <2>0, <2>6 DEF vars, SyncedFirst, files
  <2> QED  BY <2>1, <2>2, <2>3, <2>4, <2>5, <2>6 DEF Next, ThreadStep
<1>4. ASSUME "write" \notin env PROVE Smooth'
  <2>0. Smooth
    BY <1>4 DEF IInv
  <2>1. CASE Emit
    BY <1>1, <2>0, <2>1, EmitSmooth
  <2>2. CASE StartShutdown
    BY <1>1, <2>0, <2>2, OtherClientStepsSmooth
  <2>3. CASE ClientStep
    BY <1>1, <2>0, <2>3, PutRequestSmooth, PutStopSmooth, OtherClientStepsSmooth
       DEF ClientStep
  <2>4. CASE ThreadStep
    <3>1. ASSUME NEW e \in 1..MaxEvents, WriteEvent(e) PROVE Smooth'
      BY <1>1, <2>0, <3>1, WriteEventSmooth
    <3>2. /\ ~ \E e \in 1..MaxEvents : WriteRecovers(e) \/ WriteFails(e)
          /\ ~ IdleFlushFails
      BY <1>4 DEF WriteRecovers, WriteFails, IdleFlushFails
    <3>3. ~ Drain /\ ~ Drained
      BY <2>0 DEF Drain, Drained, Smooth
    <3>4. IdleFlush \/ ServeFlush \/ BeginSnapshot \/ TakeStop => Smooth'
      BY <1>1, <2>0, IdleFlushSmooth, ServeFlushSmooth, BeginSnapshotSmooth, TakeStopSmooth
    <3>5. SyncSnapshot \/ ReplaceSnapshot \/ SnapshotFails \/ Ends => Smooth'
      BY <1>1, <1>4, <2>0, SnapshotStepsSmooth, EndsSmooth
    <3> QED  BY <2>4, <3>1, <3>2, <3>3, <3>4, <3>5 DEF ThreadStep
  <2>5. CASE Crash
    <3>1. thread' = "dead" /\ op' = "done" /\ answer' = "none" /\ fatal' = fatal
      BY <2>5 DEF Crash
    <3> QED  BY <2>0, <3>1 DEF Smooth, Turns
  <2>6. CASE UNCHANGED vars
    <3>1. UNCHANGED <<queue, accepted, stop, fatal, thread, file, buffer, op, at, answer, mark>>
      BY <2>6 DEF vars, content, client
    <3>2. /\ (Pending' <=> Pending) /\ Place' = Place /\ Asked' = Asked
          /\ written' = written
      BY <3>1 DEF Pending, Place, Asked, written
    <3>3. thread # "dead" => Order'
      <4> SUFFICES ASSUME thread # "dead" PROVE Order'
        OBVIOUS
      <4>1. InPlace(file, buffer)'
        BY <2>0, <3>1 DEF Smooth, Order, InPlace
      <4> QED  BY <1>1, <2>0, <3>1, <3>2, <4>1, OrderKept
    <3> QED  BY <2>0, <3>1, <3>3 DEF Smooth, Turns
  <2> QED  BY <2>1, <2>2, <2>3, <2>4, <2>5, <2>6 DEF Next
<1> QED  BY <1>1, <1>2, <1>3, <1>4 DEF IInv

LEMMA Initial == Init => IInv
<1> SUFFICES ASSUME Init PROVE IInv
  OBVIOUS
<1>1. /\ queue = <<>> /\ file = <<>> /\ buffer = <<>> /\ accepted = 0 /\ fatal = FALSE
      /\ thread = "get" /\ op = "none" /\ answer = "none" /\ path = "old"
  BY DEF Init
<1>2. TypeOK
  BY TypeInit
<1>3. Len(<<>>) = 0 /\ ~ Pending /\ Turns
  BY <1>1 DEF Pending, Turns, Requests
<1>4. Order
  <2>1. written = 0
    BY <1>1, <1>3 DEF written
  <2>2. InPlace(<<>>, <<>>)
    BY <1>3 DEF InPlace
  <2>3. InOrder(<<>>, 0, 0)
    BY <1>3 DEF InOrder
  <2> QED  BY <1>1, <1>3, <2>1, <2>2, <2>3 DEF Order
<1>5. Smooth
  BY <1>1, <1>3, <1>4 DEF Smooth
<1> QED  BY <1>1, <1>2, <1>5 DEF IInv, SyncedFirst

(***************************************************************************)
(* In every state the snapshot in place is whole, and as long as no write  *)
(* fails the events are where they belong: the file, the buffer and the    *)
(* queue hold all that emit() accepted, in order.                          *)
(***************************************************************************)
THEOREM Invariant == Spec => []IInv
BY Initial, Inductive, PTL DEF Spec

(***************************************************************************)
(* A snapshot file that a crash may leave behind is the old one or the new *)
(* one: what is put in its place has been synced before.                   *)
(***************************************************************************)
THEOREM SnapshotWholeCorrect == Spec => []SnapshotWhole
<1>1. IInv => SnapshotWhole
  BY DEF IInv, SyncedFirst, SnapshotWhole
<1> QED  BY <1>1, Invariant, PTL

(***************************************************************************)
(* An acknowledged flush covers every event accepted before the request    *)
(* was queued, and a writer that has ended has written every event that    *)
(* emit() accepted, once and in order, unless a write fails: whatever the  *)
(* size of the queue, and whatever flush() and snapshot() do in between.   *)
(***************************************************************************)
THEOREM NothingLostCorrect == Spec => []NothingLost
<1>1. ASSUME IInv PROVE NothingLost
  <2>1. TypeOK
    BY <1>1 DEF IInv
  <2>2. file \in Seq(1..MaxEvents) /\ mark \in Nat /\ Len(file) \in Nat /\ Len(buffer) \in Nat
    BY <2>1, WriterAssumption DEF TypeOK
  <2>3. thread # "dead" /\ "write" \notin env =>
           file = Accepted(Len(file)) /\ \A m \in 0..Len(file) : IsPrefix(Accepted(m), file)
    <3> SUFFICES ASSUME thread # "dead", "write" \notin env
                 PROVE  /\ file = Accepted(Len(file))
                        /\ \A m \in 0..Len(file) : IsPrefix(Accepted(m), file)
      OBVIOUS
    <3>1. \A i \in 1..Len(file) : file[i] = i
      BY <1>1 DEF IInv, Smooth, Order, InPlace
    <3> QED  BY <2>2, <3>1, FileIsAccepted
  <2>4. FlushCovers
    <3> SUFFICES ASSUME "write" \notin env, answer = "ok", op \in {"flush", "final"}
                 PROVE  IsPrefix(Accepted(mark), file)
      BY DEF FlushCovers
    <3>1. thread # "dead" /\ mark <= Len(file)
      BY <1>1 DEF IInv, Smooth, Turns
    <3> QED  BY <2>2, <2>3, <3>1
  <2>5. CloseKeepsAll
    <3> SUFFICES ASSUME "write" \notin env, thread = "stopped"
                 PROVE  file = Accepted(accepted)
      BY DEF CloseKeepsAll
    <3>1. queue = <<>> /\ ~ Pending /\ Order /\ buffer = <<>>
      BY <1>1 DEF IInv, Smooth, Turns, Pending
    <3>2. Len(file) = accepted
      BY <2>1, <2>2, <3>1, Numbers DEF Order, InOrder, written
    <3> QED  BY <2>3, <3>2
  <2> QED  BY <2>1, <2>4, <2>5 DEF NothingLost
<1> QED  BY <1>1, Invariant, PTL

=============================================================================
