------------------------- MODULE NotificationsProofs -------------------------
(***************************************************************************)
(* Proofs about Notifications: type correctness, the bound on duplicates,  *)
(* and that scheduler, client and table implement Outbox, for every number *)
(* of torrents, attempts, addresses and restarts.                          *)
(***************************************************************************)
EXTENDS Notifications, TLAPS

Handling == {"send", "written", "mark"}

\* A message may be out whose attempt is not recorded yet; when the scheduler
\* has died on it, it never will be.
InFlight(t) == IF cur = t /\ pc \in {"written", "mark", "dead"} THEN 1 ELSE 0

\* The scheduler handles a row that is pending, and the rest of its batch is
\* pending, too.
BatchPending ==
    /\ pc \in Handling => cur \in Torrents /\ cur \notin batch /\ row[cur].status = "pending"
    /\ pc \in {"scan", "next", "wait"} => cur = Nothing
    /\ \A t \in batch : row[t].status = "pending"

\* Each delivery has its recorded attempt, its restart, or is in flight; a row
\* that is pending has an attempt left.
Counted ==
    \A t \in Torrents :
        /\ row[t].status = "absent" => delivered[t] = 0 /\ row[t].attempts = 0
        /\ row[t].status = "pending"
              => /\ delivered[t] <= row[t].attempts + restarts + InFlight(t)
                 /\ delivered[t] <= MaxAttempts - 1 + restarts + InFlight(t)
        /\ delivered[t] <= MaxAttempts + restarts

\* A success is reported of a message that has arrived.
OkDelivered ==
    /\ pc \in {"scan", "next", "wait", "send"} => result = "none"
    /\ pc \in {"written", "mark"} /\ result = "ok" => delivered[cur] > 0

IInv ==
    /\ TypeOK
    /\ BatchPending
    /\ Counted
    /\ OkDelivered
-----------------------------------------------------------------------------
(***************************************************************************)
(* What recording a result, once or more often, makes of the row at hand: other *)
(* rows are left alone, the attempts grow, and the row stays pending only  *)
(* while an attempt is left.                                               *)
(***************************************************************************)
LEMMA Recorded ==
  ASSUME IInv, pc = "mark", NEW n \in 1..(Retries + 1),
         row' = [row EXCEPT ![cur] = Marked(@, @.attempts + 1, n)]
  PROVE  /\ row' \in [Torrents -> Rows]
         /\ \A t \in Torrents : t # cur => row'[t] = row[t]
         /\ row'[cur].attempts = row[cur].attempts + n
         /\ row'[cur].status = IF result = "ok" THEN "sent"
                              ELSE IF row[cur].attempts + 1 >= MaxAttempts
                                   THEN "failed" ELSE "pending"
<1>1. cur \in Torrents /\ row \in [Torrents -> Rows]
  BY DEF IInv, BatchPending, Handling, TypeOK
<1>2. row[cur] \in Rows
  BY <1>1
<1>3. row[cur].attempts \in Nat
  BY <1>2 DEF Rows
<1>4. row'[cur] = Marked(row[cur], row[cur].attempts + 1, n)
  BY <1>1
<1>5. Marked(row[cur], row[cur].attempts + 1, n) \in Rows
  <2>1. row[cur].attempts + n \in Nat
    BY <1>3
  <2>2. CASE result = "ok"
    BY <1>2, <2>1, <2>2 DEF Marked, Rows
  <2>3. CASE result # "ok" /\ GivesUp(row[cur].attempts + 1)
    BY <1>2, <2>1, <2>3 DEF Marked, Rows
  <2>4. CASE result # "ok" /\ ~ GivesUp(row[cur].attempts + 1)
    BY <1>2, <2>1, <2>4 DEF Marked, Rows
  <2> QED  BY <2>2, <2>3, <2>4
<1>6. \A t \in Torrents : t # cur => row'[t] = row[t]
  BY <1>1
<1>7. row' \in [Torrents -> Rows]
  BY <1>1, <1>5
<1> QED
  BY <1>2, <1>3, <1>4, <1>6, <1>7 DEF Marked, GivesUp, Rows

-----------------------------------------------------------------------------
(***************************************************************************)
(* The invariant is inductive: one step per action.                        *)
(***************************************************************************)
LEMMA InvariantStep == IInv /\ [Next]_vars => IInv'
<1> SUFFICES ASSUME IInv, [Next]_vars PROVE IInv'
  OBVIOUS
<1>1. ASSUME NEW t \in Torrents, Persist(t) PROVE IInv'
  <2>1. TypeOK'  BY <1>1, NotificationAssumption DEF IInv, TypeOK, Rows, Persist, locals
  <2>2. BatchPending'  BY <1>1, NotificationAssumption DEF IInv, TypeOK, Rows, BatchPending, Handling, Persist, locals
  <2>3. Counted'  BY <1>1, NotificationAssumption DEF IInv, TypeOK, Rows, BatchPending, Handling, Counted, InFlight, OkDelivered, Persist, locals
  <2>4. OkDelivered'  BY <1>1, NotificationAssumption DEF IInv, TypeOK, Rows, BatchPending, Handling, OkDelivered, Persist, locals
  <2> QED  BY <2>1, <2>2, <2>3, <2>4 DEF IInv
<1>2. ASSUME NEW t \in Torrents, BecomeDue(t) PROVE IInv'
  <2>1. TypeOK'  BY <1>2, NotificationAssumption DEF IInv, TypeOK, Rows, BecomeDue, locals
  <2>2. BatchPending'  BY <1>2, NotificationAssumption DEF IInv, TypeOK, Rows, BatchPending, Handling, BecomeDue, locals
  <2>3. Counted'  BY <1>2, NotificationAssumption DEF IInv, TypeOK, Rows, BatchPending, Handling, Counted, InFlight, OkDelivered, BecomeDue, locals
  <2>4. OkDelivered'  BY <1>2, NotificationAssumption DEF IInv, TypeOK, Rows, BatchPending, Handling, OkDelivered, BecomeDue, locals
  <2> QED  BY <2>1, <2>2, <2>3, <2>4 DEF IInv
<1>3. ASSUME Scan PROVE IInv'
  <2>1. TypeOK'  BY <1>3, NotificationAssumption DEF IInv, TypeOK, Rows, Scan, Due, locals
  <2>2. BatchPending'  BY <1>3, NotificationAssumption DEF IInv, TypeOK, Rows, BatchPending, Handling, Scan, Due, locals
  <2>3. Counted'  BY <1>3, NotificationAssumption DEF IInv, TypeOK, Rows, BatchPending, Handling, Counted, InFlight, OkDelivered, Scan, Due, locals
  <2>4. OkDelivered'  BY <1>3, NotificationAssumption DEF IInv, TypeOK, Rows, BatchPending, Handling, OkDelivered, Scan, Due, locals
  <2> QED  BY <2>1, <2>2, <2>3, <2>4 DEF IInv
<1>4. ASSUME ScanFails PROVE IInv'
  <2>1. TypeOK'  BY <1>4, NotificationAssumption DEF IInv, TypeOK, Rows, ScanFails, Die, locals
  <2>2. BatchPending'  BY <1>4, NotificationAssumption DEF IInv, TypeOK, Rows, BatchPending, Handling, ScanFails, Die, locals
  <2>3. Counted'  BY <1>4, NotificationAssumption DEF IInv, TypeOK, Rows, BatchPending, Handling, Counted, InFlight, OkDelivered, ScanFails, Die, locals
  <2>4. OkDelivered'  BY <1>4, NotificationAssumption DEF IInv, TypeOK, Rows, BatchPending, Handling, OkDelivered, ScanFails, Die, locals
  <2> QED  BY <2>1, <2>2, <2>3, <2>4 DEF IInv
<1>5. ASSUME BatchDone PROVE IInv'
  <2>1. TypeOK'  BY <1>5, NotificationAssumption DEF IInv, TypeOK, Rows, BatchDone, locals
  <2>2. BatchPending'  BY <1>5, NotificationAssumption DEF IInv, TypeOK, Rows, BatchPending, Handling, BatchDone, locals
  <2>3. Counted'  BY <1>5, NotificationAssumption DEF IInv, TypeOK, Rows, BatchPending, Handling, Counted, InFlight, OkDelivered, BatchDone, locals
  <2>4. OkDelivered'  BY <1>5, NotificationAssumption DEF IInv, TypeOK, Rows, BatchPending, Handling, OkDelivered, BatchDone, locals
  <2> QED  BY <2>1, <2>2, <2>3, <2>4 DEF IInv
<1>6. ASSUME Wake PROVE IInv'
  <2>1. TypeOK'  BY <1>6, NotificationAssumption DEF IInv, TypeOK, Rows, Wake, locals
  <2>2. BatchPending'  BY <1>6, NotificationAssumption DEF IInv, TypeOK, Rows, BatchPending, Handling, Wake, locals
  <2>3. Counted'  BY <1>6, NotificationAssumption DEF IInv, TypeOK, Rows, BatchPending, Handling, Counted, InFlight, OkDelivered, Wake, locals
  <2>4. OkDelivered'  BY <1>6, NotificationAssumption DEF IInv, TypeOK, Rows, BatchPending, Handling, OkDelivered, Wake, locals
  <2> QED  BY <2>1, <2>2, <2>3, <2>4 DEF IInv
<1>7. ASSUME NEW t \in Torrents, Take(t) PROVE IInv'
  <2>1. TypeOK'  BY <1>7, NotificationAssumption DEF IInv, TypeOK, Rows, Take, locals
  <2>2. BatchPending'  BY <1>7, NotificationAssumption DEF IInv, TypeOK, Rows, BatchPending, Handling, Take, locals
  <2>3. Counted'  BY <1>7, NotificationAssumption DEF IInv, TypeOK, Rows, BatchPending, Handling, Counted, InFlight, OkDelivered, Take, locals
  <2>4. OkDelivered'  BY <1>7, NotificationAssumption DEF IInv, TypeOK, Rows, BatchPending, Handling, OkDelivered, Take, locals
  <2> QED  BY <2>1, <2>2, <2>3, <2>4 DEF IInv
<1>8. ASSUME ConnectFails PROVE IInv'
  <2>1. TypeOK'  BY <1>8, NotificationAssumption DEF IInv, TypeOK, Rows, ConnectFails, TransportError, NextAddress, locals
  <2>2. BatchPending'  BY <1>8, NotificationAssumption DEF IInv, TypeOK, Rows, BatchPending, Handling, ConnectFails, TransportError, NextAddress, locals
  <2>3. Counted'  BY <1>8, NotificationAssumption DEF IInv, TypeOK, Rows, BatchPending, Handling, Counted, InFlight, OkDelivered, ConnectFails, TransportError, NextAddress, locals
  <2>4. OkDelivered'  BY <1>8, NotificationAssumption DEF IInv, TypeOK, Rows, BatchPending, Handling, OkDelivered, ConnectFails, TransportError, NextAddress, locals
  <2> QED  BY <2>1, <2>2, <2>3, <2>4 DEF IInv
<1>9. ASSUME Write PROVE IInv'
  <2>1. TypeOK'  BY <1>9, NotificationAssumption DEF IInv, TypeOK, Rows, Write, locals
  <2>2. BatchPending'  BY <1>9, NotificationAssumption DEF IInv, TypeOK, Rows, BatchPending, Handling, Write, locals
  <2>3. Counted'  BY <1>9, NotificationAssumption DEF IInv, TypeOK, Rows, BatchPending, Handling, Counted, InFlight, OkDelivered, Write, locals
  <2>4. OkDelivered'  BY <1>9, NotificationAssumption DEF IInv, TypeOK, Rows, BatchPending, Handling, OkDelivered, Write, locals
  <2> QED  BY <2>1, <2>2, <2>3, <2>4 DEF IInv
<1>10. ASSUME Confirmed PROVE IInv'
  <2>1. TypeOK'  BY <1>10, NotificationAssumption DEF IInv, TypeOK, Rows, Confirmed, locals
  <2>2. BatchPending'  BY <1>10, NotificationAssumption DEF IInv, TypeOK, Rows, BatchPending, Handling, Confirmed, locals
  <2>3. Counted'  BY <1>10, NotificationAssumption DEF IInv, TypeOK, Rows, BatchPending, Handling, Counted, InFlight, OkDelivered, Confirmed, locals
  <2>4. OkDelivered'  BY <1>10, NotificationAssumption DEF IInv, TypeOK, Rows, BatchPending, Handling, OkDelivered, Confirmed, locals
  <2> QED  BY <2>1, <2>2, <2>3, <2>4 DEF IInv
<1>11. ASSUME Refused PROVE IInv'
  <2>1. TypeOK'  BY <1>11, NotificationAssumption DEF IInv, TypeOK, Rows, Refused, locals
  <2>2. BatchPending'  BY <1>11, NotificationAssumption DEF IInv, TypeOK, Rows, BatchPending, Handling, Refused, locals
  <2>3. Counted'  BY <1>11, NotificationAssumption DEF IInv, TypeOK, Rows, BatchPending, Handling, Counted, InFlight, OkDelivered, Refused, locals
  <2>4. OkDelivered'  BY <1>11, NotificationAssumption DEF IInv, TypeOK, Rows, BatchPending, Handling, OkDelivered, Refused, locals
  <2> QED  BY <2>1, <2>2, <2>3, <2>4 DEF IInv
<1>12. ASSUME AnswerLost PROVE IInv'
  <2>1. TypeOK'  BY <1>12, NotificationAssumption DEF IInv, TypeOK, Rows, AnswerLost, TransportError, NextAddress, locals
  <2>2. BatchPending'  BY <1>12, NotificationAssumption DEF IInv, TypeOK, Rows, BatchPending, Handling, AnswerLost, TransportError, NextAddress, locals
  <2>3. Counted'  BY <1>12, NotificationAssumption DEF IInv, TypeOK, Rows, BatchPending, Handling, Counted, InFlight, OkDelivered, AnswerLost, TransportError, NextAddress, locals
  <2>4. OkDelivered'  BY <1>12, NotificationAssumption DEF IInv, TypeOK, Rows, BatchPending, Handling, OkDelivered, AnswerLost, TransportError, NextAddress, locals
  <2> QED  BY <2>1, <2>2, <2>3, <2>4 DEF IInv
<1>13. ASSUME Truncated PROVE IInv'
  <2>1. TypeOK'  BY <1>13, NotificationAssumption DEF IInv, TypeOK, Rows, Truncated, Die, locals
  <2>2. BatchPending'  BY <1>13, NotificationAssumption DEF IInv, TypeOK, Rows, BatchPending, Handling, Truncated, Die, locals
  <2>3. Counted'  BY <1>13, NotificationAssumption DEF IInv, TypeOK, Rows, BatchPending, Handling, Counted, InFlight, OkDelivered, Truncated, Die, locals
  <2>4. OkDelivered'  BY <1>13, NotificationAssumption DEF IInv, TypeOK, Rows, BatchPending, Handling, OkDelivered, Truncated, Die, locals
  <2> QED  BY <2>1, <2>2, <2>3, <2>4 DEF IInv
<1>14. ASSUME Mark PROVE IInv'
  <2>1. PICK n \in 1..(Retries + 1) :
          row' = [row EXCEPT ![cur] = Marked(@, @.attempts + 1, n)]
    <3>1. 1 \in 1..(Retries + 1)
      BY NotificationAssumption
    <3> QED  BY <1>14, <3>1 DEF Mark
  <2>2. pc = "mark"
    BY <1>14 DEF Mark
  <2>3. TypeOK'
    BY <1>14, <2>1, <2>2, Recorded DEF IInv, TypeOK, Mark
  <2>4. BatchPending'
    BY <1>14, <2>1, <2>2, Recorded DEF IInv, TypeOK, BatchPending, Handling, Mark
  <2>5. Counted'
    <3> SUFFICES ASSUME NEW t \in Torrents
                 PROVE  (row[t].status = "absent" => delivered[t] = 0 /\ row[t].attempts = 0)'
                        /\ (row[t].status = "pending"
                              => /\ delivered[t] <= row[t].attempts + restarts + InFlight(t)
                                 /\ delivered[t] <= MaxAttempts - 1 + restarts + InFlight(t))'
                        /\ (delivered[t] <= MaxAttempts + restarts)'
      BY DEF Counted
    <3>1. CASE t = cur
      <4>1. /\ row'[t].attempts = row[t].attempts + n
            /\ row'[t].status = "pending" => row[t].attempts + 1 < MaxAttempts
            /\ row'[t].status # "absent" /\ row[t].attempts \in Nat
        <5>1. t \in Torrents /\ row[t] \in Rows
          BY <3>1 DEF IInv, TypeOK
        <5>2. row[t].attempts \in Nat
          BY <5>1 DEF Rows
        <5>3. /\ row'[t].attempts = row[t].attempts + n
              /\ row'[t].status = IF result = "ok" THEN "sent"
                                  ELSE IF row[t].attempts + 1 >= MaxAttempts
                                       THEN "failed" ELSE "pending"
          BY <2>1, <2>2, <3>1, Recorded
        <5> QED  BY <5>2, <5>3, NotificationAssumption
      <4>2. /\ delivered[t] <= row[t].attempts + restarts + 1
            /\ delivered[t] <= MaxAttempts + restarts
            /\ delivered[t] \in Nat /\ restarts \in Nat
        BY <2>2, <3>1, NotificationAssumption
           DEF IInv, TypeOK, BatchPending, Handling, Counted, InFlight
      <4>3. InFlight(t)' = 0 /\ UNCHANGED <<delivered, restarts>>
        BY <1>14, <3>1, NotificationAssumption DEF InFlight, Mark
      <4> QED  BY <4>1, <4>2, <4>3, NotificationAssumption
    <3>2. CASE t # cur
      BY <1>14, <2>1, <2>2, <3>2, Recorded
         DEF IInv, TypeOK, Rows, Counted, InFlight, Mark
    <3> QED  BY <3>1, <3>2
  <2>6. OkDelivered'
    BY <1>14 DEF OkDelivered, Mark
  <2> QED  BY <2>3, <2>4, <2>5, <2>6 DEF IInv
<1>15. ASSUME MarkFails PROVE IInv'
  <2>1. CASE UNCHANGED row
    BY <1>15, <2>1
       DEF IInv, TypeOK, Rows, BatchPending, Handling, Counted, InFlight, OkDelivered, MarkFails, Die
  <2>2. ASSUME NEW n \in 1..(Retries + 1),
               row' = [row EXCEPT ![cur] = Marked(@, @.attempts + 1, n)]
        PROVE  IInv'
    <3>1. pc = "mark" /\ pc' = "dead" /\ UNCHANGED <<cur, delivered, restarts>>
      BY <1>15 DEF MarkFails, Die
    <3>2. TypeOK' /\ BatchPending' /\ OkDelivered'
      BY <1>15, <2>2, <3>1, Recorded
         DEF IInv, TypeOK, BatchPending, Handling, OkDelivered, MarkFails, Die
    <3>3. \A t \in Torrents : InFlight(t)' = InFlight(t) /\ InFlight(t) \in {0, 1}
      BY <3>1 DEF InFlight
    <3>4. ASSUME NEW t \in Torrents, t = cur
          PROVE  /\ row'[t].status # "absent" /\ row[t].status = "pending"
                 /\ row'[t].status = "pending" => row[t].attempts + 1 < MaxAttempts
                 /\ row'[t].attempts >= row[t].attempts
      <4>1. row[t] \in Rows
        BY <3>4 DEF IInv, TypeOK
      <4>2. row[t].attempts \in Nat /\ n \in Nat /\ row[t].status = "pending"
        BY <3>1, <3>4, <4>1 DEF Rows, IInv, BatchPending, Handling
      <4>3. /\ row'[t].attempts = row[t].attempts + n
            /\ row'[t].status = IF result = "ok" THEN "sent"
                                ELSE IF row[t].attempts + 1 >= MaxAttempts
                                     THEN "failed" ELSE "pending"
        BY <2>2, <3>1, <3>4, Recorded
      <4> QED  BY <4>2, <4>3, NotificationAssumption
    <3>5. \A t \in Torrents : t # cur => row'[t] = row[t]
      BY <2>2, <3>1, Recorded
    <3>6. Counted'
      <4> SUFFICES ASSUME NEW t \in Torrents
                   PROVE  (row[t].status = "absent" => delivered[t] = 0 /\ row[t].attempts = 0)'
                          /\ (row[t].status = "pending"
                                => /\ delivered[t] <= row[t].attempts + restarts + InFlight(t)
                                   /\ delivered[t] <= MaxAttempts - 1 + restarts + InFlight(t))'
                          /\ (delivered[t] <= MaxAttempts + restarts)'
        BY DEF Counted
      <4>1. CASE t = cur
        <5>1. /\ row[t].attempts \in Nat /\ row'[t].attempts \in Nat
              /\ delivered[t] \in Nat /\ restarts \in Nat /\ InFlight(t) \in {0, 1}
          BY <3>2, <3>3, NotificationAssumption DEF IInv, TypeOK, Rows
        <5>2. /\ delivered[t] <= row[t].attempts + restarts + InFlight(t)
              /\ delivered[t] <= MaxAttempts - 1 + restarts + InFlight(t)
              /\ delivered[t] <= MaxAttempts + restarts
          BY <3>4, <4>1 DEF IInv, Counted
        <5> QED  BY <3>1, <3>3, <3>4, <4>1, <5>1, <5>2, NotificationAssumption
      <4>2. CASE t # cur
        BY <3>1, <3>3, <3>5, <4>2 DEF IInv, Counted
      <4> QED  BY <4>1, <4>2
    <3> QED  BY <3>2, <3>6 DEF IInv
  <2> QED  BY <1>15, <2>1, <2>2 DEF MarkFails
<1>16. ASSUME Restart PROVE IInv'
  <2>1. TypeOK'  BY <1>16, NotificationAssumption DEF IInv, TypeOK, Rows, Restart, locals
  <2>2. BatchPending'  BY <1>16, NotificationAssumption DEF IInv, TypeOK, Rows, BatchPending, Handling, Restart, locals
  <2>3. Counted'  BY <1>16, NotificationAssumption DEF IInv, TypeOK, Rows, BatchPending, Handling, Counted, InFlight, OkDelivered, Restart, locals
  <2>4. OkDelivered'  BY <1>16, NotificationAssumption DEF IInv, TypeOK, Rows, BatchPending, Handling, OkDelivered, Restart, locals
  <2> QED  BY <2>1, <2>2, <2>3, <2>4 DEF IInv
<1>17. ASSUME UNCHANGED vars PROVE IInv'
  BY <1>17 DEF IInv, TypeOK, Rows, BatchPending, Handling, Counted, InFlight, OkDelivered, vars
<1> QED
  BY <1>1, <1>2, <1>3, <1>4, <1>5, <1>6, <1>7, <1>8, <1>9, <1>10, <1>11,
     <1>12, <1>13, <1>14, <1>15, <1>16, <1>17 DEF Next, Scheduler
-----------------------------------------------------------------------------
(***************************************************************************)
(* The first state satisfies the invariant.                                *)
(***************************************************************************)
LEMMA InvariantInit == Init => IInv
BY NotificationAssumption
   DEF Init, IInv, TypeOK, Rows, BatchPending, Handling, Counted, InFlight, OkDelivered

(***************************************************************************)
(* IInv holds throughout: what the scheduler has read is pending, and      *)
(* every delivery is accounted for.                                        *)
(***************************************************************************)
THEOREM Invariance == Spec => []IInv
BY InvariantInit, InvariantStep, PTL DEF Spec

(***************************************************************************)
(* The variables keep their types.                                         *)
(***************************************************************************)
THEOREM TypeCorrect == Spec => []TypeOK
<1>1. IInv => TypeOK
  BY DEF IInv
<1> QED  BY <1>1, Invariance, PTL

(***************************************************************************)
(* DuplicatesBounded, for any number of torrents, attempts and restarts:   *)
(* lost answers, failing and doubled database calls and crashes make a     *)
(* message go out once per attempt and once per restart at most.           *)
(***************************************************************************)
THEOREM DuplicatesBoundedCorrect == Spec => []DuplicatesBounded
<1>1. IInv => DuplicatesBounded
  BY DEF IInv, Counted, DuplicatesBounded
<1> QED  BY <1>1, Invariance, PTL

-----------------------------------------------------------------------------
(* The search for an address *)

\* On a sound network the address goes up with every transport error until it is
\* a good one, and every failed attempt of a message, the one at hand included,
\* is one of these errors.
Searching ==
    env = {} /\ Good # {} /\ Addresses <= MaxAttempts =>
        /\ \A i \in 0..(address - 1) : i \notin Good
        /\ \A t \in Torrents :
              /\ row[t].status # "failed"
              /\ row[t].status = "pending" => row[t].attempts <= address
        /\ pc = "written" => result = "ok"
        /\ pc = "mark" /\ result # "ok" => row[cur].attempts + 1 <= address

(***************************************************************************)
(* A transport error at a bad address leads to the next one, of which      *)
(* there is one: no address is tried twice.                                *)
(***************************************************************************)
LEMMA NextIsHigher ==
  ASSUME TypeOK, Good # {}, \A i \in 0..(address - 1) : i \notin Good, address \notin Good
  PROVE  NextAddress = address + 1 /\ \A i \in 0..address : i \notin Good
<1>1. /\ address \in 0..(Addresses - 1) /\ Good \subseteq 0..(Addresses - 1)
      /\ Addresses \in Nat \ {0}
  BY NotificationAssumption DEF TypeOK
<1>2. ASSUME NEW i \in 0..address PROVE i \notin Good
  <2>1. i = address \/ i \in 0..(address - 1)
    BY <1>1
  <2> QED  BY <2>1
<1>3. PICK g : g \in Good
  OBVIOUS
<1>4. g \in 0..(Addresses - 1) /\ g \notin 0..address
  BY <1>1, <1>2, <1>3
<1>5. address + 1 \in 0..(Addresses - 1)
  BY <1>1, <1>4
<1>6. (address + 1) % Addresses = address + 1
  BY <1>1, <1>5
<1> QED  BY <1>2, <1>6 DEF NextAddress

(***************************************************************************)
(* The search goes on, step by step.                                       *)
(***************************************************************************)
LEMMA SearchingStep == IInv /\ Searching /\ [Next]_vars => Searching'
<1> SUFFICES ASSUME IInv, Searching, [Next]_vars, env' = {}, Good # {}, Addresses <= MaxAttempts
             PROVE  /\ \A i \in 0..(address' - 1) : i \notin Good
                    /\ \A t \in Torrents :
                          /\ row'[t].status # "failed"
                          /\ row'[t].status = "pending" => row'[t].attempts <= address'
                    /\ pc' = "written" => result' = "ok"
                    /\ pc' = "mark" /\ result' # "ok" => row'[cur'].attempts + 1 <= address'
  BY DEF Searching
<1>0. env = {}
  BY DEF Next, Scheduler, Persist, BecomeDue, Scan, ScanFails, BatchDone, Wake, Take,
         ConnectFails, Write, Confirmed, Refused, AnswerLost, Truncated, Mark, MarkFails,
         Restart, vars
<1>1. /\ \A i \in 0..(address - 1) : i \notin Good
      /\ \A t \in Torrents : /\ row[t].status # "failed"
                             /\ row[t].status = "pending" => row[t].attempts <= address
      /\ pc = "written" => result = "ok"
      /\ pc = "mark" /\ result # "ok" => row[cur].attempts + 1 <= address
  BY <1>0 DEF Searching
<1>2. /\ TypeOK /\ address \in Nat /\ address <= Addresses - 1 /\ Addresses \in Nat
      /\ MaxAttempts \in Nat /\ row \in [Torrents -> Rows]
  BY NotificationAssumption DEF IInv, TypeOK
<1>3. ASSUME NEW t \in Torrents, Persist(t) \/ BecomeDue(t)
      PROVE  /\ \A u \in Torrents : /\ row'[u].status # "failed"
                                    /\ row'[u].status = "pending" => row'[u].attempts <= address
             /\ row[t].status # "absent" => row'[t].attempts = row[t].attempts
             /\ \A u \in Torrents : u # t => row'[u] = row[u]
             /\ UNCHANGED <<address, pc, result, cur>>
  <2>1. CASE Persist(t)
    <3>1. row'[t] = [status |-> "pending", attempts |-> 0, due |-> "now"]
      BY <1>2, <2>1 DEF Persist
    <3>2. /\ \A u \in Torrents : u # t => row'[u] = row[u]
          /\ row[t].status = "absent" /\ UNCHANGED <<address, pc, result, cur>>
      BY <1>2, <2>1 DEF Persist, locals
    <3> QED  BY <1>1, <1>2, <3>1, <3>2
  <2>2. CASE BecomeDue(t)
    <3>1. row'[t].status = row[t].status /\ row'[t].attempts = row[t].attempts
      BY <1>2, <2>2 DEF BecomeDue, Rows
    <3>2. /\ \A u \in Torrents : u # t => row'[u] = row[u]
          /\ UNCHANGED <<address, pc, result, cur>>
      BY <1>2, <2>2 DEF BecomeDue, locals
    <3> QED  BY <1>1, <3>1, <3>2
  <2> QED  BY <1>3, <2>1, <2>2
<1>4. ASSUME NEW t \in Torrents, Persist(t) \/ BecomeDue(t)
      PROVE  pc = "mark" => row'[cur].attempts = row[cur].attempts
  <2>1. pc = "mark" => cur \in Torrents /\ row[cur].status = "pending"
    BY DEF IInv, BatchPending, Handling
  <2> QED  BY <1>3, <1>4, <2>1
<1>5. CASE \E t \in Torrents : Persist(t) \/ BecomeDue(t)
  BY <1>1, <1>3, <1>4, <1>5
<1>6. CASE \/ Scan \/ ScanFails \/ BatchDone \/ Wake \/ Truncated
           \/ \E t \in Torrents : Take(t)
  <2>1. /\ UNCHANGED <<row, address>> /\ pc' \notin {"written", "mark"}
    BY <1>6 DEF Scan, ScanFails, BatchDone, Wake, Truncated, Take, Die
  <2> QED  BY <1>1, <2>1
<1>7. CASE ConnectFails
  <2>1. /\ pc = "send" /\ address \notin Good /\ address' = NextAddress
        /\ UNCHANGED <<row, cur>> /\ pc' = "mark"
    BY <1>0, <1>7 DEF ConnectFails, TransportError
  <2>2. address' = address + 1 /\ \A i \in 0..address : i \notin Good
    BY <1>1, <1>2, <2>1, NextIsHigher
  <2>3. cur \in Torrents /\ row[cur].status = "pending"
    BY <2>1 DEF IInv, BatchPending, Handling
  <2>4. row[cur].attempts <= address /\ row[cur].attempts \in Nat
    BY <1>1, <1>2, <2>3 DEF Rows
  <2>5. \A t \in Torrents : row[t].attempts \in Nat
    BY <1>2 DEF Rows
  <2> QED  BY <1>1, <1>2, <2>1, <2>2, <2>4, <2>5
<1>8. CASE Write \/ Confirmed
  <2>1. /\ UNCHANGED <<row, address>> /\ pc' \in {"written", "mark"} /\ result' = "ok"
    BY <1>0, <1>1, <1>8 DEF Write, Confirmed
  <2> QED  BY <1>1, <2>1
<1>9. CASE Mark
  <2>1. /\ pc = "mark" /\ pc' = "next" /\ address' = address
        /\ row' = [row EXCEPT ![cur] = Marked(@, @.attempts + 1, 1)]
    BY <1>0, <1>9 DEF Mark
  <2>2. /\ \A t \in Torrents : t # cur => row'[t] = row[t]
        /\ row'[cur].attempts = row[cur].attempts + 1
        /\ row'[cur].status = IF result = "ok" THEN "sent"
                             ELSE IF row[cur].attempts + 1 >= MaxAttempts
                                  THEN "failed" ELSE "pending"
    <3>1. 1 \in 1..(Retries + 1)
      BY NotificationAssumption
    <3> QED  BY <2>1, <3>1, Recorded
  <2>3. row[cur].attempts \in Nat
    BY <1>2, <2>1 DEF IInv, BatchPending, Handling, Rows
  <2>4. CASE result = "ok"
    BY <1>1, <2>1, <2>2, <2>4
  <2>5. CASE result # "ok"
    <3>1. row[cur].attempts + 1 <= address
      BY <1>1, <2>1, <2>5
    <3>2. ~ (row[cur].attempts + 1 >= MaxAttempts)
      BY <1>2, <2>3, <3>1
    <3>3. row'[cur].status = "pending" /\ row'[cur].attempts <= address
      BY <2>2, <2>5, <3>1, <3>2
    <3> QED  BY <1>1, <2>1, <2>2, <3>3
  <2> QED  BY <2>4, <2>5
<1>10. ~ Refused /\ ~ AnswerLost /\ ~ MarkFails /\ ~ Restart
  BY <1>0 DEF Refused, AnswerLost, MarkFails, Restart
<1>11. CASE UNCHANGED vars
  BY <1>1, <1>11 DEF vars
<1> QED
  BY <1>5, <1>6, <1>7, <1>8, <1>9, <1>10, <1>11 DEF Next, Scheduler

(***************************************************************************)
(* GoodAddressFound, for any number of messages, addresses and attempts:   *)
(* on a sound network no message is given up as long as one address is     *)
(* good and there are as many attempts as addresses, although all messages *)
(* share the address that is tried next.                                   *)
(***************************************************************************)
THEOREM GoodAddressFoundCorrect == Spec => []GoodAddressFound
<1>1. Init => Searching
  BY NotificationAssumption DEF Init, Searching
<1>2. Searching => GoodAddressFound
  BY DEF Searching, GoodAddressFound
<1> QED  BY <1>1, <1>2, Invariance, SearchingStep, PTL DEF Spec

-----------------------------------------------------------------------------
(* The refinement of Outbox *)

(***************************************************************************)
(* Recording a result, once or more often, is an attempt that Outbox allows.    *)
(***************************************************************************)
LEMMA RecordSimulates ==
  ASSUME IInv, pc = "mark", NEW n \in 1..(Retries + 1),
         row' = [row EXCEPT ![cur] = Marked(@, @.attempts + 1, n)],
         UNCHANGED delivered
  PROVE  Contract!Record(cur)
<1>1. cur \in Torrents /\ row[cur].status = "pending" /\ row[cur].attempts \in Nat
  BY DEF IInv, BatchPending, Handling, TypeOK, Rows
<1>2. /\ row' \in [Torrents -> Rows]
      /\ \A t \in Torrents : t # cur => row'[t] = row[t]
      /\ row'[cur].attempts = row[cur].attempts + n
      /\ row'[cur].status = IF result = "ok" THEN "sent"
                           ELSE IF row[cur].attempts + 1 >= MaxAttempts
                                THEN "failed" ELSE "pending"
  BY Recorded
<1>3. result = "ok" => delivered[cur] > 0
  BY DEF IInv, OkDelivered
<1> DEFINE status == [t \in Torrents |-> row[t].status]
           attempts == [t \in Torrents |-> row[t].attempts]
<1>4. attempts' = [attempts EXCEPT ![cur] = @ + n]
  BY <1>1, <1>2
<1>5. status' = [status EXCEPT ![cur] = row'[cur].status]
  BY <1>1, <1>2
<1>6. attempts'[cur] = row[cur].attempts + n /\ status[cur] = "pending"
  BY <1>1, <1>2
<1>7. CASE result = "ok"
  BY <1>2, <1>3, <1>4, <1>5, <1>6, <1>7 DEF Contract!Record
<1>8. CASE result # "ok" /\ row[cur].attempts + 1 >= MaxAttempts
  <2>1. row'[cur].status = "failed"
    BY <1>2, <1>8
  <2>2. attempts[cur] + 1 >= MaxAttempts
    BY <1>1, <1>8
  <2> QED  BY <2>1, <2>2, <1>4, <1>5, <1>6 DEF Contract!Record
<1>9. CASE result # "ok" /\ ~ (row[cur].attempts + 1 >= MaxAttempts)
  <2>1. attempts[cur] + 1 < MaxAttempts /\ status' = status
    BY <1>1, <1>2, <1>5, <1>6, <1>9, NotificationAssumption
  <2> QED  BY <2>1, <1>4, <1>6 DEF Contract!Record
<1> QED  BY <1>7, <1>8, <1>9

(***************************************************************************)
(* Every step is a step of Outbox or leaves its variables alone.           *)
(***************************************************************************)
LEMMA StepSimulates == IInv /\ [Next]_vars => [Contract!Next]_(Contract!vars)
<1> SUFFICES ASSUME IInv, [Next]_vars
             PROVE  Contract!Next \/ UNCHANGED Contract!vars
  OBVIOUS
<1>1. row \in [Torrents -> Rows]
  BY DEF IInv, TypeOK
<1>2. ASSUME UNCHANGED <<row, delivered>> PROVE UNCHANGED Contract!vars
  BY <1>2 DEF Contract!vars
<1>3. ASSUME NEW t \in Torrents, Persist(t) PROVE Contract!Match(t)
  <2> DEFINE status == [u \in Torrents |-> row[u].status]
             attempts == [u \in Torrents |-> row[u].attempts]
  <2>1. /\ row[t].status = "absent" /\ UNCHANGED delivered
        /\ row' = [row EXCEPT ![t] = [status |-> "pending", attempts |-> 0, due |-> "now"]]
    BY <1>3 DEF Persist
  <2>2. status' = [status EXCEPT ![t] = "pending"]
    BY <1>1, <2>1
  <2>3. row[t].attempts = 0
    BY <2>1 DEF IInv, Counted
  <2>4. UNCHANGED attempts
    BY <1>1, <2>1, <2>3
  <2> QED  BY <2>1, <2>2, <2>4 DEF Contract!Match
<1>4. ASSUME NEW t \in Torrents, BecomeDue(t) PROVE UNCHANGED Contract!vars
  BY <1>1, <1>4 DEF BecomeDue, Contract!vars, Rows
<1>5. ASSUME Write PROVE (Contract!Deliver(cur) /\ cur \in Torrents) \/ UNCHANGED Contract!vars
  <2>1. cur \in Torrents /\ row[cur].status = "pending"
    BY <1>5 DEF IInv, BatchPending, Handling, Write
  <2> QED  BY <1>2, <1>5, <2>1 DEF Write, Contract!Deliver
<1>6. ASSUME Mark PROVE Contract!Record(cur) /\ cur \in Torrents
  <2>1. PICK n \in 1..(Retries + 1) :
          row' = [row EXCEPT ![cur] = Marked(@, @.attempts + 1, n)]
    <3>1. 1 \in 1..(Retries + 1)
      BY NotificationAssumption
    <3> QED  BY <1>6, <3>1 DEF Mark
  <2> QED  BY <1>6, <2>1, RecordSimulates DEF Mark, IInv, BatchPending, Handling
<1>7. ASSUME MarkFails
      PROVE  (Contract!Record(cur) /\ cur \in Torrents) \/ UNCHANGED Contract!vars
  <2>1. CASE UNCHANGED row
    BY <1>2, <1>7, <2>1 DEF MarkFails
  <2>2. CASE \E n \in 1..(Retries + 1) :
                row' = [row EXCEPT ![cur] = Marked(@, @.attempts + 1, n)]
    BY <1>7, <2>2, RecordSimulates DEF MarkFails, IInv, BatchPending, Handling
  <2> QED  BY <1>7, <2>1, <2>2 DEF MarkFails
<1>8. ASSUME \/ Scan \/ ScanFails \/ BatchDone \/ Wake \/ \E t \in Torrents : Take(t)
             \/ ConnectFails \/ Confirmed \/ Refused \/ AnswerLost \/ Truncated
             \/ Restart \/ UNCHANGED vars
      PROVE  UNCHANGED Contract!vars
  <2>1. UNCHANGED <<row, delivered>>
    BY <1>8 DEF Scan, ScanFails, BatchDone, Wake, Take, ConnectFails, Confirmed,
                Refused, AnswerLost, Truncated, Restart, vars
  <2> QED  BY <2>1, <1>2
<1>9. (\E t \in Torrents : Contract!Match(t) \/ Contract!Deliver(t) \/ Contract!Record(t))
        => Contract!Next
  BY DEF Contract!Next
<1>10. \/ \E t \in Torrents : Persist(t) \/ BecomeDue(t) \/ Take(t)
       \/ Scan \/ ScanFails \/ BatchDone \/ Wake \/ ConnectFails \/ Write
       \/ Confirmed \/ Refused \/ AnswerLost \/ Truncated \/ Mark \/ MarkFails
       \/ Restart \/ UNCHANGED vars
  BY DEF Next, Scheduler
<1>11. CASE \E t \in Torrents : Persist(t) \/ BecomeDue(t)
  <2>1. PICK t \in Torrents : Persist(t) \/ BecomeDue(t)
    BY <1>11
  <2>2. CASE Persist(t)
    <3>1. Contract!Match(t)
      BY <1>3, <2>2
    <3> QED  BY <1>9, <3>1
  <2>3. CASE BecomeDue(t)
    BY <1>4, <2>3
  <2> QED  BY <2>1, <2>2, <2>3
<1>12. CASE Write \/ Mark \/ MarkFails
  <2>1. ASSUME cur \in Torrents, Contract!Deliver(cur) \/ Contract!Record(cur)
        PROVE  Contract!Next
    <3>1. PICK t \in Torrents : t = cur
      BY <2>1
    <3>2. CASE Contract!Deliver(cur)
      <4>1. Contract!Deliver(t)
        BY <3>1, <3>2 DEF Contract!Deliver
      <4> QED  BY <1>9, <4>1
    <3>3. CASE Contract!Record(cur)
      <4>1. Contract!Record(t)
        BY <3>1, <3>3 DEF Contract!Record
      <4> QED  BY <1>9, <4>1
    <3> QED  BY <2>1, <3>2, <3>3
  <2>2. CASE Write
    <3>1. CASE UNCHANGED Contract!vars
      BY <3>1
    <3>2. CASE Contract!Deliver(cur) /\ cur \in Torrents
      <4>1. Contract!Next
        BY <2>1, <3>2
      <4> QED  BY <4>1
    <3> QED  BY <1>5, <2>2, <3>1, <3>2
  <2>3. CASE Mark
    <3>1. Contract!Next
      BY <1>6, <2>1, <2>3
    <3> QED  BY <3>1
  <2>4. CASE MarkFails
    <3>1. CASE UNCHANGED Contract!vars
      BY <3>1
    <3>2. CASE Contract!Record(cur) /\ cur \in Torrents
      <4>1. Contract!Next
        BY <2>1, <3>2
      <4> QED  BY <4>1
    <3> QED  BY <1>7, <2>4, <3>1, <3>2
  <2> QED  BY <1>12, <2>2, <2>3, <2>4
<1>13. CASE \/ Scan \/ ScanFails \/ BatchDone \/ Wake \/ \E t \in Torrents : Take(t)
            \/ ConnectFails \/ Confirmed \/ Refused \/ AnswerLost \/ Truncated
            \/ Restart \/ UNCHANGED vars
  BY <1>8, <1>13
<1> QED  BY <1>10, <1>11, <1>12, <1>13

(***************************************************************************)
(* ContractKept, for every value of the constants: the scheduler, the HTTP *)
(* client and the table implement Outbox through lost answers, failing     *)
(* database calls and crashes.                                             *)
(***************************************************************************)
THEOREM ContractKeptCorrect == Spec => ContractKept
<1>1. Init => Contract!Init
  BY DEF Init, Contract!Init
<1> QED
  BY <1>1, Invariance, StepSimulates, PTL DEF Spec, ContractKept, Contract!Spec
=============================================================================
