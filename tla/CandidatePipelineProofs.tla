----------------------- MODULE CandidatePipelineProofs -----------------------
(***************************************************************************)
(* Proofs about CandidatePipeline for every number of keys, workers, peers *)
(* and restarts, every size of the queue and every number of repetitions   *)
(* of a database operation.                                                *)
(***************************************************************************)
EXTENDS CandidatePipeline, FiniteSetTheorems, SequenceTheorems, TLAPS

(***************************************************************************)
(* A function on 1..n is a sequence, the empty one when n is not positive. *)
(***************************************************************************)
LEMMA FunctionIsSeq ==
  ASSUME NEW S, NEW n \in Int, NEW s \in [1..n -> S]
  PROVE  s \in Seq(S) /\ Len(s) = IF n < 0 THEN 0 ELSE n
<1>1. CASE n \in Nat
  <2>1. s \in Seq(S)
    BY <1>1
  <2>2. Len(s) = n
    BY <1>1
  <2> QED  BY <1>1, <2>1, <2>2
<1>2. CASE n < 0
  <2>1. s \in [1..0 -> S]
    <3>1. 1..n = 1..0
      BY <1>2
    <3> QED  BY <3>1
  <2>2. s \in Seq(S)
    BY <2>1
  <2>3. Len(s) = 0
    BY <2>1
  <2> QED  BY <1>2, <2>2, <2>3
<1> QED  BY <1>1, <1>2

(***************************************************************************)
(* Every reachable state has the type that TypeOK gives: the queue holds   *)
(* keys, rows have the states and times the program writes.                *)
(***************************************************************************)
LEMMA TypeInit == Init => TypeOK
<1> SUFFICES ASSUME Init PROVE TypeOK
  OBVIOUS
<1>1. NoRow \in Row
  BY DEF NoRow, Row, RowStates
<1>2. row \in [Keys -> Row]
  BY <1>1 DEF Init
<1>3. restarts \in 0..MaxRestarts /\ escapes \in 0..MaxEscapes
  BY SizesAssumption DEF Init
<1>4. pc \in [Workers -> PCs]
  BY DEF Init, PCs
<1>5. queue \in Seq(Keys)
  BY DEF Init
<1> QED  BY <1>2, <1>3, <1>4, <1>5 DEF Init, TypeOK

LEMMA ScanSubmitType == TypeOK /\ ScanSubmit => TypeOK'
<1> SUFFICES ASSUME TypeOK, ScanSubmit PROVE TypeOK'
  OBVIOUS
<1> DEFINE fresh == scan \ states
           room == QueueSize - Len(queue)
           n == IF Cardinality(fresh) < room THEN Cardinality(fresh) ELSE room
<1>1. PICK s \in Arrangements(fresh, n) :
          queue' = queue \o s /\ states' = states \cup {s[i] : i \in 1..n}
  BY DEF ScanSubmit
<1>2. IsFiniteSet(fresh)
  BY FiniteAssumption, FS_Subset DEF TypeOK
<1>3. n \in Int
  BY <1>2, FS_CardinalityType, SizesAssumption DEF TypeOK
<1>4. s \in [1..n -> Keys]
  BY <1>1 DEF Arrangements, TypeOK
<1>5. queue \o s \in Seq(Keys) /\ {s[i] : i \in 1..n} \subseteq Keys
  <2>1. s \in Seq(Keys)
    BY <1>3, <1>4, FunctionIsSeq
  <2>2. queue \in Seq(Keys)
    BY DEF TypeOK
  <2>3. queue \o s \in Seq(Keys)
    BY <2>1, <2>2, ConcatProperties
  <2>4. \A i \in 1..n : s[i] \in Keys
    BY <1>4
  <2> QED  BY <2>3, <2>4
<1>6. recent' \subseteq Keys
  BY DEF ScanSubmit, Pruned, TypeOK
<1> QED
  BY <1>1, <1>5, <1>6 DEF ScanSubmit, TypeOK, locals, faults, Arrangements

LEMMA SetRowType ==
  ASSUME row \in [Keys -> Row], NEW k, NEW state \in RowStates, NEW n \in Nat,
         NEW next \in {"null", "future", "due"}, SetRow(k, state, n, next)
  PROVE  row' \in [Keys -> Row]
<1> DEFINE r == [state |-> state, attempts |-> n, next |-> next]
<1>1. r \in Row
  BY DEF Row
<1>2. row' = [row EXCEPT ![k] = r]
  BY DEF SetRow
<1> HIDE DEF r
<1> QED  BY <1>1, <1>2

LEMMA GotoType ==
  ASSUME pc \in [Workers -> PCs], NEW w \in Workers, NEW label \in PCs \ {"idle"},
         Goto(w, label)
  PROVE  pc' \in [Workers -> PCs] /\ pc'[w] # "idle"
  BY DEF Goto

LEMMA SubmitType ==
  ASSUME TypeOK, NEW k \in Keys, NEW hint \in Peers \cup {NoHint}, Submit(k, hint)
  PROVE  TypeOK'
<1>1. recent' \subseteq Keys
  BY DEF Submit, SubmitReserved, SubmitFresh, SubmitRefused, Pruned, TypeOK
<1>2. CASE SubmitReserved(k, hint)
  BY <1>1, <1>2 DEF SubmitReserved, Merged, TypeOK, locals, retry, faults
<1>3. CASE SubmitFresh(k, hint)
  BY <1>1, <1>3 DEF SubmitFresh, TypeOK, locals, retry, faults
<1>4. CASE SubmitRefused(k)
  BY <1>1, <1>4 DEF SubmitRefused, TypeOK, locals, retry, faults
<1> QED  BY <1>2, <1>3, <1>4 DEF Submit

LEMMA WorkerStepType ==
  ASSUME TypeOK, NEW w \in Workers, WorkerStep(w)
  PROVE  TypeOK'
<1> USE NoValuesAssumption DEF TypeOK, Goto, memory, retry, faults
<1>0. pc[w] # "idle" => held[w] \in Keys
  OBVIOUS
<1>00. {"upsert", "mark", "hints", "lookup", "peers", "index", "persist",
        "failed", "report", "finish"} \subseteq PCs
  BY DEF PCs
<1>1. CASE Take(w)
  <2>1. queue \in Seq(Keys) /\ queue # <<>>
    BY <1>1 DEF Take
  <2>2. Head(queue) \in Keys /\ Tail(queue) \in Seq(Keys)
    BY <2>1, HeadTailProperties
  <2>3. Head(queue) # NoKey
    BY <2>2
  <2> QED  BY <1>1, <2>2, <2>3 DEF Take, PCs
<1>2. CASE Upsert(w)
  <2>1. pc' \in [Workers -> PCs] /\ pc'[w] # "idle"
    BY <1>2 DEF Upsert, PCs
  <2>2. held[w] \in Keys /\ row[held[w]] \in Row
    BY <1>0, <1>2 DEF Upsert
  <2>3. row' \in [Keys -> Row]
    <3>1. /\ row[held[w]].attempts \in Nat /\ row[held[w]].state \in RowStates
          /\ row[held[w]].next \in {"null", "future", "due"}
      BY <2>2 DEF Row
    <3> DEFINE seen == IF row[held[w]].state = "none" THEN "new"
                                                      ELSE row[held[w]].state
    <3>2. SetRow(held[w], seen, row[held[w]].attempts, row[held[w]].next)
      BY <1>2 DEF Upsert
    <3>3. seen \in RowStates
      BY <3>1 DEF RowStates
    <3> HIDE DEF seen
    <3> QED  BY <3>1, <3>2, <3>3, SetRowType
  <2>4. \A v \in Workers : held'[v] = NoKey <=> pc'[v] = "idle"
    BY <1>2 DEF Upsert
  <2> QED  BY <1>2, <2>1, <2>3, <2>4 DEF Upsert
<1>3. CASE MarkFetching(w)
  <2>0. held[w] \in Keys
    BY <1>0, <1>3 DEF MarkFetching
  <2>1. pc' = [pc EXCEPT ![w] = "finish"] \/ pc' = [pc EXCEPT ![w] = "hints"]
    BY <1>3 DEF MarkFetching
  <2>5. pc' \in [Workers -> PCs]
    BY <1>00, <2>1
  <2>2. row' \in [Keys -> Row]
    <3>1. CASE row' = row
      BY <3>1
    <3>2. CASE \E n \in 1..(Retries + 1) :
                  SetRow(held[w], "fetching", row[held[w]].attempts + n, "null")
      <4>1. PICK n \in 1..(Retries + 1) :
                SetRow(held[w], "fetching", row[held[w]].attempts + n, "null")
        BY <3>2
      <4>2. row[held[w]].attempts + n \in Nat
        BY <2>0, SizesAssumption DEF Row
      <4> QED  BY <4>1, <4>2, SetRowType DEF RowStates
    <3> QED  BY <1>3, <3>1, <3>2 DEF MarkFetching
  <2>3. hinted' \in [Workers -> SUBSET Peers]
    <3>1. hinted' = hinted \/ hinted' = [hinted EXCEPT ![w] = peer_hints[held[w]]]
      BY <1>3 DEF MarkFetching
    <3> QED  BY <2>0, <3>1
  <2>4. \A v \in Workers : held'[v] = NoKey <=> pc'[v] = "idle"
    BY <1>3 DEF MarkFetching
  <2>6. fetches' \in [Keys -> Nat]
    <3>1. fetches' = fetches \/ fetches' = [fetches EXCEPT ![held[w]] = @ + 1]
      BY <1>3 DEF MarkFetching
    <3>2. fetches[held[w]] + 1 \in Nat
      BY <2>0
    <3>3. fetches \in [Keys -> Nat]
      OBVIOUS
    <3> QED  BY ONLY <3>1, <3>2, <3>3
  <2> QED  BY <1>3, <2>5, <2>2, <2>3, <2>4, <2>6 DEF MarkFetching
<1>4. CASE TryHint(w)
  <2>1. PICK p \in hinted[w] : Attempt(w, p, "hints")
    BY <1>4 DEF TryHint
  <2>2. pc' = [pc EXCEPT ![w] = "index"] \/ pc' = [pc EXCEPT ![w] = "hints"]
    BY <2>1 DEF Attempt
  <2>3. pc' \in [Workers -> PCs] /\ pc'[w] # "idle"
    <3>1. Goto(w, "index") \/ Goto(w, "hints")
      BY <2>2
    <3> QED  BY <3>1, GotoType DEF PCs
  <2> QED  BY <1>4, <2>1, <2>2, <2>3 DEF TryHint, Attempt
<1>5. CASE HintsDone(w)
  BY <1>5 DEF HintsDone, PCs
<1>6. CASE Lookup(w)
  BY <1>0, <1>6 DEF Lookup, PCs
<1>7. CASE TryPeer(w)
  <2>1. PICK p \in NextPeers(w) : Attempt(w, p, "peers")
    BY <1>7 DEF TryPeer
  <2>2. p \in Peers
    BY DEF NextPeers
  <2>3. pc' = [pc EXCEPT ![w] = "index"] \/ pc' = [pc EXCEPT ![w] = "peers"]
    BY <2>1 DEF Attempt
  <2>4. pc' \in [Workers -> PCs] /\ pc'[w] # "idle"
    <3>1. Goto(w, "index") \/ Goto(w, "peers")
      BY <2>3
    <3> QED  BY <3>1, GotoType DEF PCs
  <2> QED  BY <1>7, <2>1, <2>2, <2>3, <2>4 DEF TryPeer, Attempt
<1>8. CASE PeersDone(w)
  BY <1>8 DEF PeersDone, PCs
<1>9. CASE Index(w)
  BY <1>9 DEF Index, PCs
<1>10. CASE Persist(w)
  <2>1. row' \in [Keys -> Row]
    <3>1. row[held[w]].attempts \in Nat
      BY <1>0, <1>10 DEF Persist, Row
    <3> QED  BY <1>10, <3>1, SetRowType DEF Persist, RowStates
  <2> QED  BY <1>00, <1>10, <2>1 DEF Persist
<1>11. CASE ReadAttempts(w)
  <2>1. row[held[w]].attempts \in Nat
    BY <1>0, <1>11 DEF ReadAttempts, Row
  <2> QED  BY <1>11, <2>1 DEF ReadAttempts, PCs
<1>12. CASE MarkFailed(w)
  <2>1. row' \in [Keys -> Row]
    <3>1. row[held[w]].attempts \in Nat
      BY <1>0, <1>12 DEF MarkFailed, Row
    <3>2. \/ UNCHANGED row
          \/ SetRow(held[w], "fetch_failed", row[held[w]].attempts, "null")
          \/ SetRow(held[w], "fetch_failed", row[held[w]].attempts, "future")
      BY <1>12 DEF MarkFailed
    <3> QED  BY <3>1, <3>2, SetRowType DEF RowStates
  <2>2. pc' \in [Workers -> PCs]
    BY <1>00, <1>12 DEF MarkFailed
  <2>3. \A v \in Workers : held'[v] = NoKey <=> pc'[v] = "idle"
    BY <1>12 DEF MarkFailed
  <2> QED  BY <1>12, <2>1, <2>2, <2>3 DEF MarkFailed
<1>13. CASE Finish(w)
  <2>1. recent' \subseteq Keys
    BY <1>0, <1>13 DEF Finish, FinishKey, Pruned
  <2> QED  BY <1>13, <2>1 DEF Finish, FinishKey, Idle, PCs
<1> QED
  BY <1>1, <1>2, <1>3, <1>4, <1>5, <1>6, <1>7, <1>8, <1>9, <1>10, <1>11,
     <1>12, <1>13 DEF WorkerStep

LEMMA RestType ==
  ASSUME TypeOK,
         (\E w \in Workers : Escape(w)) \/ ScanRead
           \/ (\E k \in Keys : BecomeDue(k)) \/ Restart
  PROVE  TypeOK'
<1>1. ASSUME NEW w \in Workers, Escape(w) PROVE TypeOK'
  <2>1. escapes' \in 0..MaxEscapes
    BY <1>1, SizesAssumption DEF Escape, TypeOK
  <2>2. held[w] \in Keys
    BY <1>1 DEF Escape, TypeOK
  <2> QED
    BY <1>1, <2>1, <2>2 DEF Escape, Idle, Goto, TypeOK, PCs, memory, retry
<1>2. CASE ScanRead
  <2>1. scan' \subseteq Keys
    BY <1>2 DEF ScanRead, Due
  <2> QED  BY <1>2, <2>1 DEF ScanRead, TypeOK, memory, locals, faults
<1>3. ASSUME NEW k \in Keys, BecomeDue(k) PROVE TypeOK'
  <2>1. row' \in [Keys -> Row]
    <3>1. row[k] \in Row
      BY DEF TypeOK
    <3> QED  BY <1>3, <3>1, SetRowType DEF BecomeDue, TypeOK, Row
  <2> QED  BY <1>3, <2>1 DEF BecomeDue, TypeOK, memory, locals, retry, faults
<1>4. CASE Restart
  <2>1. restarts' \in 0..MaxRestarts /\ escapes' \in 0..MaxEscapes
    BY <1>4, SizesAssumption DEF Restart, TypeOK
  <2>2. row' \in [Keys -> Row]
    <3>1. \A r \in Row : Recovered(r) \in Row
      BY DEF Recovered, Row, RowStates
    <3> QED  BY <1>4, <3>1 DEF Restart, TypeOK
  <2>3. queue' \in Seq(Keys)
    BY <1>4 DEF Restart
  <2>4. pc' \in [Workers -> PCs]
    BY <1>4 DEF Restart, PCs
  <2> QED  BY <1>4, <2>1, <2>2, <2>3, <2>4 DEF Restart, TypeOK
<1> QED  BY <1>1, <1>2, <1>3, <1>4

LEMMA TypeStep == TypeOK /\ [Next]_vars => TypeOK'
<1> SUFFICES ASSUME TypeOK, [Next]_vars PROVE TypeOK'
  OBVIOUS
<1>1. CASE Discover
  BY <1>1, SubmitType DEF Discover
<1>2. CASE \E w \in Workers : WorkerStep(w)
  BY <1>2, WorkerStepType
<1>3. CASE ScanSubmit
  BY <1>3, ScanSubmitType
<1>4. CASE UNCHANGED vars
  BY <1>4 DEF vars, memory, locals, retry, faults, TypeOK
<1> QED  BY <1>1, <1>2, <1>3, <1>4, RestType DEF Next

\* Submissions, workers, schedulers and restarts keep every variable of its type.
THEOREM TypeCorrect == Spec => []TypeOK
  BY TypeInit, TypeStep, PTL DEF Spec

-----------------------------------------------------------------------------
(***************************************************************************)
(* Ownership of candidates.  OneOwner and ReservationsOwned, and what they *)
(* need to be inductive: a key that an exception left behind is not queued *)
(* or in hand, so releasing another key never releases it.                 *)
(***************************************************************************)
OwnInv ==
    /\ \A i, j \in 1..Len(queue) : queue[i] = queue[j] => i = j
    /\ \A v, w \in Workers : held[v] = held[w] /\ held[v] # NoKey => v = w
    /\ \A i \in 1..Len(queue), w \in Workers : queue[i] # held[w]
    /\ \A i \in 1..Len(queue) : queue[i] \in states \ leaked
    /\ \A w \in Workers : held[w] # NoKey => held[w] \in states \ leaked
    /\ leaked \subseteq states
    /\ \A k \in states \ leaked : \/ \E i \in 1..Len(queue) : queue[i] = k
                                  \/ \E w \in Workers : held[w] = k

LEMMA OwnInit == Init => OwnInv
  BY DEF Init, OwnInv

LEMMA OwnFrame == OwnInv /\ UNCHANGED <<queue, states, held, leaked>> => OwnInv'
  BY DEF OwnInv

LEMMA OwnConcat ==
  ASSUME TypeOK, OwnInv, NEW n \in Int,
         NEW s \in [1..n -> Keys \ states],
         \A i, j \in 1..n : s[i] = s[j] => i = j,
         queue' = queue \o s, states' = states \cup {s[i] : i \in 1..n},
         UNCHANGED <<held, leaked>>
  PROVE  OwnInv'
<1> DEFINE m == Len(queue)
           l == Len(s)
<1>1. s \in Seq(Keys) /\ l = IF n < 0 THEN 0 ELSE n
  BY FunctionIsSeq
<1>2. queue \in Seq(Keys) /\ m \in Nat
  BY DEF TypeOK
<1>3. /\ Len(queue') = m + l
      /\ \A i \in 1..(m + l) : queue'[i] = IF i <= m THEN queue[i] ELSE s[i - m]
  <2>1. s \in Seq(Keys) /\ queue' = queue \o s
    BY <1>1
  <2> HIDE DEF OwnInv
  <2> QED  BY ONLY <1>2, <2>1, ConcatProperties
<1>4. 1..l = 1..n /\ l \in Nat
  <2>1. CASE n < 0
    BY <1>1, <2>1
  <2>2. CASE n >= 0
    BY <1>1, <2>2
  <2> QED  BY <2>1, <2>2
<1>5. \A i \in 1..l : s[i] \in Keys \ states
  BY <1>4
<1>6. \A i, j \in 1..l : s[i] = s[j] => i = j
  BY <1>4
<1>7. \A i \in 1..m : queue'[i] = queue[i]
  BY <1>2, <1>3, <1>4
<1>8. \A i \in 1..l : m + i \in 1..(m + l) /\ queue'[m + i] = s[i]
  BY <1>2, <1>3, <1>4
<1>9. \A i \in 1..(m + l) : \/ i \in 1..m
                            \/ i - m \in 1..l /\ queue'[i] = s[i - m]
  BY <1>2, <1>3, <1>4
<1>10. states' = states \cup {s[i] : i \in 1..l}
  BY <1>4
<1>11. \A i \in 1..m : queue[i] \in states \ leaked
  BY DEF OwnInv
<1>12. leaked \subseteq states /\ held \in [Workers -> Keys \cup {NoKey}]
  BY DEF OwnInv, TypeOK
<1> HIDE DEF m, l
<1>13. \A i, j \in 1..(m + l) : queue'[i] = queue'[j] => i = j
  <2> SUFFICES ASSUME NEW i \in 1..(m + l), NEW j \in 1..(m + l), queue'[i] = queue'[j]
               PROVE  i = j
    OBVIOUS
  <2>1. CASE i \in 1..m /\ j \in 1..m
    <3>1. queue[i] = queue[j]
      BY <1>7, <2>1
    <3> QED  BY <2>1, <3>1 DEF OwnInv, m
  <2>0. /\ \A x \in 1..m : queue'[x] \in states
        /\ \A x \in 1..(m + l) : x \notin 1..m => queue'[x] \notin states
    <3>1. \A x \in 1..m : queue'[x] \in states
      BY <1>7, <1>11
    <3>2. ASSUME NEW x \in 1..(m + l), x \notin 1..m PROVE queue'[x] \notin states
      <4>1. x - m \in 1..l /\ queue'[x] = s[x - m]
        BY <1>9, <3>2
      <4> QED  BY <1>5, <4>1
    <3> QED  BY <3>1, <3>2
  <2>2. CASE i \in 1..m /\ j \notin 1..m
    BY <2>0, <2>2
  <2>3. CASE i \notin 1..m /\ j \in 1..m
    BY <2>0, <2>3
  <2>4. CASE i \notin 1..m /\ j \notin 1..m
    <3>1. i - m \in 1..l /\ j - m \in 1..l /\ s[i - m] = s[j - m]
      BY <1>9, <2>4
    <3>2. i - m = j - m
      BY <1>6, <3>1
    <3> QED  BY <1>2, <1>4, <3>2
  <2> QED  BY <2>1, <2>2, <2>3, <2>4
<1>14. \A i \in 1..(m + l), w \in Workers : queue'[i] # held'[w]
  <2> SUFFICES ASSUME NEW i \in 1..(m + l), NEW w \in Workers
               PROVE  queue'[i] # held[w]
    OBVIOUS
  <2>1. CASE i \in 1..m
    BY <1>7, <2>1 DEF OwnInv, m
  <2>2. CASE i \notin 1..m
    <3>1. queue'[i] \in Keys \ states
      BY <1>5, <1>9, <2>2
    <3>2. held[w] = NoKey \/ held[w] \in states
      BY DEF OwnInv
    <3> QED  BY <3>1, <3>2, NoValuesAssumption
  <2> QED  BY <2>1, <2>2
<1>15. \A i \in 1..(m + l) : queue'[i] \in states' \ leaked'
  BY <1>5, <1>7, <1>9, <1>10, <1>11, <1>12
<1>16. \A k \in states' \ leaked' : \/ \E i \in 1..(m + l) : queue'[i] = k
                                    \/ \E w \in Workers : held'[w] = k
  <2> SUFFICES ASSUME NEW k \in states' \ leaked,
                      \A w \in Workers : held[w] # k
               PROVE  \E i \in 1..(m + l) : queue'[i] = k
    OBVIOUS
  <2>1. CASE k \in states
    <3>1. PICK i \in 1..m : queue[i] = k
      BY <2>1 DEF OwnInv, m
    <3>2. i \in 1..(m + l)
      BY <1>2, <1>4
    <3> QED  BY <1>7, <3>1, <3>2
  <2>2. CASE k \notin states
    <3>1. PICK i \in 1..l : s[i] = k
      BY <1>10, <2>2
    <3> QED  BY <1>8, <3>1
  <2> QED  BY <2>1, <2>2
<1>17. /\ \A v, w \in Workers : held'[v] = held'[w] /\ held'[v] # NoKey => v = w
       /\ \A w \in Workers : held'[w] # NoKey => held'[w] \in states' \ leaked'
       /\ leaked' \subseteq states'
  BY <1>10 DEF OwnInv
<1>18. 1..Len(queue') = 1..(m + l)
  BY <1>3 DEF m, l
<1>19. /\ \A i, j \in 1..Len(queue') : queue'[i] = queue'[j] => i = j
       /\ \A i \in 1..Len(queue'), w \in Workers : queue'[i] # held'[w]
       /\ \A i \in 1..Len(queue') : queue'[i] \in states' \ leaked'
  BY <1>13, <1>14, <1>15, <1>18
<1>20. \A k \in states' \ leaked' : \/ \E i \in 1..Len(queue') : queue'[i] = k
                                    \/ \E w \in Workers : held'[w] = k
  BY <1>16, <1>18
<1> QED  BY ONLY <1>17, <1>19, <1>20 DEF OwnInv

LEMMA ScanSubmitOwn == TypeOK /\ OwnInv /\ ScanSubmit => OwnInv'
<1> SUFFICES ASSUME TypeOK, OwnInv, ScanSubmit PROVE OwnInv'
  OBVIOUS
<1> DEFINE fresh == scan \ states
           room == QueueSize - Len(queue)
           n == IF Cardinality(fresh) < room THEN Cardinality(fresh) ELSE room
<1>1. PICK s \in Arrangements(fresh, n) :
          queue' = queue \o s /\ states' = states \cup {s[i] : i \in 1..n}
  BY DEF ScanSubmit
<1>2. IsFiniteSet(fresh)
  BY FiniteAssumption, FS_Subset DEF TypeOK
<1>3. n \in Int
  BY <1>2, FS_CardinalityType, SizesAssumption DEF TypeOK
<1>4. s \in [1..n -> Keys \ states] /\ \A i, j \in 1..n : s[i] = s[j] => i = j
  BY <1>1 DEF Arrangements, TypeOK
<1>5. UNCHANGED <<held, leaked>>
  BY DEF ScanSubmit, locals, faults
<1> HIDE DEF n
<1> QED  BY <1>1, <1>3, <1>4, <1>5, OwnConcat

LEMMA SubmitOwn ==
  ASSUME TypeOK, OwnInv, NEW k \in Keys, NEW hint \in Peers \cup {NoHint},
         Submit(k, hint)
  PROVE  OwnInv'
<1>1. CASE SubmitReserved(k, hint) \/ SubmitRefused(k)
  <2>1. UNCHANGED <<queue, states, held, leaked>>
    BY <1>1 DEF SubmitReserved, SubmitRefused, locals, faults
  <2> QED  BY <2>1, OwnFrame
<1>2. CASE SubmitFresh(k, hint)
  <2> DEFINE s == <<k>>
  <2>1. s \in [1..1 -> Keys \ states]
    BY <1>2 DEF SubmitFresh
  <2>2. queue \in Seq(Keys)
    BY DEF TypeOK
  <2>3. queue' = queue \o s
    BY <1>2, <2>2 DEF SubmitFresh
  <2>4. states' = states \cup {s[i] : i \in 1..1}
    BY <1>2 DEF SubmitFresh
  <2>5. UNCHANGED <<held, leaked>>
    BY <1>2 DEF SubmitFresh, locals, faults
  <2>6. 1 \in Int /\ \A i, j \in 1..1 : s[i] = s[j] => i = j
    OBVIOUS
  <2> HIDE DEF s
  <2> QED  BY <2>1, <2>3, <2>4, <2>5, <2>6, OwnConcat
<1> QED  BY <1>1, <1>2 DEF Submit

LEMMA TakeOwn ==
  ASSUME TypeOK, OwnInv, NEW w \in Workers, Take(w)
  PROVE  OwnInv'
<1> DEFINE m == Len(queue)
           k == queue[1]
<1>1. queue \in Seq(Keys) /\ queue # <<>> /\ m \in Nat \ {0}
  BY DEF Take, TypeOK
<1>2. /\ Len(queue') = m - 1
      /\ \A i \in 1..(m - 1) : queue'[i] = queue[i + 1]
  BY <1>1, HeadTailProperties DEF Take
<1>3. held' = [held EXCEPT ![w] = k] /\ held[w] = NoKey
  BY <1>1 DEF Take, TypeOK
<1>4. 1 \in 1..m /\ \A i \in 1..(m - 1) : i + 1 \in 1..m /\ i + 1 # 1
  BY <1>1
<1>5. \A i \in 1..m : i = 1 \/ (i - 1 \in 1..(m - 1) /\ queue'[i - 1] = queue[i])
  BY <1>1, <1>2
<1>6. held \in [Workers -> Keys \cup {NoKey}] /\ UNCHANGED <<states, leaked>>
  BY DEF TypeOK, Take, faults
<1>7. /\ k \in states \ leaked
      /\ \A i \in 1..(m - 1) : queue'[i] # k /\ queue'[i] \in states \ leaked
      /\ \A v \in Workers : held[v] # k
      /\ \A i, j \in 1..(m - 1) : queue'[i] = queue'[j] => i = j
      /\ \A i \in 1..(m - 1), v \in Workers : queue'[i] # held[v]
  <2>1. \A i, j \in 1..m : queue[i] = queue[j] => i = j
    BY DEF OwnInv
  <2>2. \A i \in 1..m : queue[i] \in states \ leaked
    BY DEF OwnInv
  <2>3. \A i \in 1..m, v \in Workers : queue[i] # held[v]
    BY DEF OwnInv
  <2> HIDE DEF m
  <2>4. \A i, j \in 1..(m - 1) : i + 1 = j + 1 => i = j
    BY <1>1
  <2>5. \A i, j \in 1..(m - 1) : queue'[i] = queue'[j] => i = j
    BY <1>2, <1>4, <2>1, <2>4
  <2>6. \A i \in 1..(m - 1) : queue'[i] # k
    BY <1>2, <1>4, <2>1
  <2> QED  BY <1>2, <1>4, <2>2, <2>3, <2>5, <2>6
<1>8. \A x \in states \ leaked : \/ \E i \in 1..(m - 1) : queue'[i] = x
                                 \/ \E v \in Workers : held'[v] = x
  <2> SUFFICES ASSUME NEW x \in states \ leaked, \A v \in Workers : held'[v] # x
               PROVE  \E i \in 1..(m - 1) : queue'[i] = x
    BY <1>6
  <2>1. x # k /\ \A v \in Workers : held[v] # x
    <3>1. held'[w] = k /\ \A v \in Workers \ {w} : held'[v] = held[v]
      BY <1>3, <1>6
    <3>2. x \in Keys
      BY DEF TypeOK
    <3> QED  BY <1>3, <3>1, <3>2, NoValuesAssumption
  <2>2. PICK i \in 1..m : queue[i] = x
    BY <2>1 DEF OwnInv
  <2> QED  BY <1>5, <2>1, <2>2
<1> HIDE DEF m, k
<1>9. /\ \A v, u \in Workers : held'[v] = held'[u] /\ held'[v] # NoKey => v = u
      /\ \A v \in Workers : held'[v] # NoKey => held'[v] \in states' \ leaked'
      /\ leaked' \subseteq states'
  BY <1>3, <1>6, <1>7 DEF OwnInv
<1>10. \A i \in 1..(m - 1), v \in Workers : queue'[i] # held'[v]
  BY <1>3, <1>6, <1>7
<1> QED  BY <1>2, <1>6, <1>7, <1>8, <1>9, <1>10 DEF OwnInv

LEMMA LeaveOwn ==
  ASSUME TypeOK, OwnInv, NEW w \in Workers, held[w] # NoKey,
         held' = [held EXCEPT ![w] = NoKey], queue' = queue,
         \/ states' = states \ {held[w]} /\ leaked' = leaked
         \/ states' = states /\ leaked' = leaked \cup {held[w]}
  PROVE  OwnInv'
<1>1. held \in [Workers -> Keys \cup {NoKey}]
  BY DEF TypeOK
<1>2. states' \ leaked' = (states \ leaked) \ {held[w]} /\ leaked' \subseteq states'
  BY DEF OwnInv
<1>3. \A v \in Workers : v # w => held'[v] = held[v] /\ (held[v] # NoKey => held[v] # held[w])
  BY <1>1 DEF OwnInv
<1>4. held'[w] = NoKey
  BY <1>1
<1>5. /\ \A v, u \in Workers : held'[v] = held'[u] /\ held'[v] # NoKey => v = u
      /\ \A v \in Workers : held'[v] # NoKey => held'[v] \in states' \ leaked'
  BY <1>2, <1>3, <1>4 DEF OwnInv
<1>6. \A i \in 1..Len(queue), v \in Workers : queue[i] # held'[v]
  <2>1. \A i \in 1..Len(queue) : queue[i] \in Keys
    BY DEF OwnInv, TypeOK
  <2> QED  BY <1>3, <1>4, <2>1, NoValuesAssumption DEF OwnInv
<1>7. \A i \in 1..Len(queue) : queue[i] \in states' \ leaked'
  BY <1>2 DEF OwnInv
<1>8. \A k \in states' \ leaked' : \/ \E i \in 1..Len(queue) : queue[i] = k
                                   \/ \E v \in Workers : held'[v] = k
  BY <1>2, <1>3 DEF OwnInv
<1>9. \A i, j \in 1..Len(queue) : queue[i] = queue[j] => i = j
  BY DEF OwnInv
<1> QED  BY <1>2, <1>5, <1>6, <1>7, <1>8, <1>9 DEF OwnInv

LEMMA WorkerStepOwn ==
  ASSUME TypeOK, OwnInv, NEW w \in Workers, WorkerStep(w)
  PROVE  OwnInv'
<1>1. CASE Take(w)
  BY <1>1, TakeOwn
<1>2. CASE Finish(w)
  <2>1. held[w] # NoKey
    BY <1>2 DEF Finish, TypeOK
  <2> QED  BY <1>2, <2>1, LeaveOwn DEF Finish, FinishKey, Idle, faults
<1>3. CASE ~ Take(w) /\ ~ Finish(w)
  <2>1. UNCHANGED <<queue, states, held, leaked>>
    BY <1>3 DEF WorkerStep, Upsert, MarkFetching, TryHint, HintsDone, Lookup,
         TryPeer, PeersDone, Index, Persist, ReadAttempts, MarkFailed, Attempt,
         memory, faults
  <2> QED  BY <2>1, OwnFrame
<1> QED  BY <1>1, <1>2, <1>3

LEMMA OwnStep == TypeOK /\ OwnInv /\ [Next]_vars => OwnInv'
<1> SUFFICES ASSUME TypeOK, OwnInv, [Next]_vars PROVE OwnInv'
  OBVIOUS
<1>1. CASE Discover
  BY <1>1, SubmitOwn DEF Discover
<1>2. CASE \E w \in Workers : WorkerStep(w)
  BY <1>2, WorkerStepOwn
<1>3. CASE \E w \in Workers : Escape(w)
  <2>1. PICK w \in Workers : Escape(w)
    BY <1>3
  <2>2. held[w] # NoKey
    BY <2>1 DEF Escape, TypeOK
  <2> QED  BY <2>1, <2>2, LeaveOwn DEF Escape, Idle, memory
<1>4. CASE ScanRead \/ (\E k \in Keys : BecomeDue(k)) \/ UNCHANGED vars
  <2>1. UNCHANGED <<queue, states, held, leaked>>
    BY <1>4 DEF ScanRead, BecomeDue, vars, memory, locals, faults
  <2> QED  BY <2>1, OwnFrame
<1>5. CASE ScanSubmit
  BY <1>5, ScanSubmitOwn
<1>6. CASE Restart
  BY <1>6 DEF Restart, OwnInv
<1> QED  BY <1>1, <1>2, <1>3, <1>4, <1>5, <1>6 DEF Next

LEMMA OwnInvImplies == TypeOK /\ OwnInv => OneOwner /\ ReservationsOwned
<1> SUFFICES ASSUME TypeOK, OwnInv PROVE OneOwner /\ ReservationsOwned
  OBVIOUS
<1>1. OneOwner
  BY DEF OneOwner, OwnInv, Queued, InHand
<1>2. ReservationsOwned
  <2>1. Queued \cup InHand \cup leaked \subseteq states
    BY DEF OwnInv, Queued, InHand
  <2>2. ASSUME NEW k \in states PROVE k \in Queued \cup InHand \cup leaked
    <3>1. k # NoKey
      BY NoValuesAssumption DEF TypeOK
    <3>2. k \in leaked \/ (\E i \in 1..Len(queue) : queue[i] = k)
                       \/ (\E w \in Workers : held[w] = k)
      BY DEF OwnInv
    <3> QED  BY <3>1, <3>2 DEF Queued, InHand
  <2> QED  BY <2>1, <2>2 DEF ReservationsOwned
<1> QED  BY <1>1, <1>2

LEMMA OwnInvariant == Spec => [](TypeOK /\ OwnInv)
<1>1. Init => TypeOK /\ OwnInv
  BY TypeInit, OwnInit
<1>2. TypeOK /\ OwnInv /\ [Next]_vars => TypeOK' /\ OwnInv'
  BY TypeStep, OwnStep
<1> QED  BY <1>1, <1>2, PTL DEF Spec

(***************************************************************************)
(* A candidate has one owner at a time: it is queued once or held by one   *)
(* worker of torrent_worker's pool.                                        *)
(***************************************************************************)
THEOREM OneOwnerCorrect == Spec => []OneOwner
  BY OwnInvariant, OwnInvImplies, PTL

(***************************************************************************)
(* A reservation of CandidateManager is never orphaned by an interleaving: *)
(* its key is queued, in hand, or was left by an unexpected exception.     *)
(***************************************************************************)
THEOREM ReservationsOwnedCorrect == Spec => []ReservationsOwned
  BY OwnInvariant, OwnInvImplies, PTL

-----------------------------------------------------------------------------
(***************************************************************************)
(* The rows.  RowOK relates the fields of a row, WorkerOK says what the    *)
(* worker that holds a key knows of its row at each point, and Owner that  *)
(* a row being fetched has a worker; each of them needs the others, and    *)
(* OwnInv, to be inductive.                                                *)
(***************************************************************************)

\* So many fetches can have counted so many attempts.
Countable(begun, counted) == counted <= begun * (Retries + 1)

(***************************************************************************)
(* One fetch more counts as many attempts as mark_fetching is executed.    *)
(***************************************************************************)
LEMMA CountsOnce ==
  ASSUME NEW begun \in Nat, NEW counted \in Nat, Countable(begun, counted),
         NEW n \in 1..(Retries + 1)
  PROVE  Countable(begun + 1, counted + n)
<1>1. Retries \in Nat
  BY SizesAssumption
<1> DEFINE b == begun * (Retries + 1)
<1>2. (begun + 1) * (Retries + 1) = b + (Retries + 1)
  BY <1>1
<1>3. b \in Nat /\ counted <= b
  BY <1>1 DEF Countable
<1> HIDE DEF b
<1>4. counted + n <= b + (Retries + 1)
  BY <1>1, <1>3
<1> QED  BY <1>2, <1>4 DEF Countable

RowOK(k) ==
    /\ row[k].state \in {"none", "new"} => row[k].attempts = 0 /\ row[k].next = "null"
    /\ row[k].state \in {"fetching", "complete"} => row[k].next = "null"
    /\ fetches[k] <= MaxFetches + restarts
    /\ row[k].next # "null" => fetches[k] < MaxFetches + restarts
    /\ fetches[k] <= row[k].attempts /\ Countable(fetches[k], row[k].attempts)
    /\ row[k].state = "fetch_failed" /\ row[k].next = "null"
          => row[k].attempts >= MaxFetches

Startable(r) == r.state = "new" \/ (r.state = "fetch_failed" /\ r.next = "due")

WorkerOK(w) ==
    /\ pc[w] = "upsert" /\ was_due[w] => row[held[w]].next = "due"
    /\ pc[w] = "mark" => Startable(row[held[w]])
    /\ pc[w] \in Fetching => row[held[w]].state = "fetching"
    /\ pc[w] = "report" => attempt_no[w] = row[held[w]].attempts

Owner(k, w) == pc[w] \in Fetching /\ held[w] = k

RowInv ==
    /\ \A k \in Keys : RowOK(k)
    /\ \A w \in Workers : WorkerOK(w)
    /\ \A k \in Keys : row[k].state = "fetching" =>
          k \in leaked \/ \E w \in Workers : Owner(k, w)

LEMMA RowInit == Init => RowInv
<1> SUFFICES ASSUME Init PROVE RowInv
  OBVIOUS
<1>1. /\ restarts = 0 /\ MaxFetches \in Nat \ {0} /\ Retries \in Nat
      /\ \A k \in Keys : fetches[k] = 0
  BY SizesAssumption DEF Init
<1>2. \A k \in Keys : row[k] = NoRow
  BY DEF Init
<1>3. \A k \in Keys : RowOK(k) /\ row[k].state # "fetching"
  <2>1. Countable(0, 0)
    BY <1>1 DEF Countable
  <2> QED  BY <1>1, <1>2, <2>1 DEF RowOK, NoRow
<1>4. \A w \in Workers : pc[w] = "idle"
  BY DEF Init
<1>5. \A w \in Workers : WorkerOK(w)
  BY <1>4 DEF WorkerOK, Fetching
<1> QED  BY <1>3, <1>5 DEF RowInv

LEMMA RowFrame ==
  RowInv /\ UNCHANGED <<row, pc, held, was_due, attempt_no, leaked, restarts, fetches>> => RowInv'
  BY DEF RowInv, RowOK, WorkerOK, Owner

\* A step of the worker that holds k, which touches no other row and no other
\* worker.
LEMMA HolderStep ==
  ASSUME TypeOK, OwnInv, RowInv, NEW w \in Workers, NEW k \in Keys, held[w] = k,
         \A x \in Keys \ {k} : row'[x] = row[x],
         \A v \in Workers \ {w} : /\ pc'[v] = pc[v] /\ held'[v] = held[v]
                                  /\ was_due'[v] = was_due[v]
                                  /\ attempt_no'[v] = attempt_no[v],
         \A x \in Keys \ {k} : fetches'[x] = fetches[x],
         restarts' = restarts, leaked \subseteq leaked',
         RowOK(k)', WorkerOK(w)',
         row'[k].state = "fetching" => k \in leaked' \/ Owner(k, w)'
  PROVE  RowInv'
<1>1. \A x \in Keys \ {k} : RowOK(x)'
  BY DEF RowInv, RowOK
<1>2. ASSUME NEW v \in Workers \ {w} PROVE WorkerOK(v)'
  <2>1. CASE pc[v] = "idle"
    BY <2>1 DEF WorkerOK, Fetching
  <2>2. CASE pc[v] # "idle"
    <3>1. held[v] \in Keys \ {k}
      BY <2>2 DEF TypeOK, OwnInv
    <3>2. row'[held[v]] = row[held[v]]
      BY <3>1
    <3> QED  BY <3>2 DEF RowInv, WorkerOK
  <2> QED  BY <2>1, <2>2
<1>3. ASSUME NEW x \in Keys \ {k}, row'[x].state = "fetching"
      PROVE  x \in leaked' \/ \E v \in Workers : Owner(x, v)'
  <2>1. CASE x \in leaked
    BY <2>1
  <2>2. CASE x \notin leaked
    <3>1. PICK v \in Workers : Owner(x, v)
      BY <1>3, <2>2 DEF RowInv
    <3>2. v # w
      BY <3>1 DEF Owner
    <3> QED  BY <3>1, <3>2 DEF Owner
  <2> QED  BY <2>1, <2>2
<1> QED  BY <1>1, <1>2, <1>3 DEF RowInv

LEMMA SetRowAt ==
  ASSUME row \in [Keys -> Row], NEW k \in Keys, NEW state, NEW n, NEW next,
         SetRow(k, state, n, next)
  PROVE  /\ \A x \in Keys \ {k} : row'[x] = row[x]
         /\ row'[k].state = state /\ row'[k].attempts = n /\ row'[k].next = next
  BY DEF SetRow

LEMMA WorkerStepRow ==
  ASSUME TypeOK, OwnInv, RowInv, NEW w \in Workers, WorkerStep(w), ~ Take(w)
  PROVE  RowInv'
<1>0. pc[w] # "idle" /\ held[w] \in Keys
  BY DEF WorkerStep, Upsert, MarkFetching, TryHint, HintsDone, Lookup, TryPeer,
     PeersDone, Index, Persist, ReadAttempts, MarkFailed, Finish, TypeOK
<1>1. PICK k \in Keys : held[w] = k
  BY <1>0
<1>2. /\ row \in [Keys -> Row] /\ row[k] \in Row /\ RowOK(k) /\ WorkerOK(w)
      /\ restarts \in Nat
  BY <1>1, SizesAssumption DEF TypeOK, RowInv
<1>3. restarts' = restarts /\ leaked' = leaked
  BY DEF WorkerStep, Upsert, MarkFetching, TryHint, HintsDone, Lookup, TryPeer,
     PeersDone, Index, Persist, ReadAttempts, MarkFailed, Finish, Attempt, faults
<1>4. \A v \in Workers \ {w} : /\ pc'[v] = pc[v] /\ held'[v] = held[v]
                               /\ was_due'[v] = was_due[v]
                               /\ attempt_no'[v] = attempt_no[v]
  BY DEF WorkerStep, Upsert, MarkFetching, TryHint, HintsDone, Lookup, TryPeer,
     PeersDone, Index, Persist, ReadAttempts, MarkFailed, Finish, Attempt, Idle,
     Goto, TypeOK
<1>5. row[k].attempts \in Nat /\ fetches[k] \in Nat /\ MaxFetches \in Nat
  BY <1>2, SizesAssumption DEF Row, TypeOK
<1>13. ~ MarkFetching(w) => fetches' = fetches
  BY DEF WorkerStep, Upsert, TryHint, HintsDone, Lookup, TryPeer, PeersDone,
     Index, Persist, ReadAttempts, MarkFailed, Finish, Attempt
<1>15. \A x \in Keys \ {k} : fetches'[x] = fetches[x]
  BY <1>1, <1>13 DEF MarkFetching, TypeOK
<1> USE DEF Fetching
<1>6. CASE Upsert(w)
  <2> DEFINE seen == IF row[k].state = "none" THEN "new" ELSE row[k].state
  <2>1. SetRow(k, seen, row[k].attempts, row[k].next)
    BY <1>1, <1>6 DEF Upsert
  <2>2. /\ \A x \in Keys \ {k} : row'[x] = row[x]
        /\ row'[k].state = seen /\ row'[k].attempts = row[k].attempts
        /\ row'[k].next = row[k].next
    BY <1>1, <1>2, <2>1, SetRowAt
  <2>3. RowOK(k)'
    <3>1. fetches' = fetches
      BY <1>6 DEF Upsert
    <3> QED  BY <1>2, <1>3, <2>2, <3>1 DEF RowOK
  <2>4. /\ held'[w] = k
        /\ pc'[w] = IF Skip(w, row[k]) THEN "finish" ELSE "mark"
    BY <1>1, <1>6 DEF Upsert, Goto, TypeOK
  <2>5. WorkerOK(w)'
    <3>1. CASE Skip(w, row[k])
      BY <2>4, <3>1 DEF WorkerOK
    <3>2. CASE ~ Skip(w, row[k])
      <4>1. row[k].state # "complete" /\ (row[k].state = "fetch_failed" => was_due[w])
        BY <3>2 DEF Skip, Settled
      <4>2. was_due[w] => row[k].next = "due"
        BY <1>1, <1>2, <1>6 DEF WorkerOK, Upsert
      <4>3. row[k].state # "fetching"
        <5>1. k \notin leaked /\ \A v \in Workers : ~ Owner(k, v)
          BY <1>1, <1>6, NoValuesAssumption DEF OwnInv, Owner, Upsert, TypeOK
        <5> QED  BY <1>1, <5>1 DEF RowInv
      <4>4. row[k].state \in RowStates
        BY <1>2 DEF Row
      <4>5. Startable(row[k])'
        BY <2>2, <4>1, <4>2, <4>3, <4>4 DEF Startable, RowStates
      <4> QED  BY <2>4, <3>2, <4>5 DEF WorkerOK, Startable
    <3> QED  BY <3>1, <3>2
  <2>6. row'[k].state = "fetching" => k \in leaked' \/ Owner(k, w)'
    <3>1. k \notin leaked /\ \A v \in Workers : ~ Owner(k, v)
      BY <1>1, <1>6, NoValuesAssumption DEF OwnInv, Owner, Upsert, TypeOK
    <3> QED  BY <1>1, <2>2, <3>1 DEF RowInv
  <2> QED  BY <1>1, <1>3, <1>4, <1>15, <2>2, <2>3, <2>5, <2>6, HolderStep
<1>7. CASE MarkFetching(w)
  <2>1. Startable(row[k])
    BY <1>1, <1>2, <1>7 DEF WorkerOK, MarkFetching
  <2>2. PICK n \in 1..(Retries + 1) : SetRow(k, "fetching", row[k].attempts + n, "null")
    BY <1>1, <1>7, <2>1 DEF MarkFetching, Startable, Settled
  <2>3. Goto(w, "hints") /\ fetches'[k] = fetches[k] + 1
    BY <1>1, <1>7, <2>1 DEF MarkFetching, Startable, Settled, TypeOK
  <2>4. /\ \A x \in Keys \ {k} : row'[x] = row[x]
        /\ row'[k].state = "fetching" /\ row'[k].attempts = row[k].attempts + n
        /\ row'[k].next = "null"
    BY <1>1, <1>2, <2>2, SetRowAt
  <2>5. fetches[k] < MaxFetches + restarts
    BY <1>2, <1>5, <2>1, SizesAssumption DEF Startable, RowOK
  <2>6. Countable(fetches[k] + 1, row[k].attempts + n)
    BY <1>2, <1>5, CountsOnce DEF RowOK
  <2>7. RowOK(k)'
    <3>1. fetches[k] + 1 <= row[k].attempts + n
      BY <1>2, <1>5, SizesAssumption DEF RowOK
    <3> QED  BY <1>2, <1>3, <1>5, <2>3, <2>4, <2>5, <2>6, <3>1 DEF RowOK
  <2>8. held'[w] = k /\ pc'[w] = "hints"
    BY <1>1, <1>7, <2>3 DEF MarkFetching, Goto, TypeOK
  <2>9. WorkerOK(w)' /\ Owner(k, w)'
    BY <2>4, <2>8 DEF WorkerOK, Owner
  <2> QED  BY <1>1, <1>3, <1>4, <1>15, <2>4, <2>7, <2>9, HolderStep
<1>8. CASE TryHint(w) \/ HintsDone(w) \/ Lookup(w) \/ TryPeer(w) \/ PeersDone(w) \/ Index(w)
  <2>1. /\ row' = row /\ held' = held /\ fetches' = fetches
        /\ pc[w] \in Fetching
        /\ pc'[w] \in Fetching \ {"report"}
    BY <1>8 DEF TryHint, HintsDone, Lookup, TryPeer, PeersDone, Index, Attempt,
       Goto, TypeOK
  <2>2. RowOK(k)'
    BY <1>2, <1>3, <2>1 DEF RowOK
  <2>3. WorkerOK(w)' /\ Owner(k, w)'
    BY <1>1, <1>2, <2>1 DEF WorkerOK, Owner
  <2> QED  BY <1>1, <1>3, <1>4, <1>15, <2>1, <2>2, <2>3, HolderStep
<1>9. CASE ReadAttempts(w)
  <2>1. /\ row' = row /\ held' = held /\ fetches' = fetches /\ pc[w] = "failed" /\ pc'[w] = "report"
        /\ attempt_no'[w] = row[k].attempts
    BY <1>1, <1>9 DEF ReadAttempts, Goto, TypeOK
  <2>2. RowOK(k)'
    BY <1>2, <1>3, <2>1 DEF RowOK
  <2>3. WorkerOK(w)' /\ Owner(k, w)'
    BY <1>1, <1>2, <2>1 DEF WorkerOK, Owner
  <2> QED  BY <1>1, <1>3, <1>4, <1>15, <2>1, <2>2, <2>3, HolderStep
<1>10. CASE Persist(w)
  <2>1. SetRow(k, "complete", row[k].attempts, "null")
    BY <1>1, <1>10 DEF Persist
  <2>2. /\ \A x \in Keys \ {k} : row'[x] = row[x]
        /\ row'[k].state = "complete" /\ row'[k].attempts = row[k].attempts
        /\ row'[k].next = "null"
    BY <1>1, <1>2, <2>1, SetRowAt
  <2>3. RowOK(k)'
    <3>1. fetches' = fetches
      BY <1>10 DEF Persist
    <3> QED  BY <1>2, <1>3, <2>2, <3>1 DEF RowOK
  <2>4. WorkerOK(w)'
    BY <1>10 DEF Persist, Goto, TypeOK, WorkerOK
  <2> QED  BY <1>1, <1>3, <1>4, <1>15, <2>2, <2>3, <2>4, HolderStep
<1>11. CASE MarkFailed(w)
  <2> DEFINE retryAt == IF attempt_no[w] >= MaxFetches THEN "null" ELSE "future"
  <2>1. row[k].state = "fetching" /\ attempt_no[w] = row[k].attempts
    BY <1>1, <1>2, <1>11 DEF MarkFailed, WorkerOK
  <2>2. SetRow(k, "fetch_failed", row[k].attempts, retryAt)
    BY <1>1, <1>11, <2>1 DEF MarkFailed
  <2>3. /\ \A x \in Keys \ {k} : row'[x] = row[x]
        /\ row'[k].state = "fetch_failed" /\ row'[k].attempts = row[k].attempts
        /\ row'[k].next = retryAt
    BY <1>1, <1>2, <2>2, SetRowAt
  <2>4. RowOK(k)'
    <3>0. fetches' = fetches
      BY <1>11 DEF MarkFailed
    <3>1. CASE row[k].attempts >= MaxFetches
      BY <1>2, <1>3, <1>5, <2>1, <2>3, <3>0, <3>1 DEF RowOK
    <3>2. CASE row[k].attempts < MaxFetches
      BY <1>2, <1>3, <1>5, <2>1, <2>3, <3>0, <3>2 DEF RowOK
    <3> QED  BY <1>5, <3>1, <3>2
  <2>5. WorkerOK(w)'
    BY <1>11 DEF MarkFailed, Goto, TypeOK, WorkerOK
  <2> QED  BY <1>1, <1>3, <1>4, <1>15, <2>3, <2>4, <2>5, HolderStep
<1>12. CASE Finish(w)
  <2>1. row' = row /\ fetches' = fetches /\ pc[w] = "finish" /\ pc'[w] = "idle"
    BY <1>12 DEF Finish, Idle, Goto, TypeOK
  <2>2. RowOK(k)' /\ WorkerOK(w)'
    BY <1>2, <1>3, <2>1 DEF RowOK, WorkerOK
  <2>3. row'[k].state = "fetching" => k \in leaked'
    <3>1. k \notin leaked /\ \A v \in Workers : ~ Owner(k, v)
      BY <1>1, <2>1, NoValuesAssumption DEF OwnInv, Owner, TypeOK
    <3> QED  BY <1>1, <2>1, <3>1 DEF RowInv
  <2> QED  BY <1>1, <1>3, <1>4, <1>15, <2>1, <2>2, <2>3, HolderStep
<1> QED
  BY <1>6, <1>7, <1>8, <1>9, <1>10, <1>11, <1>12 DEF WorkerStep

LEMMA TakeRow ==
  ASSUME TypeOK, OwnInv, RowInv, NEW w \in Workers, Take(w)
  PROVE  RowInv'
<1>1. /\ UNCHANGED <<row, leaked, restarts, attempt_no, fetches>>
      /\ pc[w] = "idle" /\ pc'[w] = "upsert"
      /\ held'[w] = Head(queue)
      /\ was_due'[w] = (row[Head(queue)].next = "due")
      /\ \A v \in Workers \ {w} : /\ pc'[v] = pc[v] /\ held'[v] = held[v]
                                  /\ was_due'[v] = was_due[v]
  BY DEF Take, Goto, TypeOK, faults
<1>2. \A k \in Keys : RowOK(k)'
  BY <1>1 DEF RowInv, RowOK
<1>3. \A v \in Workers : WorkerOK(v)'
  <2>1. WorkerOK(w)'
    BY <1>1 DEF WorkerOK, Fetching
  <2>2. ASSUME NEW v \in Workers \ {w} PROVE WorkerOK(v)'
    <3>1. WorkerOK(v)
      BY DEF RowInv
    <3>2. /\ pc'[v] = pc[v] /\ held'[v] = held[v] /\ was_due'[v] = was_due[v]
          /\ row' = row /\ attempt_no' = attempt_no
      BY <1>1
    <3> QED  BY <3>1, <3>2 DEF WorkerOK
  <2> QED  BY <2>1, <2>2
<1>4. \A k \in Keys, v \in Workers : Owner(k, v) => Owner(k, v)'
  BY <1>1 DEF Owner, Fetching
<1> QED  BY <1>1, <1>2, <1>3, <1>4 DEF RowInv

LEMMA RestRow ==
  ASSUME TypeOK, OwnInv, RowInv,
         (\E w \in Workers : Escape(w)) \/ (\E k \in Keys : BecomeDue(k)) \/ Restart
  PROVE  RowInv'
<1>1. ASSUME NEW w \in Workers, Escape(w) PROVE RowInv'
  <2>1. PICK k \in Keys : held[w] = k
    BY <1>1 DEF Escape, TypeOK
  <2>2. /\ row' = row /\ fetches' = fetches
        /\ restarts' = restarts /\ leaked' = leaked \cup {k}
        /\ pc'[w] = "idle"
        /\ \A v \in Workers \ {w} : /\ pc'[v] = pc[v] /\ held'[v] = held[v]
                                    /\ was_due'[v] = was_due[v]
                                    /\ attempt_no'[v] = attempt_no[v]
    BY <1>1, <2>1 DEF Escape, Idle, Goto, TypeOK
  <2>3. RowOK(k)' /\ WorkerOK(w)'
    BY <2>2 DEF RowInv, RowOK, WorkerOK, Fetching
  <2> QED  BY <2>1, <2>2, <2>3, HolderStep
<1>2. ASSUME NEW k \in Keys, BecomeDue(k) PROVE RowInv'
  <2>1. SetRow(k, row[k].state, row[k].attempts, "due") /\ row[k].next = "future"
    BY <1>2 DEF BecomeDue
  <2>2. /\ \A x \in Keys \ {k} : row'[x] = row[x]
        /\ row'[k].state = row[k].state /\ row'[k].attempts = row[k].attempts
        /\ row'[k].next = "due"
    BY <2>1, SetRowAt DEF TypeOK
  <2>3. UNCHANGED <<pc, held, was_due, attempt_no, leaked, restarts, fetches>>
    BY <1>2 DEF BecomeDue, locals, faults
  <2>4. \A x \in Keys : RowOK(x)'
    BY <2>1, <2>2, <2>3 DEF RowInv, RowOK
  <2>5. \A x \in Keys : /\ row'[x].state = row[x].state
                        /\ row'[x].attempts = row[x].attempts
                        /\ row[x].next = "due" => row'[x].next = "due"
    BY <2>2
  <2>6. ASSUME NEW v \in Workers PROVE WorkerOK(v)'
    <3>1. CASE pc[v] = "idle"
      BY <2>3, <3>1 DEF WorkerOK, Fetching
    <3>2. CASE pc[v] # "idle"
      <4>1. held[v] \in Keys /\ WorkerOK(v)
        BY <3>2 DEF TypeOK, RowInv
      <4> QED  BY <2>3, <2>5, <4>1 DEF WorkerOK, Startable
    <3> QED  BY <3>1, <3>2
  <2>7. \A x \in Keys, v \in Workers : Owner(x, v) => Owner(x, v)'
    BY <2>3 DEF Owner
  <2> QED  BY <2>3, <2>4, <2>5, <2>6, <2>7 DEF RowInv
<1>3. CASE Restart
  <2>1. /\ restarts \in Nat /\ restarts' = restarts + 1 /\ MaxFetches \in Nat
        /\ fetches \in [Keys -> Nat] /\ fetches' = fetches
        /\ \A k \in Keys : row'[k] = Recovered(row[k])
        /\ \A w \in Workers : pc'[w] = "idle"
    BY <1>3, SizesAssumption DEF Restart, TypeOK
  <2>2. ASSUME NEW k \in Keys PROVE RowOK(k)' /\ row'[k].state # "fetching"
    <3>1. RowOK(k) /\ row[k] \in Row /\ row[k].attempts \in Nat
      BY DEF RowInv, TypeOK, Row
    <3>2. row'[k] = Recovered(row[k])
      BY <2>1
    <3>3. CASE row[k].state = "fetching"
      <4>1. row[k].next = "null" /\ fetches[k] <= MaxFetches + restarts
        BY <3>1, <3>3 DEF RowOK
      <4>2. row'[k] = [state |-> "fetch_failed", attempts |-> row[k].attempts,
                       next |-> "due"]
        BY <3>2, <3>3, <4>1 DEF Recovered
      <4> QED  BY <2>1, <3>1, <4>1, <4>2 DEF RowOK
    <3>4. CASE row[k].state # "fetching"
      <4>1. row'[k] = row[k]
        BY <3>2, <3>4 DEF Recovered
      <4> QED  BY <2>1, <3>1, <3>4, <4>1 DEF RowOK
    <3> QED  BY <3>3, <3>4
  <2>3. \A w \in Workers : WorkerOK(w)'
    BY <2>1 DEF WorkerOK, Fetching
  <2> QED  BY <2>2, <2>3 DEF RowInv
<1> QED  BY <1>1, <1>2, <1>3

LEMMA RowStep == TypeOK /\ OwnInv /\ RowInv /\ [Next]_vars => RowInv'
<1> SUFFICES ASSUME TypeOK, OwnInv, RowInv, [Next]_vars PROVE RowInv'
  OBVIOUS
<1>1. CASE Discover \/ ScanRead \/ ScanSubmit \/ UNCHANGED vars
  <2>1. UNCHANGED <<row, pc, held, was_due, attempt_no, leaked, restarts, fetches>>
    BY <1>1 DEF Discover, Submit, SubmitReserved, SubmitFresh, SubmitRefused,
       ScanRead, ScanSubmit, vars, locals, faults
  <2> QED  BY <2>1, RowFrame
<1>2. ASSUME NEW w \in Workers, WorkerStep(w) PROVE RowInv'
  BY <1>2, TakeRow, WorkerStepRow
<1> QED  BY <1>1, <1>2, RestRow DEF Next

IInv == TypeOK /\ OwnInv /\ RowInv

LEMMA InductiveInvariant == Spec => []IInv
<1>1. Init => IInv
  BY TypeInit, OwnInit, RowInit DEF IInv
<1>2. IInv /\ [Next]_vars => IInv'
  BY TypeStep, OwnStep, RowStep DEF IInv
<1> QED  BY <1>1, <1>2, PTL DEF Spec

(***************************************************************************)
(* A row is `fetching' exactly while one worker is between mark_fetching   *)
(* and its last database call for the key, or was left by an exception.    *)
(***************************************************************************)
THEOREM FetchingIsOwnedCorrect == Spec => []FetchingIsOwned
<1>1. IInv => FetchingIsOwned
  BY DEF IInv, RowInv, WorkerOK, Owner, FetchingIsOwned
<1> QED  BY <1>1, InductiveInvariant, PTL

(***************************************************************************)
(* The fetches of a key are bounded by FETCH_RETRY_MAX_ATTEMPTS and the    *)
(* restarts; each counts at least once and at most as often as the         *)
(* database executes mark_fetching, and a row is given up only when its    *)
(* attempts are used up.                                                   *)
(***************************************************************************)
THEOREM AttemptsBoundedCorrect == Spec => []AttemptsBounded
<1>1. IInv => AttemptsBounded
  <2> SUFFICES ASSUME IInv, NEW k \in Keys
               PROVE  /\ fetches[k] <= MaxFetches + restarts
                      /\ row[k].attempts \in fetches[k]..(fetches[k] * (Retries + 1))
                      /\ row[k].state = "fetch_failed" /\ row[k].next = "null"
                            => row[k].attempts >= MaxFetches
    BY DEF AttemptsBounded
  <2>1. RowOK(k) /\ row[k].attempts \in Nat /\ fetches[k] \in Nat /\ Retries \in Nat
    BY SizesAssumption DEF IInv, RowInv, TypeOK, Row
  <2>2. fetches[k] * (Retries + 1) \in Nat
    BY <2>1
  <2> QED  BY <2>1, <2>2 DEF RowOK, Countable
<1> QED  BY <1>1, InductiveInvariant, PTL

-----------------------------------------------------------------------------
(***************************************************************************)
(* The rows implement CandidateLifecycle: each step of the pipeline is a   *)
(* step of the life cycle of one key, or of Recover, or leaves the rows    *)
(* alone.  The guards of the life cycle follow from the invariant.         *)
(***************************************************************************)
LEMMA SetRowSame ==
  ASSUME row \in [Keys -> Row], NEW k \in Keys,
         SetRow(k, row[k].state, row[k].attempts, row[k].next)
  PROVE  row' = row
<1>1. row[k] \in Row
  OBVIOUS
<1>2. row[k] = [state |-> row[k].state, attempts |-> row[k].attempts,
                next |-> row[k].next]
  BY <1>1 DEF Row
<1> QED  BY <1>2 DEF SetRow

LEMMA WorkerStepLifecycle ==
  ASSUME IInv, NEW w \in Workers, WorkerStep(w)
  PROVE  [Lifecycle!Next]_row
<1>0. TypeOK /\ WorkerOK(w) /\ row \in [Keys -> Row]
      /\ (\A x \in Keys : RowOK(x) /\ row[x] \in Row)
  BY DEF IInv, RowInv, TypeOK
<1>1. CASE Upsert(w)
  <2>1. PICK k \in Keys : held[w] = k
    BY <1>0, <1>1 DEF Upsert, TypeOK
  <2>2. CASE row[k].state = "none"
    <3>1. row[k].attempts = 0 /\ row[k].next = "null"
      BY <1>0, <2>2 DEF RowOK
    <3>2. SetRow(k, "new", 0, "null")
      BY <1>1, <2>1, <2>2, <3>1 DEF Upsert
    <3>3. Lifecycle!See(k)
      BY <2>2, <3>2 DEF SetRow, Lifecycle!Put, Lifecycle!See
    <3> QED  BY <3>3 DEF Lifecycle!Next
  <2>3. CASE row[k].state # "none"
    <3>1. SetRow(k, row[k].state, row[k].attempts, row[k].next)
      BY <1>1, <2>1, <2>3 DEF Upsert
    <3> QED  BY <1>0, <3>1, SetRowSame
  <2> QED  BY <2>2, <2>3
<1>2. CASE MarkFetching(w)
  <2>1. PICK k \in Keys : held[w] = k
    BY <1>0, <1>2 DEF MarkFetching, TypeOK
  <2>2. Startable(row[k])
    BY <1>0, <1>2, <2>1 DEF MarkFetching, WorkerOK
  <2>3. \E n \in 1..(Retries + 1) : SetRow(k, "fetching", row[k].attempts + n, "null")
    BY <1>2, <2>1, <2>2 DEF MarkFetching, Startable, Settled
  <2>4. Lifecycle!Start(k)
    BY <2>2, <2>3 DEF Lifecycle!Start, Lifecycle!Put, SetRow, Startable
  <2> QED  BY <2>4 DEF Lifecycle!Next
<1>3. CASE Persist(w)
  <2>1. PICK k \in Keys : held[w] = k
    BY <1>0, <1>3 DEF Persist, TypeOK
  <2>2. row[k].state = "fetching"
    BY <1>0, <1>3, <2>1 DEF Persist, WorkerOK, Fetching
  <2>3. SetRow(k, "complete", row[k].attempts, "null")
    BY <1>3, <2>1 DEF Persist
  <2>5. Lifecycle!Complete(k)
    BY <2>2, <2>3 DEF Lifecycle!Complete, Lifecycle!Put, SetRow
  <2> QED  BY <2>5 DEF Lifecycle!Next
<1>4. CASE MarkFailed(w)
  <2>1. PICK k \in Keys : held[w] = k
    BY <1>0, <1>4 DEF MarkFailed, TypeOK
  <2>2. row[k].state = "fetching" /\ attempt_no[w] = row[k].attempts
    BY <1>0, <1>4, <2>1 DEF MarkFailed, WorkerOK, Fetching
  <2>3. row[k].attempts \in Nat /\ MaxFetches \in Nat
    BY <1>0, SizesAssumption DEF Row
  <2>4. CASE row[k].attempts >= MaxFetches
    <3>1. SetRow(k, "fetch_failed", row[k].attempts, "null")
      BY <1>4, <2>1, <2>2, <2>4 DEF MarkFailed
    <3>2. Lifecycle!Exhaust(k)
      BY <2>2, <2>4, <3>1 DEF Lifecycle!Exhaust, Lifecycle!Put, SetRow
    <3> QED  BY <3>2 DEF Lifecycle!Next
  <2>5. CASE row[k].attempts < MaxFetches
    <3>1. SetRow(k, "fetch_failed", row[k].attempts, "future")
      BY <1>4, <2>1, <2>2, <2>3, <2>5 DEF MarkFailed
    <3>2. Lifecycle!Fail(k)
      BY <2>2, <2>5, <3>1 DEF Lifecycle!Fail, Lifecycle!Put, SetRow
    <3> QED  BY <3>2 DEF Lifecycle!Next
  <2> QED  BY <2>3, <2>4, <2>5
<1>5. CASE Take(w) \/ TryHint(w) \/ HintsDone(w) \/ Lookup(w) \/ TryPeer(w)
           \/ PeersDone(w) \/ Index(w) \/ ReadAttempts(w) \/ Finish(w)
  BY <1>5 DEF Take, TryHint, HintsDone, Lookup, TryPeer, PeersDone, Index,
     ReadAttempts, Finish, Attempt
<1> QED  BY <1>1, <1>2, <1>3, <1>4, <1>5 DEF WorkerStep

LEMMA StepLifecycle == IInv /\ [Next]_vars => [Lifecycle!Next]_row
<1> SUFFICES ASSUME IInv, [Next]_vars PROVE [Lifecycle!Next]_row
  OBVIOUS
<1>0. row \in [Keys -> Row] /\ \A k \in Keys : RowOK(k) /\ row[k] \in Row
  BY DEF IInv, RowInv, TypeOK
<1>1. CASE Discover \/ ScanRead \/ ScanSubmit \/ UNCHANGED vars
           \/ \E w \in Workers : Escape(w)
  BY <1>1 DEF Discover, Submit, SubmitReserved, SubmitFresh, SubmitRefused,
     ScanRead, ScanSubmit, Escape, vars
<1>2. ASSUME NEW w \in Workers, WorkerStep(w) PROVE [Lifecycle!Next]_row
  BY <1>2, WorkerStepLifecycle
<1>3. ASSUME NEW k \in Keys, BecomeDue(k) PROVE [Lifecycle!Next]_row
  <2>1. row[k].next = "future" /\ SetRow(k, row[k].state, row[k].attempts, "due")
    BY <1>3 DEF BecomeDue
  <2>2. row[k].state = "fetch_failed"
    BY <1>0, <2>1 DEF RowOK, Row, RowStates
  <2>3. Lifecycle!BecomeDue(k)
    BY <2>1, <2>2 DEF Lifecycle!BecomeDue, Lifecycle!Put, SetRow
  <2> QED  BY <2>3 DEF Lifecycle!Next
<1>4. CASE Restart
  <2> DEFINE R(k) == IF row[k].state = "fetching"
                     THEN [state |-> "fetch_failed",
                           attempts |-> row[k].attempts, next |-> "due"]
                     ELSE row[k]
  <2>1. ASSUME NEW k \in Keys PROVE Recovered(row[k]) = R(k)
    <3>1. row[k] \in Row /\ (row[k].state = "fetching" => row[k].next = "null")
      BY <1>0 DEF RowOK
    <3> QED  BY <3>1 DEF Recovered, Row
  <2>2. row' = [k \in Keys |-> R(k)]
    BY <1>4, <2>1 DEF Restart
  <2> QED  BY <2>2 DEF Lifecycle!Next, Lifecycle!Recover
<1> QED  BY <1>1, <1>2, <1>3, <1>4 DEF Next

(***************************************************************************)
(* The pipeline implements the life cycle of the durable record.           *)
(***************************************************************************)
THEOREM DurableLifecycleCorrect == Spec => DurableLifecycle
<1>1. Init => Lifecycle!Init
  BY DEF Init, Lifecycle!Init, NoRow, Lifecycle!Fresh
<1> QED
  BY <1>1, StepLifecycle, InductiveInvariant, PTL
  DEF Spec, DurableLifecycle, Lifecycle!Spec

LEMMA LifecycleSettled ==
  ASSUME TypeOK, NEW k \in Keys, [Lifecycle!Next]_row,
         \/ row[k].state = "complete"
         \/ row[k].state = "fetch_failed" /\ row[k].next = "null"
  PROVE  row'[k] = row[k]
<1>1. ASSUME NEW x \in Keys,
             Lifecycle!See(x) \/ Lifecycle!Start(x) \/ Lifecycle!Complete(x)
               \/ Lifecycle!Fail(x) \/ Lifecycle!Exhaust(x) \/ Lifecycle!BecomeDue(x)
      PROVE  row'[k] = row[k]
  <2>1. x # k
    BY <1>1 DEF Lifecycle!See, Lifecycle!Start, Lifecycle!Complete,
       Lifecycle!Fail, Lifecycle!Exhaust, Lifecycle!BecomeDue, Lifecycle!Put
  <2> QED
    BY <1>1, <2>1 DEF Lifecycle!See, Lifecycle!Start, Lifecycle!Complete,
       Lifecycle!Fail, Lifecycle!Exhaust, Lifecycle!BecomeDue, Lifecycle!Put,
       TypeOK
<1>2. CASE Lifecycle!Recover
  BY <1>2 DEF Lifecycle!Recover
<1> QED  BY <1>1, <1>2 DEF Lifecycle!Next

(***************************************************************************)
(* A complete or exhausted row is never written again, whatever is         *)
(* discovered, retried or restarted.                                       *)
(***************************************************************************)
THEOREM SettledIsFinalCorrect == Spec => SettledIsFinal
<1>1. IInv /\ [Next]_vars =>
        [\A k \in Keys :
           row[k].state = "complete"
             \/ (row[k].state = "fetch_failed" /\ row[k].next = "null")
           => row'[k] = row[k]]_vars
  BY StepLifecycle, LifecycleSettled DEF IInv
<1> QED  BY <1>1, InductiveInvariant, PTL DEF Spec, SettledIsFinal
=============================================================================
