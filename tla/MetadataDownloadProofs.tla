------------------------ MODULE MetadataDownloadProofs ------------------------
(***************************************************************************)
(* Proofs about MetadataDownload for any number of pieces, any pipeline    *)
(* and any peer.                                                           *)
(***************************************************************************)
EXTENDS MetadataDownload, FiniteSetTheorems, TLAPS

-----------------------------------------------------------------------------
(* The inductive invariant *)

\* Nothing is asked for before the exchange begins.
NotBegun ==
    stage \in {"connect", "bt_handshake", "extension_handshake"} =>
        pieces = <<>> /\ outstanding = {} /\ next_piece = 0

\* The exchange goes on while a piece is missing.
Incomplete == stage = "metadata" => DOMAIN pieces # Pieces

\* The limit of the session holds, not only its two parts.
WithinLimit == Cardinality(outstanding) <= Limit(reqq)

\* A cancelled session is on its way out, and remembers why.
CancelKept ==
    cancelled => stage \in {"closing", "ended"} /\ result = "CancelledError"

IInv ==
    /\ TypeOK /\ NotBegun /\ Partition /\ WithinLimit /\ Incomplete
    /\ KeepsAsking /\ VerifiedOnly /\ CancelKept

-----------------------------------------------------------------------------
(* Lemmas *)

(***************************************************************************)
(* The limit of the pipeline is positive and keeps to both its parts.      *)
(***************************************************************************)
LEMMA LimitRange ==
  ASSUME NEW r \in Nat
  PROVE  /\ Limit(r) \in Nat /\ Limit(r) >= 1 /\ Limit(r) <= MaxPipeline
         /\ r > 0 => Limit(r) <= r
BY DownloadAssumption DEF Limit

(***************************************************************************)
(* reqq is a natural number.                                               *)
(***************************************************************************)
LEMMA ReqqNat == TypeOK => reqq \in Nat
BY DownloadAssumption DEF TypeOK

(***************************************************************************)
(* The outstanding pieces are finitely many.                               *)
(***************************************************************************)
LEMMA PiecesFinite ==
  ASSUME NEW S \in SUBSET Pieces
  PROVE  IsFiniteSet(S) /\ Cardinality(S) \in Nat
<1>1. IsFiniteSet(Pieces)
  BY DownloadAssumption, FS_Interval DEF Pieces
<1> QED  BY <1>1, FS_Subset, FS_CardinalityType

(***************************************************************************)
(* There are pieces.                                                       *)
(***************************************************************************)
LEMMA PiecesNonempty == Pieces # {}
<1>1. 0 \in Pieces
  BY DownloadAssumption DEF Pieces
<1> QED  BY <1>1

(***************************************************************************)
(* How many pieces there are from a to b - 1.                              *)
(***************************************************************************)
LEMMA IntervalSize ==
  ASSUME NEW a \in Nat, NEW b \in Nat, a <= b
  PROVE  IsFiniteSet(a..(b - 1)) /\ Cardinality(a..(b - 1)) = b - a
<1>1. a \in Int /\ b - 1 \in Int
  OBVIOUS
<1>2. /\ IsFiniteSet(a..(b - 1))
      /\ Cardinality(a..(b - 1)) = IF a > b - 1 THEN 0 ELSE (b - 1) - a + 1
  BY <1>1, FS_Interval
<1> QED  BY <1>2

(***************************************************************************)
(* fill_pipeline: it asks for the next pieces, as many as fit.             *)
(***************************************************************************)
LEMMA Filled ==
  ASSUME NEW waiting \in SUBSET Pieces, NEW q \in Nat,
         next_piece \in 0..N,
         \A p \in waiting : p < next_piece,
         Cardinality(waiting) <= q,
         Fill(waiting, q)
  PROVE  /\ next_piece' \in next_piece..N
         /\ outstanding' = waiting \cup (next_piece..(next_piece' - 1))
         /\ outstanding' \subseteq Pieces
         /\ Cardinality(outstanding') <= q
         /\ next_piece' = N \/ Cardinality(outstanding') = q
<1> DEFINE held == Cardinality(waiting)
<1> DEFINE new == next_piece..(next_piece' - 1)
<1>1. held \in Nat /\ IsFiniteSet(waiting) /\ held <= q
  BY PiecesFinite
<1>2. /\ next_piece' = IF next_piece + (q - held) < N THEN next_piece + (q - held) ELSE N
      /\ outstanding' = waiting \cup new
  BY DEF Fill
<1>3. next_piece' \in Nat /\ next_piece \in Nat /\ N \in Nat
  BY <1>1, <1>2, DownloadAssumption
<1> HIDE DEF held
<1>4. /\ next_piece' >= next_piece /\ next_piece' <= N
      /\ next_piece' - next_piece <= q - held
      /\ next_piece' = N \/ next_piece' - next_piece = q - held
  BY <1>1, <1>2, <1>3, DownloadAssumption
<1>5. IsFiniteSet(new) /\ Cardinality(new) = next_piece' - next_piece
  BY <1>3, <1>4, IntervalSize
<1>6. waiting \cap new = {}
  BY <1>3
<1>7. Cardinality(outstanding') = held + (next_piece' - next_piece)
  <2>1. Cardinality(waiting \cup new) = Cardinality(waiting) + Cardinality(new) - Cardinality({})
    <3> HIDE DEF new
    <3> QED  BY <1>1, <1>5, <1>6, FS_Union
  <2> QED  BY <2>1, <1>1, <1>2, <1>3, <1>5, FS_EmptySet DEF held
<1>8. outstanding' \subseteq Pieces
  <2>1. new \subseteq Pieces
    <3>1. \A a, b \in Nat : b <= N => a..(b - 1) \subseteq 0..(N - 1)
      BY DownloadAssumption
    <3> QED  BY <3>1, <1>3, <1>4 DEF Pieces
  <2> HIDE DEF new
  <2> QED  BY <2>1, <1>2
<1> QED  BY <1>1, <1>2, <1>3, <1>4, <1>7, <1>8

-----------------------------------------------------------------------------
(* The invariant *)

(***************************************************************************)
(* The session begins without a request.                                   *)
(***************************************************************************)
LEMMA Initially == Init => IInv
<1> SUFFICES ASSUME Init PROVE IInv
  OBVIOUS
<1>1. DOMAIN pieces = {} /\ 0..(next_piece - 1) = {} /\ next_piece \in 0..N
  BY DownloadAssumption DEF Init
<1>2. Cardinality(outstanding) <= Limit(reqq)
  BY FS_EmptySet, LimitRange DEF Init
<1>3. TypeOK
  BY <1>1 DEF Init, TypeOK, Open, Talking
<1>4. NotBegun /\ Incomplete /\ KeepsAsking /\ VerifiedOnly /\ CancelKept
  BY DEF Init, NotBegun, Incomplete, KeepsAsking, VerifiedOnly, CancelKept
<1>5. Partition
  BY <1>1 DEF Init, Partition
<1> QED  BY <1>2, <1>3, <1>4, <1>5 DEF IInv, WithinLimit

(***************************************************************************)
(* A step that leaves the session's exchange: the requests and the pieces  *)
(* stay, and the result is no metadata.                                    *)
(***************************************************************************)
LEMMA Left ==
  ASSUME IInv, UNCHANGED <<reqq, transfer>>, unsent' \in BOOLEAN, expired' \in BOOLEAN, env' = env,
         stage' \in {"closing", "ended"},
         result' \in {"PeerError", "CancelledError", "TypeError"},
         cancelled' \in BOOLEAN, cancelled' => result' = "CancelledError"
  PROVE  IInv'
<1>1. TypeOK'
  BY DEF IInv, TypeOK, transfer, Open, Talking
<1>2. Partition' /\ WithinLimit'
  BY DEF IInv, Partition, WithinLimit, transfer, Limit
<1>3. NotBegun' /\ Incomplete' /\ KeepsAsking' /\ VerifiedOnly' /\ CancelKept'
  BY DEF NotBegun, Incomplete, KeepsAsking, VerifiedOnly, CancelKept
<1> QED  BY <1>1, <1>2, <1>3 DEF IInv

(***************************************************************************)
(* An error of the peer ends an open session.                              *)
(***************************************************************************)
LEMMA Failed ==
  ASSUME IInv, stage \in Open, Fail
  PROVE  IInv'
<1>1. ~cancelled
  BY DEF IInv, CancelKept, Open, Talking
<1>2. unsent \in BOOLEAN /\ expired \in BOOLEAN /\ cancelled \in BOOLEAN
  BY DEF IInv, TypeOK
<1>3. /\ UNCHANGED <<reqq, transfer>> /\ unsent' = unsent /\ env' = env /\ expired' = expired /\ cancelled' = cancelled
      /\ stage' \in {"closing", "ended"} /\ result' = "PeerError"
  BY DEF Fail, Leave, timers
<1> QED  BY <1>1, <1>2, <1>3, Left

(***************************************************************************)
(* The first requests.                                                     *)
(***************************************************************************)
LEMMA Begun ==
  ASSUME IInv, ExtensionHandshake
  PROVE  IInv'
<1>1. /\ stage = "extension_handshake" /\ stage' = "metadata" /\ reqq' \in Reqqs
      /\ Fill({}, Limit(reqq'))
      /\ UNCHANGED <<result, pieces, timers, unsent, env>>
      /\ pieces = <<>> /\ next_piece = 0
  BY DEF ExtensionHandshake, IInv, NotBegun
<1>2. reqq' \in Nat /\ Limit(reqq') \in Nat /\ Limit(reqq') >= 1
  BY <1>1, DownloadAssumption, LimitRange
<1>3. /\ next_piece' \in next_piece..N
      /\ outstanding' = {} \cup (next_piece..(next_piece' - 1))
      /\ outstanding' \subseteq Pieces
      /\ Cardinality(outstanding') <= Limit(reqq')
      /\ next_piece' = N \/ Cardinality(outstanding') = Limit(reqq')
  <2>1. Cardinality({}) <= Limit(reqq')
    BY <1>2, FS_EmptySet
  <2>2. next_piece \in 0..N
    BY DEF IInv, TypeOK
  <2>3. {} \in SUBSET Pieces /\ \A p \in {} : p < next_piece
    OBVIOUS
  <2> QED  BY <1>1, <1>2, <2>1, <2>2, <2>3, Filled
<1>4. DOMAIN pieces' = {} /\ Pieces # {}
  BY <1>1, PiecesNonempty
<1>5. outstanding' = 0..(next_piece' - 1) /\ next_piece' \in 0..N
  BY <1>1, <1>3
<1>6. TypeOK'
  BY <1>1, <1>3, <1>4, <1>5 DEF IInv, TypeOK, timers, Open, Talking
<1>7. Partition'
  BY <1>4, <1>5 DEF Partition
<1>8. WithinLimit'
  BY <1>3 DEF WithinLimit, Limit
<1>9. KeepsAsking'
  <2>1. outstanding' # {}
    <3>1. CASE next_piece' = N
      BY <3>1, <1>5, DownloadAssumption
    <3>2. CASE Cardinality(outstanding') = Limit(reqq')
      BY <3>2, <1>2, FS_EmptySet
    <3> QED  BY <1>3, <3>1, <3>2
  <2> QED  BY <2>1, <1>3 DEF KeepsAsking, Limit
<1>10. NotBegun' /\ Incomplete' /\ VerifiedOnly' /\ CancelKept'
  BY <1>1, <1>4 DEF NotBegun, Incomplete, VerifiedOnly, CancelKept, IInv, TypeOK, timers, Open, Talking
<1> QED  BY <1>6, <1>7, <1>8, <1>9, <1>10 DEF IInv

(***************************************************************************)
(* A piece that was asked for.                                             *)
(***************************************************************************)
LEMMA Stored ==
  ASSUME IInv, stage = "metadata", NEW p \in outstanding, NEW c \in Contents, Store(p, c)
  PROVE  IInv'
<1> DEFINE rest == outstanding \ {p}
<1>1. /\ TypeOK /\ Partition /\ reqq \in Nat /\ p \in Pieces /\ p \notin DOMAIN pieces
      /\ outstanding \subseteq Pieces /\ next_piece \in 0..N
  BY ReqqNat DEF IInv, TypeOK, Partition
<1>2. /\ pieces' = [q \in DOMAIN pieces \cup {p} |-> IF q = p THEN c ELSE pieces[q]]
      /\ Fill(rest, Limit(reqq))
      /\ UNCHANGED <<reqq, timers, unsent, env>>
  BY DEF Store
<1>3. Limit(reqq) \in Nat /\ Limit(reqq) >= 1 /\ reqq' = reqq /\ Limit(reqq)' = Limit(reqq)
  BY <1>1, <1>2, LimitRange DEF Limit
<1>4. rest \subseteq Pieces /\ Cardinality(rest) <= Limit(reqq) /\ \A q \in rest : q < next_piece
  <2>1. Cardinality(rest) <= Cardinality(outstanding)
    BY <1>1, PiecesFinite, FS_Subset
  <2>2. Cardinality(rest) \in Nat /\ Cardinality(outstanding) \in Nat
    BY <1>1, PiecesFinite
  <2>3. \A q \in outstanding : q \in 0..(next_piece - 1)
    BY <1>1 DEF Partition
  <2> QED  BY <1>1, <1>3, <2>1, <2>2, <2>3 DEF IInv, WithinLimit
<1>5. /\ next_piece' \in next_piece..N
      /\ outstanding' = rest \cup (next_piece..(next_piece' - 1))
      /\ outstanding' \subseteq Pieces
      /\ Cardinality(outstanding') <= Limit(reqq)
      /\ next_piece' = N \/ Cardinality(outstanding') = Limit(reqq)
  <2> HIDE DEF rest
  <2> QED  BY <1>1, <1>2, <1>3, <1>4, Filled
<1>6. next_piece' \in 0..N /\ next_piece' \in Nat /\ next_piece \in Nat /\ N \in Nat
      /\ next_piece <= next_piece'
  BY <1>1, <1>5, DownloadAssumption
<1>7. DOMAIN pieces' = DOMAIN pieces \cup {p}
  BY <1>2
<1>8. \A q \in DOMAIN pieces' : pieces'[q] = IF q = p THEN c ELSE pieces[q]
  BY <1>2
<1>9. Partition'
  <2>1. outstanding \cup DOMAIN pieces = 0..(next_piece - 1) /\ outstanding \cap DOMAIN pieces = {}
    BY <1>1 DEF Partition
  <2>2. 0..(next_piece' - 1) = (0..(next_piece - 1)) \cup (next_piece..(next_piece' - 1))
    BY <1>6
  <2>3. outstanding' \cup DOMAIN pieces' = 0..(next_piece' - 1)
    BY <1>5, <1>7, <2>1, <2>2
  <2>4. \A q \in DOMAIN pieces \cup {p} : q \notin next_piece..(next_piece' - 1)
    <3>1. \A q \in DOMAIN pieces \cup {p} : q \in 0..(next_piece - 1)
      BY <2>1
    <3> QED  BY <3>1, <1>6
  <2>5. outstanding' \cap DOMAIN pieces' = {}
    BY <1>5, <1>7, <2>1, <2>4
  <2> QED  BY <2>3, <2>5 DEF Partition
<1>10. /\ stage' \in {"metadata", "closing"}
       /\ stage' = "metadata" => result' = result /\ DOMAIN pieces' # Pieces
       /\ stage' = "closing" => result' = Verdict(p, c) /\ DOMAIN pieces' = Pieces
  <2>1. CASE Complete(p)
    BY <2>1, <1>7 DEF Store, Complete
  <2>2. CASE ~Complete(p)
    BY <2>2, <1>7 DEF Store, Complete
  <2> QED  BY <2>1, <2>2
<1>11. result = "none" /\ ~cancelled
  BY DEF IInv, TypeOK, CancelKept, Open, Talking
<1>12. TypeOK'
  <2>1. DOMAIN pieces' \subseteq Pieces /\ \A q \in DOMAIN pieces' : pieces'[q] \in Contents
    BY <1>1, <1>7, <1>8 DEF TypeOK
  <2>2. stage' \in Open \cup {"closing", "ended"}
    BY <1>10 DEF Open, Talking
  <2>3. result' \in {"none", "metadata", "PeerError", "CancelledError", "TypeError"}
        /\ (stage' \in Open) = (result' = "none")
    BY <1>10, <1>11 DEF Verdict, Open, Talking
  <2>4. cancelled' \in BOOLEAN /\ expired' \in BOOLEAN /\ unsent' \in BOOLEAN
    BY <1>1, <1>2 DEF TypeOK, timers
  <2>5. reqq' \in Reqqs \cup {0} /\ env' \in Environments
    BY <1>1, <1>2 DEF TypeOK
  <2> QED  BY <2>1, <2>2, <2>3, <2>4, <2>5, <1>5, <1>6 DEF TypeOK
<1>13. WithinLimit'
  BY <1>3, <1>5 DEF WithinLimit
<1>14. KeepsAsking'
  <2> SUFFICES ASSUME stage' = "metadata" PROVE outstanding' # {}
    BY <1>3, <1>5 DEF KeepsAsking
  <2>1. CASE next_piece' = N
    <3>1. outstanding' \cup DOMAIN pieces' = Pieces
      BY <2>1, <1>9 DEF Partition, Pieces
    <3> QED  BY <3>1, <1>10
  <2>2. CASE Cardinality(outstanding') = Limit(reqq)
    BY <2>2, <1>3, FS_EmptySet
  <2> QED  BY <1>5, <2>1, <2>2
<1>15. VerifiedOnly'
  <2> SUFFICES ASSUME result' = "metadata"
               PROVE  DOMAIN pieces' = Pieces /\ \A q \in Pieces : pieces'[q] = "right"
    BY DEF VerifiedOnly, Pieces
  <2>1. stage' = "closing" /\ Verdict(p, c) = "metadata" /\ DOMAIN pieces' = Pieces
    BY <1>10, <1>11
  <2>2. c = "right" /\ \A q \in DOMAIN pieces : pieces[q] = "right"
    BY <2>1 DEF Verdict
  <2> QED  BY <2>1, <2>2, <1>7, <1>8
<1>16. NotBegun' /\ Incomplete' /\ CancelKept'
  BY <1>2, <1>10, <1>11 DEF NotBegun, Incomplete, CancelKept, timers, Pieces
<1> QED  BY <1>9, <1>12, <1>13, <1>14, <1>15, <1>16 DEF IInv

(***************************************************************************)
(* Steps that leave the exchange, the stage of the session and its result  *)
(* alone, or end it after wait_closed().                                   *)
(***************************************************************************)
LEMMA Waited ==
  ASSUME IInv, UNCHANGED <<result, reqq, transfer, timers, env>>, unsent' \in BOOLEAN,
         stage' = stage \/ (stage = "closing" /\ stage' = "ended")
  PROVE  IInv'
<1>1. TypeOK'
  BY DEF IInv, TypeOK, transfer, timers, Open, Talking
<1>2. Partition' /\ WithinLimit'
  BY DEF IInv, Partition, WithinLimit, transfer, Limit
<1>3. NotBegun' /\ Incomplete' /\ KeepsAsking' /\ VerifiedOnly'
  BY DEF IInv, NotBegun, Incomplete, KeepsAsking, VerifiedOnly, transfer, Pieces, Limit
<1>4. CancelKept'
  BY DEF IInv, CancelKept, timers
<1> QED  BY <1>1, <1>2, <1>3, <1>4 DEF IInv

(***************************************************************************)
(* Every step preserves the invariant.                                     *)
(***************************************************************************)
LEMMA Inductive == IInv /\ [Next]_vars => IInv'
<1> SUFFICES ASSUME IInv, [Next]_vars PROVE IInv'
  OBVIOUS
<1>0. unsent \in BOOLEAN /\ expired \in BOOLEAN /\ cancelled \in BOOLEAN
  BY DEF IInv, TypeOK
<1>1. CASE Connect \/ Handshake
  <2>1. /\ stage' \in {"bt_handshake", "extension_handshake"}
        /\ stage \in {"connect", "bt_handshake"}
        /\ UNCHANGED <<result, reqq, transfer, timers, unsent, env>>
    BY <1>1 DEF Connect, Handshake
  <2>2. TypeOK'
    BY <2>1 DEF IInv, TypeOK, transfer, timers, Open, Talking
  <2>3. Partition' /\ WithinLimit'
    BY <2>1 DEF IInv, Partition, WithinLimit, transfer, Limit
  <2>4. NotBegun' /\ Incomplete' /\ KeepsAsking' /\ VerifiedOnly'
    BY <2>1 DEF IInv, NotBegun, Incomplete, KeepsAsking, VerifiedOnly, transfer, Pieces
  <2>5. CancelKept'
    BY <2>1 DEF IInv, CancelKept, timers
  <2> QED  BY <2>2, <2>3, <2>4, <2>5 DEF IInv
<1>2. CASE ExtensionHandshake
  BY <1>2, Begun
<1>3. CASE Invalid \/ StageTimeout \/ Disconnect
  BY <1>3, Failed DEF Invalid, StageTimeout, Disconnect, Open
<1>4. CASE OddHeader
  <2>1. stage = "metadata" /\ Leave("TypeError") /\ UNCHANGED timers
    BY <1>4 DEF OddHeader
  <2>2. /\ UNCHANGED <<reqq, transfer>> /\ unsent' = unsent /\ env' = env /\ expired' = expired
        /\ cancelled' = cancelled /\ stage' = "closing" /\ result' = "TypeError" /\ ~cancelled
    BY <2>1 DEF Leave, timers, IInv, CancelKept
  <2> QED  BY <1>0, <2>2, Left
<1>5. CASE \E p \in Pieces : Reject(p)
  <2>1. PICK p \in Pieces : Reject(p)
    BY <1>5
  <2>2. CASE p \in outstanding
    BY <2>1, <2>2, Failed DEF Reject, Open, Talking
  <2>3. CASE p \notin outstanding
    <3>1. UNCHANGED vars
      BY <2>1, <2>3 DEF Reject
    <3> QED  BY <3>1, <1>0, Waited DEF vars
  <2> QED  BY <2>2, <2>3
<1>6. CASE \E p \in Pieces, c \in Contents : Data(p, c)
  <2>1. PICK p \in Pieces, c \in Contents : Data(p, c)
    BY <1>6
  <2>2. stage = "metadata" /\ stage \in Open
    BY <2>1 DEF Data, Open, Talking
  <2>3. CASE p \in DOMAIN pieces /\ Duplicate(p, c)
    <3>1. CASE pieces[p] = c
      <4>1. UNCHANGED vars
        BY <2>3, <3>1 DEF Duplicate
      <4> QED  BY <4>1, <1>0, Waited DEF vars
    <3>2. CASE pieces[p] # c
      BY <2>2, <2>3, <3>2, Failed DEF Duplicate
    <3> QED  BY <3>1, <3>2
  <2>4. CASE p \in outstanding /\ Store(p, c)
    BY <2>2, <2>4, Stored
  <2>5. CASE Fail
    BY <2>2, <2>5, Failed
  <2> QED  BY <2>1, <2>3, <2>4, <2>5 DEF Data
<1>7. CASE Expire
  <2>1. /\ expired' = TRUE /\ cancelled' = cancelled /\ UNCHANGED <<reqq, transfer, unsent, env>>
        /\ stage' \in {"closing", "ended"}
    BY <1>7 DEF Expire, Leave
  <2>2. result' \in {"PeerError", "CancelledError"} /\ (cancelled => result' = "CancelledError")
    <3>1. CASE stage = "closing"
      BY <1>7, <3>1 DEF Expire
    <3>2. CASE stage # "closing"
      <4>1. ~cancelled
        BY <1>7, <3>2 DEF Expire, IInv, CancelKept
      <4> QED  BY <4>1, <1>7, <3>2 DEF Expire, Leave
    <3> QED  BY <3>1, <3>2
  <2> QED  BY <1>0, <2>1, <2>2, Left
<1>8. CASE Cancel
  <2>1. /\ expired' = expired /\ cancelled' = TRUE /\ UNCHANGED <<reqq, transfer, unsent, env>>
        /\ stage' \in {"closing", "ended"} /\ result' = "CancelledError"
    BY <1>8 DEF Cancel, Leave
  <2> QED  BY <1>0, <2>1, Left
<1>9. CASE Stall \/ Drained
  BY <1>9, Waited DEF Stall, Drained
<1>10. CASE Closed
  BY <1>10, <1>0, Waited DEF Closed
<1>11. CASE UNCHANGED vars
  BY <1>11, <1>0, Waited DEF vars
<1> QED
  BY <1>1, <1>2, <1>3, <1>4, <1>5, <1>6, <1>7, <1>8, <1>9, <1>10, <1>11 DEF Next, Peer

-----------------------------------------------------------------------------
(* Theorems *)

(***************************************************************************)
(* The strengthened invariant of the session.                              *)
(***************************************************************************)
THEOREM Invariance == Spec => []IInv
BY Initially, Inductive, PTL DEF Spec

(***************************************************************************)
(* _download_metadata: the sets of pieces and the verdict are well formed. *)
(***************************************************************************)
THEOREM TypeCorrect == Spec => []TypeOK
<1>1. IInv => TypeOK
  BY DEF IInv
<1> QED  BY <1>1, Invariance, PTL

(***************************************************************************)
(* fill_pipeline and the handler of data messages: no piece is lost or     *)
(* asked for twice.                                                        *)
(***************************************************************************)
THEOREM PartitionCorrect == Spec => []Partition
<1>1. IInv => Partition
  BY DEF IInv
<1> QED  BY <1>1, Invariance, PTL

(***************************************************************************)
(* fill_pipeline: METADATA_REQUEST_PIPELINE and the peer's reqq bound what *)
(* is outstanding.                                                         *)
(***************************************************************************)
THEOREM PipelineBoundCorrect == Spec => []PipelineBound
<1>1. ASSUME IInv PROVE PipelineBound
  <2>1. reqq \in Nat /\ Cardinality(outstanding) \in Nat
    BY <1>1, ReqqNat, PiecesFinite DEF IInv, TypeOK
  <2> QED  BY <1>1, <2>1, LimitRange, DownloadAssumption DEF IInv, WithinLimit, PipelineBound
<1> QED  BY <1>1, Invariance, PTL

(***************************************************************************)
(* _download_metadata never waits for a message that it did not ask for,   *)
(* and always has as much under way as it may.                             *)
(***************************************************************************)
THEOREM KeepsAskingCorrect == Spec => []KeepsAsking
<1>1. IInv => KeepsAsking
  BY DEF IInv
<1> QED  BY <1>1, Invariance, PTL

(***************************************************************************)
(* _fetch returns only metadata that is complete and matches the hash.     *)
(***************************************************************************)
THEOREM VerifiedOnlyCorrect == Spec => []VerifiedOnly
<1>1. IInv => VerifiedOnly
  BY DEF IInv
<1> QED  BY <1>1, Invariance, PTL

(***************************************************************************)
(* fetch_metadata passes the cancellation of the worker on, whichever      *)
(* timer fires around it.                                                  *)
(***************************************************************************)
THEOREM CancelNotSwallowedCorrect == Spec => []CancelNotSwallowed
<1>1. IInv => CancelNotSwallowed
  BY DEF IInv, CancelKept, CancelNotSwallowed
<1> QED  BY <1>1, Invariance, PTL
===============================================================================
