------------------------------ MODULE MCKrpc ------------------------------
(***************************************************************************)
(* Two queries to one honest endpoint, one to a faulty endpoint; and, for  *)
(* the semaphore alone, queries that do not differ.                        *)
(***************************************************************************)
EXTENDS Krpc, TLC

CONSTANTS q1, q2, q3, q4, honest, faulty, id1, id2

ThreeEndpoints == q1 :> honest @@ q2 :> honest @@ q3 :> faulty
ThreeExpected == q1 :> id1 @@ q2 :> NoId @@ q3 :> id2
ThreePriorities == q1 :> 0 @@ q2 :> 1 @@ q3 :> 2
TwoIds == honest :> id1 @@ faulty :> id2

ToHonest == [q \in Queries |-> honest]
ExpectId1 == [q \in Queries |-> id1]
SamePriority == [q \in Queries |-> 0]
AnyOrder == Permutations(Queries)
=============================================================================
