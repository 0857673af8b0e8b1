------------------------- MODULE RoutingTableProofs -------------------------
(***************************************************************************)
(* Proofs about RoutingTable, for ID spaces, buckets, nodes and failure    *)
(* limits of every size: the buckets partition the ID space, each node     *)
(* stands in the table once, nobody waits behind a BAD contact, a GOOD     *)
(* contact has answered from its endpoint, only BAD ones are evicted, and  *)
(* a restart brings back every contact of the snapshot.                    *)
(***************************************************************************)
EXTENDS RoutingTable, FiniteSetTheorems, FunctionTheorems, SequenceTheorems,
        WellFoundedInduction, TLAPS

-----------------------------------------------------------------------------
(* The inductive invariant *)

Bucket == [low : Ids, high : 1..Space, contacts : SUBSET Contact,
           replacements : Seq(Contact)]

\* A bucket is a part of the ID space, next to the local ID or around it.
Near(b) ==
    /\ b.low < b.high
    /\ b.low <= LocalId + (b.high - b.low)
    /\ LocalId <= b.high + (b.high - b.low)

Limited(b) ==
    /\ IsFiniteSet(b.contacts) /\ Cardinality(b.contacts) <= K
    /\ Len(b.replacements) <= K

\* A contact is known by what somebody sent; who has answered is in R.
Sent(c, R) ==
    /\ <<c.id, c.ep>> \in Senders
    /\ c.response # "never" => <<c.id, c.ep>> \in R

Fresh(c) == c.failures = 0

\* Whoever waits has not failed.
Placed(b, R) ==
    /\ \A c \in b.contacts : Covers(b, c.id) /\ Sent(c, R)
    /\ \A i \in 1..Len(b.replacements) :
          /\ Covers(b, b.replacements[i].id) /\ Sent(b.replacements[i], R)
          /\ Fresh(b.replacements[i])

Single(b) ==
    /\ \A c, d \in b.contacts : c.id = d.id => c = d
    /\ \A c \in b.contacts, i \in 1..Len(b.replacements) :
          c.id # b.replacements[i].id
    /\ \A i, j \in 1..Len(b.replacements) :
          b.replacements[i].id = b.replacements[j].id => i = j

Full(b) ==
    b.replacements # <<>> =>
        /\ Cardinality(b.contacts) = K
        /\ \A c \in b.contacts : State(c) # "BAD"
        /\ ~ Covers(b, LocalId)

BucketOK(b, R) ==
    /\ b \in Bucket
    /\ Near(b)
    /\ Limited(b)
    /\ Placed(b, R)
    /\ Single(b)
    /\ Full(b)

TableOK(t, R) ==
    /\ \A b \in t : BucketOK(b, R)
    /\ \A id \in Ids : \E b \in t : Covers(b, id)
    /\ \A a, b \in t : a # b => a.high <= b.low \/ b.high <= a.low

IInv ==
    /\ TableOK(buckets, responded)
    /\ snapshot \subseteq Senders
    /\ restoring \subseteq snapshot
    /\ restarts \in 0..MaxRestarts
    /\ responded \subseteq Senders

-----------------------------------------------------------------------------
(* The ID space and its buckets *)

\* The local ID is one of the IDs, which are natural numbers.
LEMMA Spaces ==
    /\ Space \in Nat \ {0} /\ LocalId \in Ids /\ Ids = 0..(Space - 1)
    /\ Nodes \subseteq Ids /\ K \in Nat \ {0} /\ BadAfter \in Nat \ {0}
<1>1. Space \in Nat /\ LocalId \in 0..(Space - 1)
  BY RoutingAssumption DEF Ids
<1>2. Space # 0
  BY <1>1
<1> QED  BY <1>1, <1>2, RoutingAssumption DEF Ids

\* _bucket_for() finds the one bucket that covers an ID.
LEMMA HomeIs ==
    ASSUME NEW t, NEW R, TableOK(t, R), NEW id \in Ids
    PROVE  /\ Home(t, id) \in t
           /\ Covers(Home(t, id), id)
           /\ \A b \in t : Covers(b, id) => b = Home(t, id)
<1>1. Home(t, id) \in t /\ Covers(Home(t, id), id)
  BY DEF TableOK, Home
<1>2. ASSUME NEW b \in t, Covers(b, id), b # Home(t, id)
      PROVE  FALSE
  <2> DEFINE h == Home(t, id)
  <2>1. b.high <= h.low \/ h.high <= b.low
    BY <1>1, <1>2 DEF TableOK
  <2>2. b \in Bucket /\ h \in Bucket
    BY <1>1 DEF TableOK, BucketOK
  <2>3. b.low \in Nat /\ b.high \in Nat /\ h.low \in Nat /\ h.high \in Nat /\ id \in Nat
    BY <2>2, Spaces DEF Bucket
  <2>4. b.low <= id /\ id < b.high /\ h.low <= id /\ id < h.high
    BY <1>1, <1>2 DEF Covers
  <2> HIDE DEF h
  <2> QED  BY <2>1, <2>3, <2>4
<1> QED  BY <1>1, <1>2

\* A bucket with new lists.
With(b, cs, rs) == [b EXCEPT !.contacts = cs, !.replacements = rs]

\* A bucket whose lists have changed has its place all the same.
LEMMA ReplaceOK ==
    ASSUME NEW t, NEW R, TableOK(t, R), NEW b \in t, NEW cs, NEW rs,
           BucketOK(With(b, cs, rs), R)
    PROVE  TableOK(Replace(t, b, cs, rs), R)
<1> DEFINE n == With(b, cs, rs)
<1>1. n.low = b.low /\ n.high = b.high /\ BucketOK(n, R)
  BY DEF TableOK, BucketOK, Bucket, With
<1>2. Replace(t, b, cs, rs) = (t \ {b}) \cup {n}
  BY DEF Replace, With
<1> HIDE DEF n
<1>3. \A x \in (t \ {b}) \cup {n} : BucketOK(x, R)
  BY <1>1 DEF TableOK
<1>4. \A id \in Ids : \E x \in (t \ {b}) \cup {n} : Covers(x, id)
  BY <1>1 DEF TableOK, Covers
<1>5. \A x, y \in (t \ {b}) \cup {n} : x # y => x.high <= y.low \/ y.high <= x.low
  BY <1>1 DEF TableOK
<1> QED  BY <1>2, <1>3, <1>4, <1>5 DEF TableOK

\* More answers make nothing wrong.
LEMMA MoreAnswers ==
    ASSUME NEW t, NEW R, NEW Q, R \subseteq Q, TableOK(t, R)
    PROVE  TableOK(t, Q)
<1>1. ASSUME NEW b \in t
      PROVE  BucketOK(b, Q)
  <2>1. BucketOK(b, R)
    BY DEF TableOK
  <2>2. Placed(b, Q)
    BY <2>1 DEF BucketOK, Placed, Sent
  <2> QED  BY <2>1, <2>2 DEF BucketOK
<1> QED  BY <1>1 DEF TableOK

-----------------------------------------------------------------------------
(* Splitting *)

Members(t) == UNION {b.contacts : b \in t}

Width(b) == b.high - b.low

SplitLocal(t) == (t \ {Home(t, LocalId)}) \cup Split(Home(t, LocalId))

\* A half of a bucket in which nobody waits.
Half(b, low, high) ==
    [low |-> low, high |-> high,
     contacts |-> {c \in b.contacts : low <= c.id /\ c.id < high},
     replacements |-> <<>>]

\* The limits of a bucket, and the IDs of its contacts, which are not the local one.
LEMMA InBucket ==
    ASSUME NEW R, NEW b, BucketOK(b, R)
    PROVE  /\ b.low \in Nat /\ b.high \in Nat /\ b.low < b.high
           /\ \A c \in b.contacts :
                 /\ c \in Contact /\ c.id \in Nat /\ c.id # LocalId
                 /\ b.low <= c.id /\ c.id < b.high
<1>1. b.low \in Nat /\ b.high \in Nat /\ b.low < b.high
  BY Spaces DEF BucketOK, Bucket, Near
<1>2. ASSUME NEW c \in b.contacts
      PROVE  /\ c \in Contact /\ c.id \in Nat /\ c.id # LocalId
             /\ b.low <= c.id /\ c.id < b.high
  <2>1. c \in Contact /\ Covers(b, c.id)
    BY DEF BucketOK, Bucket, Placed
  <2>2. c.id \in Nodes /\ c.id # LocalId
    BY <2>1 DEF Contact
  <2>3. c.id \in Nat
    <3>1. c.id \in Ids
      BY <2>2, Spaces
    <3> QED  BY <3>1, Spaces
  <2> QED  BY <2>1, <2>2, <2>3 DEF Covers
<1> QED  BY <1>1, <1>2

\* The middle of an interval of two or more numbers.
LEMMA Middle ==
    ASSUME NEW low \in Nat, NEW high \in Nat, low < high
    PROVE  LET mid == (low + high) \div 2
           IN  /\ mid \in Nat /\ low <= mid /\ mid < high
               /\ 2 * mid <= low + high /\ low + high <= 2 * mid + 1
               /\ low + 1 < high => low < mid
  OBVIOUS

\* The two halves of the local bucket.
LEMMA Halves ==
    ASSUME NEW R, NEW b, BucketOK(b, R), Covers(b, LocalId)
    PROVE  LET mid == (b.low + b.high) \div 2
           IN  Split(b) = {Half(b, b.low, mid), Half(b, mid, b.high)}
<1> DEFINE mid == (b.low + b.high) \div 2
           left == {c \in b.contacts : c.id < mid}
           right == {c \in b.contacts : c.id >= mid}
<1>1. b.replacements = <<>>
  BY DEF BucketOK, Full
<1>2. Split(b) =
        {[low |-> b.low, high |-> mid, contacts |-> left, replacements |-> <<>>],
         [low |-> mid, high |-> b.high, contacts |-> right, replacements |-> <<>>]}
  BY <1>1 DEF Split
<1>3. b.low \in Nat /\ b.high \in Nat /\ b.low < b.high
  BY InBucket
<1>4. mid \in Nat /\ b.low <= mid /\ mid < b.high
  BY <1>3, Middle
<1>5. \A c \in b.contacts : c.id \in Nat /\ b.low <= c.id /\ c.id < b.high
  BY InBucket
<1>6. left = {c \in b.contacts : b.low <= c.id /\ c.id < mid}
  BY <1>4, <1>5
<1>7. right = {c \in b.contacts : mid <= c.id /\ c.id < b.high}
  BY <1>4, <1>5
<1> QED  BY <1>2, <1>6, <1>7 DEF Half

\* A half of the local bucket is a bucket, if it is not empty.
LEMMA HalfOK ==
    ASSUME NEW R, NEW b, BucketOK(b, R), Covers(b, LocalId),
           NEW low \in Nat, NEW high \in Nat,
           b.low <= low, low < high, high <= b.high,
           low <= LocalId + (high - low), LocalId <= high + (high - low)
    PROVE  BucketOK(Half(b, low, high), R)
<1> DEFINE h == Half(b, low, high)
<1>1. /\ h.low = low /\ h.high = high /\ h.replacements = <<>>
      /\ h.contacts = {c \in b.contacts : low <= c.id /\ c.id < high}
  BY DEF Half
<1>2. h \in Bucket
  <2>1. low \in Ids /\ high \in 1..Space
    <3>1. b.low \in Ids /\ b.high \in 1..Space
      BY DEF BucketOK, Bucket
    <3> QED  BY <3>1, Spaces
  <2>2. b.contacts \subseteq Contact
    BY DEF BucketOK, Bucket
  <2> QED  BY <2>1, <2>2 DEF Half, Bucket
<1>3. Near(h)
  BY <1>1 DEF Near
<1>4. h.contacts \subseteq b.contacts /\ IsFiniteSet(b.contacts) /\ Cardinality(b.contacts) <= K
  BY <1>1 DEF BucketOK, Limited
<1> HIDE DEF h
<1>5. Limited(h)
  <2>1. IsFiniteSet(h.contacts) /\ Cardinality(h.contacts) <= Cardinality(b.contacts)
    BY <1>4, FS_Subset
  <2>2. Cardinality(h.contacts) \in Nat /\ Cardinality(b.contacts) \in Nat
    BY <2>1, <1>4, FS_CardinalityType
  <2>3. Len(h.replacements) = 0
    BY <1>1
  <2> QED  BY <1>4, <2>1, <2>2, <2>3, Spaces DEF Limited
<1>6. Placed(h, R)
  BY <1>1, <1>4 DEF BucketOK, Placed, Covers
<1>7. Single(h)
  BY <1>1, <1>4 DEF BucketOK, Single
<1>8. Full(h)
  BY <1>1 DEF Full
<1> QED  BY <1>2, <1>3, <1>5, <1>6, <1>7, <1>8 DEF BucketOK, h

\* _split() of the local bucket, which somebody is in: nobody is lost, and the
\* new local bucket is smaller.
LEMMA LocalSplit ==
    ASSUME NEW t, NEW R, TableOK(t, R), Home(t, LocalId).contacts # {}
    PROVE  /\ TableOK(SplitLocal(t), R)
           /\ Members(SplitLocal(t)) = Members(t)
           /\ Width(Home(SplitLocal(t), LocalId)) < Width(Home(t, LocalId))
<1> DEFINE b == Home(t, LocalId)
           mid == (b.low + b.high) \div 2
           left == Half(b, b.low, mid)
           right == Half(b, mid, b.high)
           after == (t \ {b}) \cup {left, right}
<1>1. b \in t /\ Covers(b, LocalId) /\ BucketOK(b, R)
  BY HomeIs, Spaces DEF TableOK
<1>2. SplitLocal(t) = after
  BY <1>1, Halves DEF SplitLocal
<1>3. b.low \in Nat /\ b.high \in Nat /\ LocalId \in Nat
  BY <1>1, Spaces DEF BucketOK, Bucket
<1>4. PICK c \in b.contacts : c.id \in Nat /\ c.id # LocalId /\ b.low <= c.id /\ c.id < b.high
  BY <1>1, InBucket DEF b
<1>5. b.low <= LocalId /\ LocalId < b.high
  BY <1>1 DEF Covers
<1>6. mid \in Nat /\ b.low < mid /\ mid < b.high
  <2> HIDE DEF b
  <2>1. b.low + 1 < b.high
    BY <1>3, <1>4, <1>5
  <2> QED  BY <1>3, <2>1, Middle
<1>7. /\ left.low = b.low /\ left.high = mid
      /\ right.low = mid /\ right.high = b.high
      /\ left.contacts = {x \in b.contacts : b.low <= x.id /\ x.id < mid}
      /\ right.contacts = {x \in b.contacts : mid <= x.id /\ x.id < b.high}
  BY DEF Half
<1>8. 2 * mid <= b.low + b.high /\ b.low + b.high <= 2 * mid + 1
  <2> HIDE DEF b
  <2>1. b.low < b.high
    BY <1>3, <1>5
  <2> QED  BY <1>3, <2>1, Middle
<1> HIDE DEF mid
<1>9. BucketOK(left, R) /\ BucketOK(right, R)
  <2>1. mid - b.low <= b.high - mid /\ b.high - mid <= (mid - b.low) + 1
    BY <1>3, <1>6, <1>8
  <2>2. b.low <= LocalId + (mid - b.low) /\ LocalId <= mid + (mid - b.low)
    BY <1>3, <1>5, <1>6, <2>1
  <2>3. mid <= LocalId + (b.high - mid) /\ LocalId <= b.high + (b.high - mid)
    BY <1>3, <1>5, <1>6, <2>1
  <2> HIDE DEF b
  <2> QED  BY <1>1, <1>3, <1>6, <2>2, <2>3, HalfOK
<1> HIDE DEF b, left, right
<1>10. \A x \in after : BucketOK(x, R)
  BY <1>9 DEF TableOK
<1>11. \A id \in Ids : \E x \in after : Covers(x, id)
  <2> SUFFICES ASSUME NEW id \in Ids
               PROVE  \E x \in after : Covers(x, id)
    OBVIOUS
  <2>1. PICK x \in t : Covers(x, id)
    BY DEF TableOK
  <2>2. CASE x # b
    BY <2>1, <2>2
  <2>3. CASE x = b
    <3>1. id \in Nat /\ b.low <= id /\ id < b.high
      BY <2>1, <2>3, Spaces DEF Covers
    <3>2. id < mid \/ mid <= id
      BY <3>1, <1>6
    <3>3. Covers(left, id) \/ Covers(right, id)
      BY <3>1, <3>2, <1>7 DEF Covers
    <3> QED  BY <3>3
  <2> QED  BY <2>2, <2>3
<1>12. ASSUME NEW x \in after, NEW y \in after, x # y
       PROVE  x.high <= y.low \/ y.high <= x.low
  <2>1. ASSUME NEW z \in t, z # b
        PROVE  z.low \in Nat /\ z.high \in Nat /\ (z.high <= b.low \/ b.high <= z.low)
    <3>1. BucketOK(z, R)
      BY <2>1 DEF TableOK
    <3>2. z.low \in Nat /\ z.high \in Nat
      BY <3>1, Spaces DEF BucketOK, Bucket
    <3> QED  BY <1>1, <2>1, <3>2 DEF TableOK
  <2>2. CASE x \in t \ {b} /\ y \in t \ {b}
    BY <1>12, <2>2 DEF TableOK
  <2>3. CASE x \in t \ {b} /\ y \in {left, right}
    <3>1. x.low \in Nat /\ x.high \in Nat /\ (x.high <= b.low \/ b.high <= x.low)
      BY <2>1, <2>3
    <3>2. y.low >= b.low /\ y.high <= b.high /\ y.low \in Nat /\ y.high \in Nat
      BY <2>3, <1>7, <1>6, <1>3
    <3> QED  BY <3>1, <3>2, <1>3
  <2>4. CASE y \in t \ {b} /\ x \in {left, right}
    <3>1. y.low \in Nat /\ y.high \in Nat /\ (y.high <= b.low \/ b.high <= y.low)
      BY <2>1, <2>4
    <3>2. x.low >= b.low /\ x.high <= b.high /\ x.low \in Nat /\ x.high \in Nat
      BY <2>4, <1>7, <1>6, <1>3
    <3> QED  BY <3>1, <3>2, <1>3
  <2>5. CASE x \in {left, right} /\ y \in {left, right}
    BY <1>12, <2>5, <1>7, <1>6
  <2> QED  BY <1>12, <2>2, <2>3, <2>4, <2>5
<1>13. TableOK(after, R)
  BY <1>10, <1>11, <1>12 DEF TableOK
<1>14. Members(after) = Members(t)
  <2>1. \A x \in b.contacts : x.id \in Nat /\ b.low <= x.id /\ x.id < b.high
    BY <1>1, InBucket
  <2>2. left.contacts \cup right.contacts = b.contacts
    BY <2>1, <1>6, <1>7
  <2> QED  BY <1>1, <2>2 DEF Members
<1>15. Width(Home(after, LocalId)) < Width(b)
  <2>1. LocalId < mid \/ mid <= LocalId
    BY <1>3, <1>6
  <2>2. CASE LocalId < mid
    <3>1. Covers(left, LocalId)
      BY <2>2, <1>5, <1>7 DEF Covers
    <3>2. left = Home(after, LocalId)
      BY <3>1, <1>13, HomeIs, Spaces
    <3> QED  BY <3>2, <1>3, <1>6, <1>7 DEF Width
  <2>3. CASE mid <= LocalId
    <3>1. Covers(right, LocalId)
      BY <2>3, <1>5, <1>7 DEF Covers
    <3>2. right = Home(after, LocalId)
      BY <3>1, <1>13, HomeIs, Spaces
    <3> QED  BY <3>2, <1>3, <1>6, <1>7 DEF Width
  <2> QED  BY <2>1, <2>2, <2>3
<1> HIDE DEF after
<1> QED  BY <1>2, <1>13, <1>14, <1>15 DEF b

-----------------------------------------------------------------------------
(* As many splits as it takes *)

\* Induction over the natural numbers, for a set.
LEMMA Induction ==
    ASSUME NEW S, 0 \in S, \A n \in Nat : n \in S => n + 1 \in S
    PROVE  Nat \subseteq S
<1> DEFINE T == Nat \ S
<1> SUFFICES ASSUME T # {} PROVE FALSE
  OBVIOUS
<1>1. T \subseteq Nat /\ \A n \in T : n # 0 /\ n \notin S
  OBVIOUS
<1>2. \A n \in Nat : n \notin T => n \in S
  OBVIOUS
<1> HIDE DEF T
<1>3. PICK x \in T : \A y \in T : ~ (<<y, x>> \in OpToRel(<, Nat))
  BY <1>1, WFMin, NatLessThanWellFounded, Zenon
<1>4. \A y \in T : ~ (y < x)
  BY <1>1, <1>3, Zenon DEF OpToRel
<1>5. x - 1 \in Nat /\ x - 1 < x /\ (x - 1) + 1 = x
  BY <1>1
<1> QED  BY <1>1, <1>2, <1>4, <1>5

\* There is a first one among some numbers.
LEMMA First ==
    ASSUME NEW T \in SUBSET Nat, T # {}
    PROVE  \E n \in T : \A j \in 0..(n - 1) : j \notin T
<1>1. PICK x \in T : \A y \in T : ~ (<<y, x>> \in OpToRel(<, Nat))
  BY WFMin, NatLessThanWellFounded, Zenon
<1>2. \A y \in T : ~ (y < x)
  BY <1>1, Zenon DEF OpToRel
<1> QED  BY <1>2

\* The recursive function is what its definition says.
LEMMA SplitsDefined ==
    /\ AfterSplits[0] = buckets
    /\ \A n \in Ids \ {0} : AfterSplits[n] = SplitLocal(AfterSplits[n - 1])
<1> DEFINE Upto(g, m) ==
               g = [n \in 0..m |-> IF n = 0 THEN buckets ELSE SplitLocal(g[n - 1])]
           Good == {m \in Nat : \E g : Upto(g, m)}
<1>1. 0 \in Good
  <2>1. Upto([n \in 0..0 |-> buckets], 0)
    OBVIOUS
  <2> QED  BY <2>1
<1>2. ASSUME NEW m \in Nat, m \in Good
      PROVE  m + 1 \in Good
  <2>1. PICK g : Upto(g, m)
    BY <1>2
  <2> DEFINE h == [n \in 0..(m + 1) |-> IF n \in 0..m THEN g[n] ELSE SplitLocal(g[m])]
             r == [n \in 0..(m + 1) |-> IF n = 0 THEN buckets ELSE SplitLocal(h[n - 1])]
  <2>2. ASSUME NEW n \in 0..(m + 1)
        PROVE  h[n] = r[n]
    <3>1. CASE n = 0
      BY <2>1, <3>1
    <3>2. CASE n # 0 /\ n \in 0..m
      <4>1. n - 1 \in 0..m /\ n - 1 \in 0..(m + 1)
        BY <3>2
      <4>2. h[n - 1] = g[n - 1] /\ h[n] = g[n]
        BY <4>1, <3>2
      <4>3. g[n] = SplitLocal(g[n - 1])
        BY <2>1, <3>2
      <4> QED  BY <4>2, <4>3, <3>2
    <3>3. CASE n = m + 1
      <4>1. n # 0 /\ n \notin 0..m /\ n - 1 = m /\ m \in 0..m /\ m \in 0..(m + 1)
        BY <3>3
      <4>2. h[m] = g[m]
        BY <4>1
      <4>3. h[n] = SplitLocal(g[m])
        BY <4>1
      <4>4. r[n] = SplitLocal(h[m])
        BY <4>1
      <4> QED  BY <4>2, <4>3, <4>4
    <3> QED  BY <3>1, <3>2, <3>3
  <2>3. h = r
    BY <2>2
  <2>4. Upto(h, m + 1)
    BY <2>3
  <2> HIDE DEF h
  <2>5. m + 1 \in Nat
    OBVIOUS
  <2> QED  BY <2>4, <2>5
<1>3. Space - 1 \in Good
  <2> HIDE DEF Good
  <2>1. Nat \subseteq Good
    BY <1>1, <1>2, Induction
  <2>2. Space - 1 \in Nat
    BY Spaces
  <2> QED  BY <2>1, <2>2
<1>4. PICK f : f = [n \in Ids |-> IF n = 0 THEN buckets ELSE SplitLocal(f[n - 1])]
  BY <1>3, Spaces
<1>5. AfterSplits =
        [n \in Ids |-> IF n = 0 THEN buckets ELSE SplitLocal(AfterSplits[n - 1])]
  BY <1>4 DEF AfterSplits, SplitLocal
<1>6. 0 \in Ids
  BY Spaces
<1> QED  BY <1>5, <1>6

\* A local bucket that somebody is in is two IDs wide or more.
LEMMA MustSplitIs ==
    ASSUME NEW t, NEW R, TableOK(t, R), NEW id \in Ids, MustSplit(t, id)
    PROVE  /\ Home(t, LocalId).contacts # {}
           /\ Width(Home(t, LocalId)) \in Nat
           /\ Width(Home(t, LocalId)) > 1
<1> DEFINE b == Home(t, LocalId)
<1>1. b \in t /\ Covers(b, LocalId) /\ BucketOK(b, R)
  BY HomeIs, Spaces DEF TableOK
<1>2. Home(t, id) = b
  <2>1. Home(t, id) \in t /\ Covers(Home(t, id), LocalId)
    BY HomeIs DEF MustSplit
  <2> QED  BY <2>1, HomeIs, Spaces
<1>3. Cardinality(b.contacts) >= K
  BY <1>2 DEF MustSplit
<1> HIDE DEF b
<1>4. b.contacts # {}
  BY <1>3, FS_EmptySet, Spaces
<1>5. PICK c \in b.contacts : c.id \in Nat /\ c.id # LocalId /\ b.low <= c.id /\ c.id < b.high
  BY <1>1, <1>4, InBucket
<1>6. b.low \in Nat /\ b.high \in Nat /\ LocalId \in Nat
  BY <1>1, InBucket, Spaces
<1>7. b.low <= LocalId /\ LocalId < b.high
  BY <1>1 DEF Covers
<1>8. b.high - b.low \in Nat /\ b.high - b.low > 1
  BY <1>5, <1>6, <1>7
<1> QED  BY <1>4, <1>8 DEF Width, b

\* As long as the table must be split, it is one, with the same contacts, and its
\* local bucket has become smaller with every split.
LEMMA Splits ==
    ASSUME NEW R, TableOK(buckets, R), NEW id \in Ids, NEW m \in Ids,
           \A j \in 0..(m - 1) : MustSplit(AfterSplits[j], id)
    PROVE  /\ TableOK(AfterSplits[m], R)
           /\ Members(AfterSplits[m]) = Members(buckets)
           /\ Width(Home(AfterSplits[m], LocalId)) + m <= Space
<1> DEFINE A(n) == AfterSplits[n]
           Fine(n) == /\ TableOK(A(n), R)
                      /\ Members(A(n)) = Members(buckets)
                      /\ Width(Home(A(n), LocalId)) + n <= Space
           Good == {n \in Nat : n <= m => Fine(n)}
<1>0. m \in Nat /\ m <= Space - 1
  BY Spaces
<1>1. ASSUME NEW t, TableOK(t, R)
      PROVE  Width(Home(t, LocalId)) \in Nat /\ Width(Home(t, LocalId)) <= Space
  <2> DEFINE b == Home(t, LocalId)
  <2>1. BucketOK(b, R)
    BY <1>1, HomeIs, Spaces DEF TableOK
  <2>2. b.low \in Nat /\ b.high \in Nat /\ b.low < b.high /\ b.high <= Space
    BY <2>1, InBucket, Spaces DEF BucketOK, Bucket
  <2> HIDE DEF b
  <2>3. b.high - b.low \in Nat /\ b.high - b.low <= Space
    BY <2>2, Spaces
  <2> QED  BY <2>3 DEF Width, b
<1>2. 0 \in Good
  <2>1. A(0) = buckets
    BY SplitsDefined
  <2>2. Fine(0)
    BY <2>1, <1>1, Spaces
  <2> QED  BY <2>2
<1>3. ASSUME NEW n \in Nat, n \in Good, n + 1 <= m
      PROVE  Fine(n + 1)
  <2>1. n <= m /\ n \in 0..(m - 1) /\ n + 1 \in Ids /\ n + 1 # 0 /\ (n + 1) - 1 = n
    BY <1>0, <1>3, Spaces
  <2>2. Fine(n) /\ MustSplit(A(n), id)
    BY <2>1, <1>3
  <2>3. A(n + 1) = SplitLocal(A(n))
    BY <2>1, SplitsDefined
  <2> HIDE DEF A
  <2>4. Home(A(n), LocalId).contacts # {}
    BY <2>2, MustSplitIs
  <2>5. /\ TableOK(A(n + 1), R)
        /\ Members(A(n + 1)) = Members(A(n))
        /\ Width(Home(A(n + 1), LocalId)) < Width(Home(A(n), LocalId))
    BY <2>2, <2>3, <2>4, LocalSplit
  <2> DEFINE v == Width(Home(A(n), LocalId))
             w == Width(Home(A(n + 1), LocalId))
  <2>6. v \in Nat /\ w \in Nat /\ w < v /\ v + n <= Space
    BY <2>2, <2>5, <1>1
  <2> HIDE DEF v, w
  <2>7. w + (n + 1) <= Space
    BY <2>6, Spaces
  <2> QED  BY <2>2, <2>5, <2>7 DEF w
<1>4. Fine(m)
  <2> HIDE DEF Fine
  <2>1. \A n \in Nat : n \in Good => n + 1 \in Good
    BY <1>3
  <2> HIDE DEF Good
  <2>2. Nat \subseteq Good
    BY <1>2, <2>1, Induction
  <2> USE DEF Good
  <2> QED  BY <2>2, <1>0
<1> QED  BY <1>4

\* The loop that splits ends.
LEMMA RoomyExists ==
    ASSUME NEW R, TableOK(buckets, R), NEW id \in Ids
    PROVE  \E n \in Ids : /\ ~ MustSplit(AfterSplits[n], id)
                          /\ \A j \in 0..(n - 1) : MustSplit(AfterSplits[j], id)
<1> DEFINE Enough == {i \in Ids : ~ MustSplit(AfterSplits[i], id)}
<1>1. Enough # {}
  <2> SUFFICES ASSUME Enough = {} PROVE FALSE
    OBVIOUS
  <2> DEFINE m == Space - 1
  <2>1. m \in Ids /\ 0..(m - 1) \subseteq Ids
    BY Spaces
  <2>2. \A i \in Ids : MustSplit(AfterSplits[i], id)
    OBVIOUS
  <2>3. \A j \in 0..(m - 1) : MustSplit(AfterSplits[j], id)
    BY <2>1, <2>2
  <2>4. TableOK(AfterSplits[m], R) /\ Width(Home(AfterSplits[m], LocalId)) + m <= Space
    BY <2>1, <2>3, Splits
  <2>5. Width(Home(AfterSplits[m], LocalId)) \in Nat /\ Width(Home(AfterSplits[m], LocalId)) > 1
    BY <2>1, <2>2, <2>4, MustSplitIs
  <2> QED  BY <2>4, <2>5, Spaces
<1>2. Enough \in SUBSET Nat /\ \A n \in Ids : 0..(n - 1) \subseteq Ids
  BY Spaces
<1> HIDE DEF Enough
<1>3. PICK n \in Enough : \A j \in 0..(n - 1) : j \notin Enough
  BY <1>1, <1>2, First
<1> USE DEF Enough
<1> QED  BY <1>2, <1>3

\* It leaves a table that has the same contacts and a bucket for the newcomer that
\* has room or is away from the local ID.
LEMMA RoomyOK ==
    ASSUME NEW R, TableOK(buckets, R), NEW id \in Ids
    PROVE  /\ TableOK(Roomy(id), R)
           /\ Members(Roomy(id)) = Members(buckets)
           /\ ~ MustSplit(Roomy(id), id)
<1> DEFINE Stops(n) == /\ ~ MustSplit(AfterSplits[n], id)
                       /\ \A j \in 0..(n - 1) : MustSplit(AfterSplits[j], id)
<1>1. PICK k \in Ids : Stops(k) /\ Roomy(id) = AfterSplits[k]
  BY RoomyExists DEF Roomy
<1>2. TableOK(AfterSplits[k], R) /\ Members(AfterSplits[k]) = Members(buckets)
  BY <1>1, Splits
<1> QED  BY <1>1, <1>2

-----------------------------------------------------------------------------
(* Changes of one bucket *)

\* A contact is BAD by its failures alone.
LEMMA BadIs == \A c : State(c) = "BAD" <=> c.failures >= BadAfter
  BY DEF State

\* What new lists of a bucket have to be.
LEMMA ChangedOK ==
    ASSUME NEW R, NEW b, BucketOK(b, R),
           NEW cs \in SUBSET Contact, IsFiniteSet(cs), Cardinality(cs) <= K,
           NEW rs \in Seq(Contact), Len(rs) <= K,
           \A c \in cs : Covers(b, c.id) /\ Sent(c, R),
           \A i \in 1..Len(rs) :
               Covers(b, rs[i].id) /\ Sent(rs[i], R) /\ Fresh(rs[i]),
           \A c, d \in cs : c.id = d.id => c = d,
           \A c \in cs, i \in 1..Len(rs) : c.id # rs[i].id,
           \A i, j \in 1..Len(rs) : rs[i].id = rs[j].id => i = j,
           rs # <<>> => /\ Cardinality(cs) = K
                        /\ \A c \in cs : State(c) # "BAD"
                        /\ ~ Covers(b, LocalId)
    PROVE  BucketOK(With(b, cs, rs), R)
<1> DEFINE n == With(b, cs, rs)
<1>1. b \in Bucket
  BY DEF BucketOK
<1>2. n.low = b.low /\ n.high = b.high /\ n.contacts = cs /\ n.replacements = rs
  BY <1>1 DEF Bucket, With
<1>3. n \in Bucket
  BY <1>1 DEF Bucket, With
<1> HIDE DEF n
<1>4. Near(n)
  BY <1>2 DEF BucketOK, Near
<1>5. Limited(n)
  BY <1>2 DEF Limited
<1>6. Placed(n, R)
  BY <1>2 DEF Placed, Covers
<1>7. Single(n)
  BY <1>2 DEF Single
<1>8. Full(n)
  BY <1>2 DEF Full, Covers
<1> QED  BY <1>3, <1>4, <1>5, <1>6, <1>7, <1>8 DEF BucketOK, n

\* A contact that may take the place of c, or c itself.
Fits(b, c, d, R) ==
    /\ d \in Contact /\ Covers(b, d.id) /\ Sent(d, R)
    /\ \A x \in b.contacts : x.id = d.id => x = c

\* The oldest of those that wait go on to wait, if the contact is not BAD.
StillWait(b, d, rs) ==
    /\ rs \in Seq(Contact) /\ Len(rs) <= Len(b.replacements)
    /\ \A i \in 1..Len(rs) : rs[i] = b.replacements[i] /\ rs[i].id # d.id
    /\ rs # <<>> => State(d) # "BAD"

\* One contact takes the place of another, or of itself.
LEMMA SwapOK ==
    ASSUME NEW R, NEW b, BucketOK(b, R), NEW c \in b.contacts,
           NEW d, Fits(b, c, d, R), NEW rs, StillWait(b, d, rs)
    PROVE  BucketOK(With(b, (b.contacts \ {c}) \cup {d}, rs), R)
<1> USE DEF Fits, StillWait
<1> DEFINE rest == b.contacts \ {c}
           cs == rest \cup {d}
           old == b.replacements
<1>1. b \in Bucket /\ Limited(b) /\ Placed(b, R) /\ Single(b) /\ Full(b)
  BY DEF BucketOK
<1>2. b.contacts \in SUBSET Contact /\ old \in Seq(Contact)
  BY <1>1 DEF Bucket
<1>3. IsFiniteSet(b.contacts) /\ Cardinality(b.contacts) <= K /\ Len(old) <= K
  BY <1>1 DEF Limited
<1>4. IsFiniteSet(cs) /\ Cardinality(cs) = Cardinality(b.contacts)
  <2>1. d \notin rest
    OBVIOUS
  <2>2. IsFiniteSet(rest) /\ Cardinality(rest) = Cardinality(b.contacts) - 1
    BY <1>3, FS_RemoveElement
  <2>3. Cardinality(b.contacts) \in Nat
    BY <1>3, FS_CardinalityType
  <2> HIDE DEF rest
  <2>4. IsFiniteSet(cs) /\ Cardinality(cs) = Cardinality(rest) + 1
    BY <2>1, <2>2, FS_AddElement
  <2> QED  BY <2>2, <2>3, <2>4
<1>5. /\ Len(rs) \in Nat /\ Len(old) \in Nat
      /\ rs # <<>> => Len(rs) > 0
      /\ old = <<>> => Len(old) = 0
  BY <1>2, LenProperties, EmptySeq
<1>6. rs # <<>> => old # <<>>
  BY <1>5
<1>7. Len(rs) <= K
  BY <1>3, <1>5, Spaces
<1>8. cs \in SUBSET Contact /\ Cardinality(cs) <= K
  BY <1>2, <1>3, <1>4
<1>9. \A i \in 1..Len(rs) : i \in 1..Len(old) /\ rs[i] = old[i] /\ rs[i].id # d.id
  BY <1>5
<1>10. \A x \in cs : Covers(b, x.id) /\ Sent(x, R)
  BY <1>1 DEF Placed
<1>11. \A i \in 1..Len(rs) : Covers(b, rs[i].id) /\ Sent(rs[i], R) /\ Fresh(rs[i])
  BY <1>1, <1>9 DEF Placed
<1>12. \A x, y \in cs : x.id = y.id => x = y
  BY <1>1 DEF Single
<1>13. \A x \in cs, i \in 1..Len(rs) : x.id # rs[i].id
  BY <1>1, <1>9 DEF Single
<1>14. \A i, j \in 1..Len(rs) : rs[i].id = rs[j].id => i = j
  BY <1>1, <1>9 DEF Single
<1>15. rs # <<>> => /\ Cardinality(cs) = K
                    /\ \A x \in cs : State(x) # "BAD"
                    /\ ~ Covers(b, LocalId)
  BY <1>1, <1>4, <1>6 DEF Full
<1> HIDE DEF cs
<1>16. BucketOK(With(b, cs, rs), R)
  BY <1>4, <1>7, <1>8, <1>10, <1>11, <1>12, <1>13, <1>14, <1>15, ChangedOK
<1> QED  BY <1>16 DEF cs

\* A newcomer finds room.
LEMMA RoomOK ==
    ASSUME NEW R, NEW b, BucketOK(b, R), NEW d \in Contact, Covers(b, d.id), Sent(d, R),
           \A x \in b.contacts : x.id # d.id, Cardinality(b.contacts) < K
    PROVE  BucketOK(With(b, b.contacts \cup {d}, b.replacements), R)
<1> DEFINE cs == b.contacts \cup {d}
           rs == b.replacements
<1>1. b \in Bucket /\ Limited(b) /\ Placed(b, R) /\ Single(b) /\ Full(b)
  BY DEF BucketOK
<1>2. b.contacts \in SUBSET Contact /\ IsFiniteSet(b.contacts)
  BY <1>1 DEF Bucket, Limited
<1>3. Cardinality(b.contacts) \in Nat
  BY <1>2, FS_CardinalityType
<1>4. rs = <<>>
  BY <1>1, <1>3, Spaces DEF Full
<1>5. rs \in Seq(Contact) /\ Len(rs) = 0
  BY <1>4, EmptySeq
<1>6. d \notin b.contacts
  OBVIOUS
<1>7. IsFiniteSet(cs) /\ Cardinality(cs) = Cardinality(b.contacts) + 1
  BY <1>2, <1>6, FS_AddElement
<1>8. Cardinality(cs) <= K
  BY <1>3, <1>7, Spaces
<1>9. cs \in SUBSET Contact
  BY <1>2
<1>10. \A x \in cs : Covers(b, x.id) /\ Sent(x, R)
  BY <1>1 DEF Placed
<1>11. \A x, y \in cs : x.id = y.id => x = y
  BY <1>1 DEF Single
<1> HIDE DEF cs, rs
<1>12. Len(rs) <= K /\ \A i \in 1..Len(rs) : FALSE
  BY <1>5, Spaces
<1>13. BucketOK(With(b, cs, rs), R)
  BY <1>4, <1>5, <1>7, <1>8, <1>9, <1>10, <1>11, <1>12, ChangedOK
<1> QED  BY <1>13 DEF cs, rs

\* A newcomer that has to wait.
MustWait(b, d, R) ==
    /\ d \in Contact /\ Covers(b, d.id) /\ Sent(d, R) /\ Fresh(d)
    /\ \A x \in b.contacts : x.id # d.id
    /\ \A i \in 1..Len(b.replacements) : b.replacements[i].id # d.id
    /\ Cardinality(b.contacts) >= K
    /\ \A x \in b.contacts : State(x) # "BAD"
    /\ ~ Covers(b, LocalId)

\* Some of those that wait, one less than the limit.
SomeWait(b, ws) ==
    /\ ws \in Seq(Contact) /\ Len(ws) < K
    /\ \A i \in 1..Len(ws) : \E j \in 1..Len(b.replacements) : ws[i] = b.replacements[j]
    /\ \A i, j \in 1..Len(ws) : ws[i].id = ws[j].id => i = j

\* A newcomer waits behind others.
LEMMA WaitOK ==
    ASSUME NEW R, NEW b, BucketOK(b, R), NEW d, MustWait(b, d, R), NEW ws, SomeWait(b, ws)
    PROVE  BucketOK(With(b, b.contacts, Append(ws, d)), R)
<1> USE DEF MustWait, SomeWait
<1> DEFINE cs == b.contacts
           rs == Append(ws, d)
<1>1. b \in Bucket /\ Limited(b) /\ Placed(b, R) /\ Single(b)
  BY DEF BucketOK
<1>2. cs \in SUBSET Contact /\ IsFiniteSet(cs) /\ Cardinality(cs) <= K
  BY <1>1 DEF Bucket, Limited
<1>3. Cardinality(cs) = K
  BY <1>2, FS_CardinalityType, Spaces
<1>4. Len(ws) \in Nat
  BY LenProperties
<1>5. /\ rs \in Seq(Contact) /\ Len(rs) = Len(ws) + 1
      /\ \A i \in 1..Len(ws) : rs[i] = ws[i]
      /\ rs[Len(ws) + 1] = d
  BY AppendProperties
<1> HIDE DEF rs
<1>6. Len(rs) <= K
  BY <1>4, <1>5, Spaces
<1>7. \A i \in 1..Len(rs) :
        \/ \E j \in 1..Len(b.replacements) : rs[i] = b.replacements[j]
        \/ (i = Len(ws) + 1 /\ rs[i] = d)
  BY <1>4, <1>5
<1>8. \A i \in 1..Len(rs) : Covers(b, rs[i].id) /\ Sent(rs[i], R) /\ Fresh(rs[i])
  BY <1>1, <1>7 DEF Placed
<1>9. ASSUME NEW x \in cs, NEW i \in 1..Len(rs) PROVE x.id # rs[i].id
  <2>1. CASE \E j \in 1..Len(b.replacements) : rs[i] = b.replacements[j]
    BY <1>1, <2>1 DEF Single
  <2>2. CASE rs[i] = d
    BY <2>2
  <2> QED  BY <1>7, <2>1, <2>2
<1>10. ASSUME NEW i \in 1..Len(rs), NEW j \in 1..Len(rs), rs[i].id = rs[j].id
       PROVE  i = j
  <2>1. CASE i \in 1..Len(ws) /\ j \in 1..Len(ws)
    BY <1>5, <1>10, <2>1
  <2>2. ASSUME NEW x \in 1..Len(ws)
        PROVE  rs[x].id # d.id
    BY <1>5, <2>2
  <2>3. \A x \in 1..Len(rs) : x \in 1..Len(ws) \/ (x = Len(ws) + 1 /\ rs[x] = d)
    BY <1>4, <1>5
  <2> QED  BY <1>10, <2>1, <2>2, <2>3
<1>11. \A x \in cs : Covers(b, x.id) /\ Sent(x, R)
  BY <1>1 DEF Placed
<1>12. \A x, y \in cs : x.id = y.id => x = y
  BY <1>1 DEF Single
<1>13. BucketOK(With(b, cs, rs), R)
  BY <1>2, <1>3, <1>5, <1>6, <1>8, <1>9, <1>10, <1>11, <1>12, ChangedOK
<1> QED  BY <1>13 DEF rs

\* A newcomer takes the place of a BAD contact: nobody waits.
LEMMA EvictOK ==
    ASSUME NEW R, NEW b, BucketOK(b, R), NEW c \in b.contacts, State(c) = "BAD",
           NEW d \in Contact, Covers(b, d.id), Sent(d, R), \A x \in b.contacts : x.id # d.id
    PROVE  BucketOK(With(b, (b.contacts \ {c}) \cup {d}, b.replacements), R)
<1> DEFINE rs == b.replacements
<1>1. rs = <<>>
  BY DEF BucketOK, Full
<1>2. rs \in Seq(Contact) /\ Len(rs) = 0
  BY <1>1, EmptySeq
<1>3. StillWait(b, d, rs)
  BY <1>1, <1>2 DEF StillWait
<1>4. Fits(b, c, d, R)
  BY DEF Fits
<1> HIDE DEF rs
<1>5. BucketOK(With(b, (b.contacts \ {c}) \cup {d}, rs), R)
  BY <1>3, <1>4, SwapOK
<1> QED  BY <1>5 DEF rs

\* A newcomer waits, and the oldest one goes if there are K already.
LEMMA QueueOK ==
    ASSUME NEW R, NEW b, BucketOK(b, R), NEW d, MustWait(b, d, R),
           NEW ws, ws = IF Len(b.replacements) >= K THEN Tail(b.replacements)
                                                    ELSE b.replacements
    PROVE  BucketOK(With(b, b.contacts, Append(ws, d)), R)
<1> DEFINE rs == b.replacements
<1>1. rs \in Seq(Contact) /\ Len(rs) <= K
  BY DEF BucketOK, Bucket, Limited
<1>2. Len(rs) \in Nat
  BY <1>1, LenProperties
<1>3. CASE Len(rs) >= K
  <2>1. ws = Tail(rs) /\ rs # <<>>
    BY <1>2, <1>3, Spaces, EmptySeq
  <2>2. /\ ws \in Seq(Contact) /\ Len(ws) = Len(rs) - 1
        /\ \A i \in 1..Len(ws) : ws[i] = rs[i + 1]
    BY <1>1, <2>1, HeadTailProperties
  <2>3. Len(ws) < K
    BY <1>1, <1>2, <2>2, Spaces
  <2>4. \A i \in 1..Len(ws) : i + 1 \in 1..Len(rs) /\ ws[i] = rs[i + 1]
    BY <1>2, <2>2
  <2>5. \A i \in 1..Len(ws) : \E j \in 1..Len(b.replacements) : ws[i] = b.replacements[j]
    BY <2>4
  <2>6. ASSUME NEW i \in 1..Len(ws), NEW j \in 1..Len(ws), ws[i].id = ws[j].id
        PROVE  i = j
    <3>1. i + 1 = j + 1
      BY <2>4, <2>6 DEF BucketOK, Single
    <3> QED  BY <3>1
  <2>7. SomeWait(b, ws)
    BY <2>2, <2>3, <2>5, <2>6 DEF SomeWait
  <2> QED  BY <2>7, WaitOK
<1>4. CASE ~ (Len(rs) >= K)
  <2>1. ws = rs /\ Len(ws) < K /\ ws \in Seq(Contact)
    BY <1>1, <1>2, <1>4, Spaces
  <2>2. \A i \in 1..Len(ws) : \E j \in 1..Len(b.replacements) : ws[i] = b.replacements[j]
    BY <2>1
  <2>3. \A i, j \in 1..Len(ws) : ws[i].id = ws[j].id => i = j
    BY <2>1 DEF BucketOK, Single
  <2>4. SomeWait(b, ws)
    BY <2>1, <2>2, <2>3 DEF SomeWait
  <2> QED  BY <2>4, WaitOK
<1> QED  BY <1>3, <1>4

-----------------------------------------------------------------------------
(* observe() *)

\* Whom a bucket with new lists still has.
LEMMA Remain ==
    ASSUME NEW R, NEW t, TableOK(t, R), NEW b \in t, NEW cs, NEW rs
    PROVE  /\ cs \subseteq Members(Replace(t, b, cs, rs))
           /\ \A x \in Members(t) :
                 x \in Members(Replace(t, b, cs, rs)) \/ (x \in b.contacts /\ x \notin cs)
<1> DEFINE n == With(b, cs, rs)
<1>1. n.contacts = cs
  BY DEF TableOK, BucketOK, Bucket, With
<1>2. Replace(t, b, cs, rs) = (t \ {b}) \cup {n}
  BY DEF Replace, With
<1> HIDE DEF n
<1> QED  BY <1>1, <1>2 DEF Members

\* A newcomer is a contact as it should be, that has not failed.
LEMMA CandidateOK ==
    ASSUME NEW R, NEW id, NEW ep, <<id, ep>> \in Senders, id # LocalId, NEW kind \in Kinds,
           kind = "response" => <<id, ep>> \in R
    PROVE  /\ Candidate(id, ep, kind) \in Contact
           /\ Candidate(id, ep, kind).id = id
           /\ Fresh(Candidate(id, ep, kind))
           /\ Sent(Candidate(id, ep, kind), R)
<1> DEFINE d == Candidate(id, ep, kind)
<1>1. id \in Nodes \ {LocalId} /\ ep \in Endpoints
  BY RoutingAssumption
<1>2. /\ d.id = id /\ d.ep = ep /\ Fresh(d)
      /\ d.response = (IF kind = "response" THEN "recent" ELSE "never")
  BY DEF Candidate, Fresh
<1>3. d \in Contact
  <2>1. (kind = "query") \in BOOLEAN /\ FALSE \in BOOLEAN
    OBVIOUS
  <2>2. (IF kind = "response" THEN "recent" ELSE "never") \in {"never", "old", "recent"}
    OBVIOUS
  <2>3. 0 \in 0..BadAfter
    BY Spaces
  <2> QED  BY <1>1, <2>1, <2>2, <2>3 DEF Candidate, Contact
<1> HIDE DEF d
<1>4. Sent(d, R)
  BY <1>2 DEF Sent
<1> QED  BY <1>2, <1>3, <1>4 DEF d

\* A new candidate gets into its bucket: into room, for a BAD contact, or behind
\* others that wait.
LEMMA InsertOK ==
    ASSUME NEW R, NEW t, TableOK(t, R), NEW id \in Ids, ~ MustSplit(t, id),
           \A x \in Members(t) : x.id # id,
           NEW d \in Contact, d.id = id, Fresh(d), Sent(d, R),
           Insert(t, id, d)
    PROVE  /\ TableOK(buckets', R)
           /\ \A x \in Members(t) : State(x) = "BAD" \/ x \in Members(buckets')
<1> DEFINE b == Home(t, id)
           bad == {c \in b.contacts : State(c) = "BAD"}
           waiting == IF Len(b.replacements) >= K THEN Tail(b.replacements)
                                                  ELSE b.replacements
<1>1. b \in t /\ Covers(b, id) /\ BucketOK(b, R)
  BY HomeIs DEF TableOK
<1>2. \/ /\ Cardinality(b.contacts) < K
         /\ buckets' = Replace(t, b, b.contacts \cup {d}, b.replacements)
      \/ /\ Cardinality(b.contacts) >= K
         /\ \E c \in bad :
               buckets' = Replace(t, b, (b.contacts \ {c}) \cup {d}, b.replacements)
      \/ /\ Cardinality(b.contacts) >= K /\ bad = {}
         /\ buckets' = IF \E c \in Cached(b) : c.id = id THEN t
                       ELSE Replace(t, b, b.contacts, Append(waiting, d))
  BY DEF Insert
<1>3. Cardinality(b.contacts) >= K => ~ Covers(b, LocalId)
  BY DEF MustSplit
<1> HIDE DEF b, waiting
<1>4. Covers(b, d.id) /\ \A x \in b.contacts : x.id # d.id
  BY <1>1 DEF Members
<1>5. b.replacements \in Seq(Contact) /\ Full(b)
  BY <1>1 DEF BucketOK, Bucket
<1>6. CASE Cardinality(b.contacts) < K /\
           buckets' = Replace(t, b, b.contacts \cup {d}, b.replacements)
  <2>1. BucketOK(With(b, b.contacts \cup {d}, b.replacements), R)
    BY <1>1, <1>4, <1>6, RoomOK
  <2>2. TableOK(buckets', R)
    BY <1>1, <1>6, <2>1, ReplaceOK
  <2>3. \A x \in Members(t) : x \in Members(buckets')
    BY <1>1, <1>6, Remain
  <2> QED  BY <2>2, <2>3
<1>7. ASSUME NEW c \in bad,
             buckets' = Replace(t, b, (b.contacts \ {c}) \cup {d}, b.replacements)
      PROVE  /\ TableOK(buckets', R)
             /\ \A x \in Members(t) : State(x) = "BAD" \/ x \in Members(buckets')
  <2>1. c \in b.contacts /\ State(c) = "BAD"
    BY <1>7
  <2>2. BucketOK(With(b, (b.contacts \ {c}) \cup {d}, b.replacements), R)
    BY <1>1, <1>4, <2>1, EvictOK
  <2>3. TableOK(buckets', R)
    BY <1>1, <1>7, <2>2, ReplaceOK
  <2>4. \A x \in Members(t) : x = c \/ x \in Members(buckets')
    BY <1>1, <1>7, Remain
  <2> QED  BY <2>1, <2>3, <2>4
<1>8. CASE /\ Cardinality(b.contacts) >= K /\ bad = {}
           /\ ~ \E c \in Cached(b) : c.id = id
           /\ buckets' = Replace(t, b, b.contacts, Append(waiting, d))
  <2> DEFINE rs == b.replacements
  <2>1. \A i \in 1..Len(rs) : rs[i].id # d.id
    <3>1. \A i \in 1..Len(rs) : rs[i] \in Cached(b)
      BY <1>5, LenProperties DEF Cached, ToSet
    <3> QED  BY <1>8, <3>1
  <2>2. \A x \in b.contacts : State(x) # "BAD"
    BY <1>8
  <2>3. ~ Covers(b, LocalId) /\ Cardinality(b.contacts) >= K
    BY <1>3, <1>8
  <2>4. BucketOK(With(b, b.contacts, Append(waiting, d)), R)
    <3>1. MustWait(b, d, R)
      BY <1>4, <2>1, <2>2, <2>3 DEF MustWait
    <3> QED  BY <1>1, <3>1, QueueOK DEF waiting
  <2>5. TableOK(buckets', R)
    BY <1>1, <1>8, <2>4, ReplaceOK
  <2>6. \A x \in Members(t) : x \in Members(buckets')
    BY <1>1, <1>8, Remain
  <2> QED  BY <2>5, <2>6
<1>9. CASE buckets' = t
  BY <1>9
<1> QED  BY <1>2, <1>6, <1>7, <1>8, <1>9

\* A contact that is observed stays what it is, though it may move.
LEMMA ObserveKnownOK ==
    ASSUME NEW R, TableOK(buckets, R), NEW id \in Ids, NEW ep, <<id, ep>> \in Senders,
           NEW kind \in Kinds, NEW ro \in BOOLEAN, kind = "response" => <<id, ep>> \in R,
           ObserveKnown(id, ep, kind, ro)
    PROVE  /\ TableOK(buckets', R)
           /\ \A x \in Contacts : \E y \in Contacts' : y.id = x.id
<1> DEFINE b == Home(buckets, id)
<1>1. b \in buckets /\ Covers(b, id) /\ BucketOK(b, R)
  BY HomeIs DEF TableOK
<1>2. PICK c \in b.contacts :
        /\ c.id = id
        /\ buckets' = Replace(buckets, b,
                              (b.contacts \ {c}) \cup {Refreshed(c, ep, kind, ro)},
                              b.replacements)
  BY DEF ObserveKnown
<1> DEFINE d == Refreshed(c, ep, kind, ro)
<1> HIDE DEF b
<1>3. c \in Contact /\ Sent(c, R) /\ b.replacements \in Seq(Contact)
  BY <1>1 DEF BucketOK, Bucket, Placed
<1>4. /\ c.id \in Nodes \ {LocalId} /\ c.ep \in Endpoints
      /\ c.response \in {"never", "old", "recent"} /\ c.failures \in 0..BadAfter
      /\ c.queried \in BOOLEAN
  BY <1>3 DEF Contact
<1>5. /\ d.id = id
      /\ d.ep = (IF kind = "response" THEN ep ELSE c.ep)
      /\ d.response = (IF kind = "response" THEN "recent" ELSE c.response)
      /\ d.failures = (IF kind = "response" THEN 0 ELSE c.failures)
  BY <1>2, <1>3 DEF Refreshed, Contact
<1>6. d \in Contact
  <2>1. ep \in Endpoints
    BY RoutingAssumption
  <2>2. (c.queried \/ kind = "query") \in BOOLEAN
    OBVIOUS
  <2>3. 0 \in 0..BadAfter
    BY Spaces
  <2>4. CASE kind = "response"
    <3>1. d = [c EXCEPT !.ep = ep, !.response = "recent", !.failures = 0,
                        !.queried = c.queried \/ kind = "query", !.read_only = ro]
      BY <1>3, <2>4 DEF Refreshed
    <3> DEFINE q == c.queried \/ kind = "query"
    <3> HIDE DEF q, d
    <3>2. d = [c EXCEPT !.ep = ep, !.response = "recent", !.failures = 0,
                        !.queried = q, !.read_only = ro] /\ q \in BOOLEAN
      BY <3>1, <2>2 DEF q
    <3> QED  BY <1>3, <1>4, <2>1, <2>3, <3>2 DEF Contact
  <2>5. CASE kind # "response"
    <3>1. d = [c EXCEPT !.queried = c.queried \/ kind = "query", !.read_only = ro]
      BY <1>3, <2>5 DEF Refreshed, Contact
    <3> DEFINE q == c.queried \/ kind = "query"
    <3> HIDE DEF q, d
    <3>2. d = [c EXCEPT !.queried = q, !.read_only = ro] /\ q \in BOOLEAN
      BY <3>1, <2>2 DEF q
    <3> QED  BY <1>3, <1>4, <3>2 DEF Contact
  <2> QED  BY <2>4, <2>5
<1> HIDE DEF d
<1>7. Sent(d, R)
  BY <1>2, <1>3, <1>5 DEF Sent
<1>8. State(c) # "BAD" => State(d) # "BAD"
  BY <1>4, <1>5, BadIs, Spaces
<1>9. Single(b) /\ Full(b)
  BY <1>1 DEF BucketOK
<1>10. Len(b.replacements) \in Nat
  BY <1>3, LenProperties
<1>11. \A i \in 1..Len(b.replacements) : b.replacements[i].id # d.id
  BY <1>2, <1>5, <1>9 DEF Single
<1>12. \A x \in b.contacts : x.id = d.id => x = c
  BY <1>2, <1>5, <1>9 DEF Single
<1>13. b.replacements # <<>> => State(d) # "BAD"
  BY <1>8, <1>9 DEF Full
<1>14. BucketOK(With(b, (b.contacts \ {c}) \cup {d}, b.replacements), R)
  <2>1. Covers(b, d.id)
    BY <1>1, <1>5
  <2>2. StillWait(b, d, b.replacements)
    BY <1>3, <1>10, <1>11, <1>13 DEF StillWait
  <2>3. Fits(b, c, d, R)
    BY <1>6, <1>7, <1>12, <2>1 DEF Fits
  <2> QED  BY <1>1, <2>2, <2>3, SwapOK
<1>15. buckets' = Replace(buckets, b, (b.contacts \ {c}) \cup {d}, b.replacements)
  BY <1>2 DEF d
<1>16. TableOK(buckets', R)
  BY <1>1, <1>14, <1>15, ReplaceOK
<1>17. d \in Members(buckets') /\ \A x \in Members(buckets) : x \in Members(buckets') \/ x = c
  BY <1>1, <1>15, Remain
<1> QED  BY <1>2, <1>5, <1>16, <1>17 DEF Contacts, Members

\* observe() as a whole.  Whoever is lost was BAD.
LEMMA ObserveOK ==
    ASSUME NEW R, TableOK(buckets, R), NEW id, NEW ep, <<id, ep>> \in Senders,
           NEW kind \in Kinds, NEW ro \in BOOLEAN, kind = "response" => <<id, ep>> \in R,
           Observe(id, ep, kind, ro)
    PROVE  /\ TableOK(buckets', R)
           /\ \A x \in Contacts : State(x) = "BAD" \/ \E y \in Contacts' : y.id = x.id
<1>1. id \in Ids
  BY RoutingAssumption
<1>2. CASE UNCHANGED buckets
  <2>1. Contacts' = Contacts
    BY <1>2 DEF Contacts
  <2> QED  BY <1>2, <2>1
<1>3. CASE ObserveKnown(id, ep, kind, ro)
  BY <1>1, <1>3, ObserveKnownOK
<1>4. CASE /\ id # LocalId /\ ~ Known(Home(buckets, id), id)
           /\ Insert(Roomy(id), id, Candidate(id, ep, kind))
  <2> DEFINE t == Roomy(id)
             d == Candidate(id, ep, kind)
  <2>1. TableOK(t, R) /\ Members(t) = Members(buckets) /\ ~ MustSplit(t, id)
    BY <1>1, RoomyOK
  <2>2. d \in Contact /\ d.id = id /\ Fresh(d) /\ Sent(d, R)
    BY <1>4, CandidateOK
  <2>3. \A x \in Members(buckets) : x.id # id
    <3> SUFFICES ASSUME NEW b \in buckets, NEW x \in b.contacts, x.id = id
                 PROVE  FALSE
      BY DEF Members
    <3>1. Covers(b, id)
      BY DEF TableOK, BucketOK, Placed
    <3>2. b = Home(buckets, id)
      BY <1>1, <3>1, HomeIs
    <3> QED  BY <1>4, <3>2 DEF Known
  <2>4. Insert(t, id, d)
    BY <1>4
  <2> HIDE DEF t, d
  <2>5. /\ TableOK(buckets', R)
        /\ \A x \in Members(t) : State(x) = "BAD" \/ x \in Members(buckets')
    BY <1>1, <2>1, <2>2, <2>3, <2>4, InsertOK
  <2> QED  BY <2>1, <2>5 DEF Contacts, Members
<1> QED  BY <1>2, <1>3, <1>4 DEF Observe

-----------------------------------------------------------------------------
(* Failures and time *)

\* A contact that has failed stays, or, if that made it BAD, gives way to the newest
\* of those that wait.
LEMMA AfterFailureOK ==
    ASSUME NEW R, TableOK(buckets, R), NEW b \in buckets, NEW c \in b.contacts, NEW failed,
           failed = [c EXCEPT !.failures = IF @ < BadAfter THEN @ + 1 ELSE @]
    PROVE  /\ TableOK(AfterFailure(b, c, failed), R)
           /\ \A x \in Members(buckets) :
                 \/ \E y \in Members(AfterFailure(b, c, failed)) : y.id = x.id
                 \/ (x = c /\ c.failures + 1 >= BadAfter)
<1> DEFINE rs == b.replacements
<1>1. BucketOK(b, R) /\ b \in Bucket /\ Placed(b, R) /\ Single(b) /\ Full(b)
  BY DEF TableOK, BucketOK
<1>2. c \in Contact /\ Covers(b, c.id) /\ Sent(c, R) /\ rs \in Seq(Contact)
  BY <1>1 DEF Bucket, Placed
<1>3. c.failures \in 0..BadAfter
  BY <1>2 DEF Contact
<1>4. /\ failed.id = c.id /\ failed.ep = c.ep /\ failed.response = c.response
      /\ failed.failures = (IF c.failures < BadAfter THEN c.failures + 1 ELSE c.failures)
  BY <1>2 DEF Contact
<1>5. failed.failures \in 0..BadAfter /\ failed.failures <= c.failures + 1
  BY <1>3, <1>4, Spaces
<1>6. failed \in Contact
  <2> DEFINE f == failed.failures
  <2>1. failed = [c EXCEPT !.failures = f]
    BY <1>2, <1>4 DEF Contact
  <2> HIDE DEF f
  <2>2. f \in 0..BadAfter
    BY <1>5 DEF f
  <2> QED  BY <1>2, <2>1, <2>2 DEF Contact
<1>7. Len(rs) \in Nat /\ (rs # <<>> => Len(rs) >= 1)
  BY <1>2, LenProperties, EmptySeq
<1>8. CASE State(failed) = "BAD" /\ rs # <<>>
  <2> DEFINE n == Len(rs)
             d == rs[n]
             front == SubSeq(rs, 1, n - 1)
  <2>1. n \in 1..Len(rs) /\ n - 1 \in Int /\ 1 \in Int
    BY <1>7, <1>8
  <2>2. Last(rs) = d /\ Front(rs) = front
    BY DEF Last, Front
  <2>3. d \in Contact /\ Covers(b, d.id) /\ Sent(d, R) /\ Fresh(d)
    BY <1>1, <1>2, <2>1, ElementOfSeq DEF Placed
  <2>4. \A i \in 1..(n - 1) : rs[i] \in Contact /\ i \in 1..Len(rs)
    BY <1>2, <1>7, ElementOfSeq
  <2>5. /\ front \in Seq(Contact)
        /\ Len(front) = (IF 1 <= n - 1 THEN (n - 1) - 1 + 1 ELSE 0)
        /\ \A i \in 1..((n - 1) - 1 + 1) : front[i] = rs[1 + i - 1]
    <3> HIDE DEF n
    <3> QED  BY <2>1, <2>4, SubSeqProperties
  <2>6. Len(front) = n - 1 /\ \A i \in 1..(n - 1) : front[i] = rs[i]
    BY <1>7, <2>1, <2>5
  <2>7. \A i \in 1..(n - 1) : rs[i].id # d.id
    BY <1>1, <1>7, <2>1, <2>4 DEF Single
  <2>8. State(d) # "BAD"
    BY <2>3, BadIs, Spaces DEF Fresh
  <2>9. Len(front) <= Len(b.replacements)
    BY <1>7, <2>6
  <2>10. \A x \in b.contacts : x.id # d.id
    BY <1>1, <2>1 DEF Single
  <2> HIDE DEF d, front, n
  <2>11. StillWait(b, d, front)
    BY <2>5, <2>6, <2>7, <2>8, <2>9 DEF StillWait
  <2>12. Fits(b, c, d, R)
    BY <2>3, <2>10 DEF Fits
  <2>13. BucketOK(With(b, (b.contacts \ {c}) \cup {d}, front), R)
    BY <1>1, <2>11, <2>12, SwapOK
  <2>14. AfterFailure(b, c, failed) = Replace(buckets, b, (b.contacts \ {c}) \cup {d}, front)
    BY <1>8, <2>2 DEF AfterFailure
  <2>15. TableOK(AfterFailure(b, c, failed), R)
    BY <2>13, <2>14, ReplaceOK
  <2>16. c.failures + 1 >= BadAfter
    <3>1. failed.failures >= BadAfter
      BY <1>8, BadIs
    <3> QED  BY <1>3, <1>5, <3>1, Spaces
  <2>17. \A x \in Members(buckets) : x \in Members(AfterFailure(b, c, failed)) \/ x = c
    BY <2>14, Remain
  <2> QED  BY <2>15, <2>16, <2>17
<1>9. CASE ~ (State(failed) = "BAD" /\ rs # <<>>)
  <2>1. AfterFailure(b, c, failed)
          = Replace(buckets, b, (b.contacts \ {c}) \cup {failed}, rs)
    BY <1>9 DEF AfterFailure
  <2>2. Covers(b, failed.id) /\ Sent(failed, R)
    BY <1>2, <1>4 DEF Sent
  <2>3. \A x \in b.contacts : x.id = failed.id => x = c
    BY <1>1, <1>4 DEF Single
  <2>4. \A i \in 1..Len(rs) : rs[i].id # failed.id
    BY <1>1, <1>4 DEF Single
  <2>5. StillWait(b, failed, rs)
    BY <1>2, <1>7, <1>9, <2>4 DEF StillWait
  <2>6. Fits(b, c, failed, R)
    BY <1>6, <2>2, <2>3 DEF Fits
  <2>7. BucketOK(With(b, (b.contacts \ {c}) \cup {failed}, rs), R)
    BY <1>1, <2>5, <2>6, SwapOK
  <2>8. TableOK(AfterFailure(b, c, failed), R)
    BY <2>1, <2>7, ReplaceOK
  <2>9. /\ failed \in Members(AfterFailure(b, c, failed))
        /\ \A x \in Members(buckets) : x \in Members(AfterFailure(b, c, failed)) \/ x = c
    BY <2>1, Remain
  <2> QED  BY <1>4, <2>8, <2>9
<1> QED  BY <1>8, <1>9

\* Time changes neither the ID nor the failures of a contact, and makes nobody
\* one who has answered.
LEMMA AgedIs ==
    ASSUME NEW R, NEW c \in Contact, Sent(c, R), NEW old \in Aged(c)
    PROVE  /\ old \in Contact /\ Sent(old, R)
           /\ old.id = c.id /\ old.ep = c.ep /\ old.failures = c.failures
<1>1. /\ c.id \in Nodes \ {LocalId} /\ c.ep \in Endpoints
      /\ c.response \in {"never", "old", "recent"} /\ FALSE \in BOOLEAN
  BY DEF Contact
<1>2. CASE old = [c EXCEPT !.response = IF @ = "recent" THEN "old" ELSE @]
  <2> DEFINE r == IF c.response = "recent" THEN "old" ELSE c.response
  <2>1. r \in {"never", "old", "recent"} /\ (r # "never" => c.response # "never")
    BY <1>1
  <2>2. old = [c EXCEPT !.response = r]
    BY <1>2 DEF Contact
  <2> HIDE DEF r
  <2>3. /\ old \in Contact /\ old.id = c.id /\ old.ep = c.ep
        /\ old.response = r /\ old.failures = c.failures
    BY <2>1, <2>2 DEF Contact
  <2> QED  BY <2>1, <2>3 DEF Sent
<1>3. CASE old = [c EXCEPT !.queried = FALSE]
  <2>1. /\ old \in Contact /\ old.id = c.id /\ old.ep = c.ep
        /\ old.response = c.response /\ old.failures = c.failures
    BY <1>1, <1>3 DEF Contact
  <2> QED  BY <2>1 DEF Sent
<1> QED  BY <1>2, <1>3 DEF Aged

\* A contact grows older, or one that waits does.
LEMMA AgeOK ==
    ASSUME NEW R, TableOK(buckets, R), Age
    PROVE  /\ TableOK(buckets', R)
           /\ \A x \in Contacts : \E y \in Contacts' : y.id = x.id
<1>1. PICK b \in buckets :
        \/ \E c \in b.contacts : \E old \in Aged(c) :
              buckets' = Replace(buckets, b, (b.contacts \ {c}) \cup {old}, b.replacements)
        \/ \E i \in 1..Len(b.replacements) : \E old \in Aged(b.replacements[i]) :
              buckets' = Replace(buckets, b, b.contacts, [b.replacements EXCEPT ![i] = old])
  BY DEF Age
<1> DEFINE rs == b.replacements
<1>2. BucketOK(b, R) /\ b \in Bucket /\ Limited(b) /\ Placed(b, R) /\ Single(b) /\ Full(b)
  BY DEF TableOK, BucketOK
<1>3. rs \in Seq(Contact) /\ b.contacts \in SUBSET Contact
  BY <1>2 DEF Bucket
<1>4. Len(rs) \in Nat /\ Len(rs) <= K
  BY <1>2, <1>3, LenProperties DEF Limited
<1>5. ASSUME NEW c \in b.contacts, NEW old \in Aged(c),
             buckets' = Replace(buckets, b, (b.contacts \ {c}) \cup {old}, rs)
      PROVE  /\ TableOK(buckets', R)
             /\ \A x \in Members(buckets) : \E y \in Members(buckets') : y.id = x.id
  <2>1. c \in Contact /\ Covers(b, c.id) /\ Sent(c, R)
    BY <1>2, <1>3 DEF Placed
  <2>2. /\ old \in Contact /\ Sent(old, R)
        /\ old.id = c.id /\ old.failures = c.failures
    BY <2>1, AgedIs
  <2>3. \A x \in b.contacts : x.id = old.id => x = c
    BY <1>2, <2>2 DEF Single
  <2>4. \A i \in 1..Len(rs) : rs[i].id # old.id
    BY <1>2, <2>2 DEF Single
  <2>5. rs # <<>> => State(old) # "BAD"
    BY <1>2, <2>2, BadIs DEF Full
  <2>6. StillWait(b, old, rs)
    BY <1>3, <1>4, <2>4, <2>5 DEF StillWait
  <2>7. Fits(b, c, old, R)
    BY <2>1, <2>2, <2>3 DEF Fits
  <2>8. BucketOK(With(b, (b.contacts \ {c}) \cup {old}, rs), R)
    BY <1>2, <2>6, <2>7, SwapOK
  <2>9. TableOK(buckets', R)
    BY <1>5, <2>8, ReplaceOK
  <2>10. /\ old \in Members(buckets')
         /\ \A x \in Members(buckets) : x \in Members(buckets') \/ x = c
    BY <1>5, Remain
  <2> QED  BY <2>2, <2>9, <2>10
<1>6. ASSUME NEW i \in 1..Len(rs), NEW old \in Aged(rs[i]),
             buckets' = Replace(buckets, b, b.contacts, [rs EXCEPT ![i] = old])
      PROVE  /\ TableOK(buckets', R)
             /\ \A x \in Members(buckets) : \E y \in Members(buckets') : y.id = x.id
  <2> DEFINE cs == b.contacts
             ns == [rs EXCEPT ![i] = old]
  <2>1. rs[i] \in Contact /\ Covers(b, rs[i].id) /\ Sent(rs[i], R) /\ Fresh(rs[i])
    BY <1>2, <1>3, ElementOfSeq DEF Placed
  <2>2. /\ old \in Contact /\ Sent(old, R)
        /\ old.id = rs[i].id /\ old.failures = rs[i].failures
    BY <2>1, AgedIs
  <2>3. /\ ns \in Seq(Contact) /\ Len(ns) = Len(rs)
        /\ \A j \in 1..Len(rs) : ns[j] = (IF j = i THEN old ELSE rs[j])
    BY <1>3, <2>2, ExceptSeq
  <2>4. Covers(b, old.id) /\ Fresh(old)
    BY <2>1, <2>2 DEF Fresh
  <2> HIDE DEF ns
  <2>5. \A j \in 1..Len(ns) : ns[j].id = rs[j].id
    BY <2>2, <2>3
  <2>6. \A j \in 1..Len(ns) : Covers(b, ns[j].id) /\ Sent(ns[j], R) /\ Fresh(ns[j])
    BY <1>2, <2>2, <2>3, <2>4 DEF Placed
  <2>7. \A x \in cs, j \in 1..Len(ns) : x.id # ns[j].id
    BY <1>2, <2>3, <2>5 DEF Single
  <2>8. \A j, k \in 1..Len(ns) : ns[j].id = ns[k].id => j = k
    BY <1>2, <2>3, <2>5 DEF Single
  <2>9. rs # <<>>
    BY <1>4
  <2>10. /\ Cardinality(cs) = K
         /\ \A x \in cs : State(x) # "BAD"
         /\ ~ Covers(b, LocalId)
    BY <1>2, <2>9 DEF Full
  <2>11. /\ cs \in SUBSET Contact /\ IsFiniteSet(cs) /\ Cardinality(cs) <= K
         /\ Len(ns) <= K
         /\ \A x \in cs : Covers(b, x.id) /\ Sent(x, R)
         /\ \A x, y \in cs : x.id = y.id => x = y
    BY <1>2, <1>3, <1>4, <2>3 DEF Limited, Placed, Single
  <2> HIDE DEF cs
  <2>12. BucketOK(With(b, cs, ns), R)
    BY <1>2, <2>3, <2>6, <2>7, <2>8, <2>10, <2>11, ChangedOK
  <2>13. TableOK(buckets', R)
    BY <1>6, <2>12, ReplaceOK DEF cs, ns
  <2>14. \A x \in Members(buckets) : x \in Members(buckets')
    BY <1>6, Remain
  <2> QED  BY <2>13, <2>14
<1> QED  BY <1>1, <1>5, <1>6 DEF Contacts, Members

\* A timeout as a whole: whoever is lost had failed often enough.
LEMMA MarkFailureOK ==
    ASSUME NEW R, TableOK(buckets, R), NEW id \in Nodes, MarkFailure(id)
    PROVE  /\ TableOK(buckets', R)
           /\ \A x \in Contacts : \/ \E y \in Contacts' : y.id = x.id
                                  \/ (x.failures + 1 >= BadAfter /\ MarkFailure(x.id))
<1> DEFINE b == Home(buckets, id)
<1>1. id \in Ids
  BY RoutingAssumption
<1>2. b \in buckets
  BY <1>1, HomeIs
<1> HIDE DEF b
<1>3. PICK c \in b.contacts :
        /\ c.id = id
        /\ buckets' = AfterFailure(b, c,
                        [c EXCEPT !.failures = IF @ < BadAfter THEN @ + 1 ELSE @])
  BY DEF MarkFailure, b
<1> DEFINE failed == [c EXCEPT !.failures = IF @ < BadAfter THEN @ + 1 ELSE @]
<1>4. PICK f : f = failed
  OBVIOUS
<1>5. buckets' = AfterFailure(b, c, f)
  BY <1>3, <1>4
<1>6. /\ TableOK(buckets', R)
      /\ \A x \in Members(buckets) : \/ \E y \in Members(buckets') : y.id = x.id
                                     \/ (x = c /\ c.failures + 1 >= BadAfter)
  BY <1>2, <1>4, <1>5, AfterFailureOK
<1>7. MarkFailure(c.id)
  BY <1>3
<1> QED  BY <1>6, <1>7 DEF Contacts, Members

-----------------------------------------------------------------------------
(* The invariant *)

\* The answers of nodes that have left the table may be forgotten.
LEMMA StillPresentOK ==
    ASSUME NEW Q, TableOK(buckets', Q)
    PROVE  TableOK(buckets', StillPresent(Q)) /\ StillPresent(Q) \subseteq Q
<1> DEFINE P == StillPresent(Q)
<1>1. ASSUME NEW b \in buckets'
      PROVE  BucketOK(b, P)
  <2>1. BucketOK(b, Q) /\ Placed(b, Q) /\ b.replacements \in Seq(Contact)
    BY DEF TableOK, BucketOK, Bucket
  <2>2. ASSUME NEW c \in b.contacts \cup Cached(b), Sent(c, Q)
        PROVE  Sent(c, P)
    <3>1. c.id \in Present'
      BY DEF Present
    <3> QED  BY <2>2, <3>1 DEF Sent, StillPresent
  <2>3. \A i \in 1..Len(b.replacements) : b.replacements[i] \in Cached(b)
    BY <2>1, LenProperties DEF Cached, ToSet
  <2>4. Placed(b, P)
    BY <2>1, <2>2, <2>3 DEF Placed
  <2> QED  BY <2>1, <2>4 DEF BucketOK
<1>2. P \subseteq Q
  BY DEF StillPresent
<1> QED  BY <1>1, <1>2 DEF TableOK

\* A new process starts with one bucket for the whole ID space.
LEMMA NewTableOK == TableOK(NewTable, {})
<1> DEFINE b == [low |-> 0, high |-> Space, contacts |-> {}, replacements |-> <<>>]
<1>1. /\ b.low = 0 /\ b.high = Space /\ b.contacts = {} /\ b.replacements = <<>>
      /\ NewTable = {b}
  BY DEF NewTable
<1>2. b \in Bucket
  BY Spaces, EmptySeq DEF Bucket
<1> HIDE DEF b
<1>3. Len(b.replacements) = 0
  BY <1>1
<1>4. Near(b)
  BY <1>1, Spaces DEF Near
<1>5. Limited(b)
  BY <1>1, <1>3, FS_EmptySet, Spaces DEF Limited
<1>6. Placed(b, {}) /\ Single(b) /\ Full(b)
  BY <1>1, <1>3 DEF Placed, Single, Full
<1>7. \A id \in Ids : Covers(b, id)
  BY <1>1, Spaces DEF Covers
<1> QED  BY <1>1, <1>2, <1>4, <1>5, <1>6, <1>7 DEF TableOK, BucketOK

LEMMA Initial == Init => IInv
<1> SUFFICES ASSUME Init PROVE IInv
  OBVIOUS
<1>1. TableOK(buckets, responded)
  BY NewTableOK DEF Init
<1>2. restarts \in 0..MaxRestarts
  BY RoutingAssumption DEF Init
<1> QED  BY <1>1, <1>2 DEF Init, IInv

\* What a step does to the contacts: unless the process restarts, whoever is lost was
\* BAD, or its failure has made it BAD.
Kept ==
    restarts' = restarts =>
        \A c \in Contacts :
            \/ \E d \in Contacts' : d.id = c.id
            \/ State(c) = "BAD"
            \/ (c.failures + 1 >= BadAfter /\ MarkFailure(c.id))

LEMMA Step == IInv /\ [Next]_vars => IInv' /\ Kept
<1> SUFFICES ASSUME IInv, [Next]_vars PROVE IInv' /\ Kept
  OBVIOUS
<1>1. /\ TableOK(buckets, responded) /\ snapshot \subseteq Senders
      /\ restoring \subseteq snapshot /\ restarts \in 0..MaxRestarts
      /\ responded \subseteq Senders
  BY DEF IInv
<1>2. ASSUME NEW s \in Senders, NEW kind \in Kinds, NEW ro \in BOOLEAN,
             Hear(s[1], s[2], kind, ro)
      PROVE  IInv' /\ Kept
  <2> DEFINE id == s[1]
             ep == s[2]
             Q == IF kind = "response" THEN responded \cup {<<id, ep>>} ELSE responded
  <2>1. <<id, ep>> = s
    BY RoutingAssumption
  <2>2. /\ Observe(id, ep, kind, ro) /\ responded' = StillPresent(Q)
        /\ UNCHANGED <<snapshot, restoring, restarts>>
    BY <1>2 DEF Hear
  <2>3. responded \subseteq Q /\ Q \subseteq Senders /\ (kind = "response" => <<id, ep>> \in Q)
    BY <1>1, <2>1
  <2> HIDE DEF Q
  <2>4. TableOK(buckets, Q)
    BY <1>1, <2>3, MoreAnswers
  <2>5. <<id, ep>> \in Senders
    BY <2>1
  <2> HIDE DEF id, ep
  <2>6. /\ TableOK(buckets', Q)
        /\ \A x \in Contacts : State(x) = "BAD" \/ \E y \in Contacts' : y.id = x.id
    BY <2>2, <2>3, <2>4, <2>5, ObserveOK
  <2>7. TableOK(buckets', responded') /\ responded' \subseteq Q
    BY <2>2, <2>6, StillPresentOK
  <2> QED  BY <1>1, <2>2, <2>3, <2>6, <2>7 DEF IInv, Kept
<1>3. ASSUME NEW id \in Nodes, MarkFailure(id)
      PROVE  IInv' /\ Kept
  <2>1. /\ TableOK(buckets', responded)
        /\ \A x \in Contacts : \/ \E y \in Contacts' : y.id = x.id
                               \/ (x.failures + 1 >= BadAfter /\ MarkFailure(x.id))
    BY <1>1, <1>3, MarkFailureOK
  <2>2. responded' = StillPresent(responded) /\ UNCHANGED <<snapshot, restoring, restarts>>
    BY <1>3 DEF MarkFailure
  <2>3. TableOK(buckets', responded') /\ responded' \subseteq responded
    BY <2>1, <2>2, StillPresentOK
  <2> QED  BY <1>1, <2>1, <2>2, <2>3 DEF IInv, Kept
<1>4. CASE Age
  <2>1. /\ TableOK(buckets', responded)
        /\ \A x \in Contacts : \E y \in Contacts' : y.id = x.id
    BY <1>1, <1>4, AgeOK
  <2>2. UNCHANGED <<snapshot, restoring, restarts, responded>>
    BY <1>4 DEF Age
  <2> QED  BY <1>1, <2>1, <2>2 DEF IInv, Kept
<1>5. ASSUME NEW shutdown \in BOOLEAN, Restart(shutdown)
      PROVE  IInv' /\ Kept
  <2>1. /\ restarts < MaxRestarts /\ restarts' = restarts + 1
        /\ snapshot' = (IF shutdown THEN {<<c.id, c.ep>> : c \in Contacts} ELSE snapshot)
        /\ restoring' = snapshot' /\ buckets' = NewTable /\ responded' = {}
    BY <1>5 DEF Restart
  <2>2. \A c \in Contacts : <<c.id, c.ep>> \in Senders
    BY <1>1 DEF Contacts, TableOK, BucketOK, Placed, Sent
  <2>3. snapshot' \subseteq Senders
    BY <1>1, <2>1, <2>2
  <2>4. restarts' \in 0..MaxRestarts /\ restarts' # restarts
    BY <1>1, <2>1, RoutingAssumption
  <2>5. TableOK(buckets', responded')
    BY <2>1, NewTableOK
  <2>6. restoring' \subseteq snapshot' /\ responded' \subseteq Senders
    BY <2>1
  <2> QED  BY <2>3, <2>4, <2>5, <2>6 DEF IInv, Kept
<1>6. ASSUME NEW r \in restoring, RestoreContact(r)
      PROVE  IInv' /\ Kept
  <2>1. /\ Observe(r[1], r[2], "mention", FALSE)
        /\ restoring' = restoring \ {r} /\ UNCHANGED <<snapshot, restarts, responded>>
    BY <1>6 DEF RestoreContact
  <2>2. <<r[1], r[2]>> \in Senders
    BY <1>1, RoutingAssumption
  <2>3. "mention" \in Kinds /\ FALSE \in BOOLEAN
    BY DEF Kinds
  <2>4. /\ TableOK(buckets', responded)
        /\ \A x \in Contacts : State(x) = "BAD" \/ \E y \in Contacts' : y.id = x.id
    BY <1>1, <2>1, <2>2, <2>3, ObserveOK
  <2> QED  BY <1>1, <2>1, <2>4 DEF IInv, Kept
<1>7. CASE UNCHANGED vars
  <2>1. Contacts' = Contacts
    BY <1>7 DEF vars, Contacts
  <2> QED  BY <1>1, <1>7, <2>1 DEF vars, IInv, Kept
<1> QED  BY <1>2, <1>3, <1>4, <1>5, <1>6, <1>7 DEF Next

\* The invariant holds, whatever datagrams, timeouts and restarts come.
THEOREM Invariant == Spec => []IInv
<1> QED  BY Initial, Step, PTL DEF Spec

-----------------------------------------------------------------------------
(* What follows from it *)

\* The buckets always partition the ID space, with every node in the bucket of its
\* ID, and only buckets around the local ID have been split (_bucket_for and _split).
THEOREM BucketsPartitionCorrect == Spec => []BucketsPartition
<1>1. IInv => BucketsPartition
  <2> SUFFICES ASSUME IInv PROVE BucketsPartition
    OBVIOUS
  <2>1. TableOK(buckets, responded)
    BY DEF IInv
  <2>2. ASSUME NEW b \in buckets
        PROVE  /\ b.low \in Ids /\ b.high \in 1..Space /\ b.contacts \subseteq Contact
               /\ b.replacements \in Seq(Contact) /\ Len(b.replacements) <= K
               /\ Cardinality(b.contacts) <= K
               /\ \A c \in b.contacts \cup Cached(b) : Covers(b, c.id)
               /\ b.low <= LocalId + (b.high - b.low)
               /\ LocalId <= b.high + (b.high - b.low)
    <3>1. b \in Bucket /\ Near(b) /\ Limited(b) /\ Placed(b, responded)
      BY <2>1 DEF TableOK, BucketOK
    <3>2. b.replacements \in Seq(Contact)
      BY <3>1 DEF Bucket
    <3>3. \A c \in Cached(b) : \E i \in 1..Len(b.replacements) : c = b.replacements[i]
      BY <3>2, LenProperties DEF Cached, ToSet
    <3>4. \A c \in b.contacts \cup Cached(b) : Covers(b, c.id)
      BY <3>1, <3>3 DEF Placed
    <3> QED  BY <3>1, <3>4 DEF Bucket, Near, Limited
  <2>3. TypeOK
    BY <2>2 DEF TypeOK, IInv
  <2> QED  BY <2>1, <2>2, <2>3 DEF BucketsPartition, TableOK
<1> QED  BY <1>1, Invariant, PTL

\* A node never stands in the table twice (observe, mark_failure).
THEOREM UniqueNodesCorrect == Spec => []UniqueNodes
<1>1. IInv => UniqueNodes
  BY DEF IInv, TableOK, BucketOK, Single, UniqueNodes
<1> QED  BY <1>1, Invariant, PTL

\* Nobody waits where there is room or a BAD contact (observe, mark_failure, _split).
THEOREM ReplacementsWaitCorrect == Spec => []ReplacementsWait
<1>1. IInv => ReplacementsWait
  BY DEF IInv, TableOK, BucketOK, Full, ReplacementsWait
<1> QED  BY <1>1, Invariant, PTL

\* A GOOD contact has answered from its endpoint (observe, Contact.state).
THEOREM GoodIsVerifiedCorrect == Spec => []GoodIsVerified
<1>1. IInv => GoodIsVerified
  <2> SUFFICES ASSUME IInv, NEW c \in Contacts, State(c) = "GOOD"
               PROVE  <<c.id, c.ep>> \in responded
    BY DEF GoodIsVerified
  <2>1. c.response # "never"
    BY DEF State
  <2>2. Sent(c, responded)
    BY DEF IInv, TableOK, BucketOK, Placed, Contacts
  <2> QED  BY <2>1, <2>2 DEF Sent
<1> QED  BY <1>1, Invariant, PTL

\* Only failures push a contact out of the table: no newcomer, split or observation
\* does (observe, mark_failure).
THEOREM OnlyBadEvictedCorrect == Spec => OnlyBadEvicted
<1>1. IInv /\ [Next]_vars =>
        [restarts' = restarts =>
           \A c \in Contacts :
              \/ \E d \in Contacts' : d.id = c.id
              \/ State(c) = "BAD"
              \/ (c.failures + 1 >= BadAfter /\ MarkFailure(c.id))]_vars
  BY Step DEF Kept
<1> QED  BY <1>1, Invariant, PTL DEF Spec, OnlyBadEvicted

-----------------------------------------------------------------------------
(* Restoring: the limits of the buckets *)

\* The limits of a bucket, as a pair; the pair of one half of it that has the
\* local ID, and that of the other.
Extent(b) == <<b.low, b.high>>
Extents(t) == {Extent(b) : b \in t}
Around(e) == e[1] <= LocalId /\ LocalId < e[2]
Midst(e) == (e[1] + e[2]) \div 2
Nearer(e) == IF LocalId < Midst(e) THEN <<e[1], Midst(e)>> ELSE <<Midst(e), e[2]>>
Farther(e) == IF LocalId < Midst(e) THEN <<Midst(e), e[2]>> ELSE <<e[1], Midst(e)>>

\* P begins with the whole ID space and goes on to the half around the local ID,
\* and the other half is in G, until it meets one that is itself in G.
Chain(P, G) ==
    /\ <<0, Space>> \in P /\ P \subseteq Int \X Int
    /\ \A e \in P : e \in G \/ (Nearer(e) \in P /\ Farther(e) \in G)
Chained(G) == \E P : Chain(P, G)

\* The contacts of a snapshot between two limits; the limits between which there
\* are not more than a bucket has room for.
Held(S, e) == {s \in S : e[1] <= s[1] /\ s[1] < e[2]}
Sparse(S) == {e \in Nat \X Nat : IsFiniteSet(Held(S, e)) /\ Cardinality(Held(S, e)) <= K}

\* The buckets with these limits have not been split further than the chain P.
Coarse(E, P, G) == \A e \in E : IF Around(e) THEN e \in P ELSE e \in G

Addresses(t) == {<<c.id, c.ep>> : c \in Members(t)}

Named(S) == \A a \in S : a[1] # LocalId /\ \A b \in S : a[1] = b[1] => a = b

\* While contacts are restored, those that have been are in the table, and it has
\* not been split further than the table of the snapshot.
RestInv ==
    /\ Chained(Extents(buckets))
    /\ Named(snapshot)
    /\ \E P : /\ Chain(P, Sparse(snapshot))
              /\ restoring # {} => Coarse(Extents(buckets), P, Sparse(snapshot))
    /\ restoring # {} => Addresses(buckets) = snapshot \ restoring

\* Lists may change, limits do not.
LEMMA ReplaceExtents ==
    ASSUME NEW t, NEW b \in t, b \in Bucket, NEW cs, NEW rs
    PROVE  Extents(Replace(t, b, cs, rs)) = Extents(t)
<1> DEFINE n == [b EXCEPT !.contacts = cs, !.replacements = rs]
<1>1. n.low = b.low /\ n.high = b.high
  BY DEF Bucket
<1>2. Replace(t, b, cs, rs) = (t \ {b}) \cup {n}
  BY DEF Replace
<1>3. Extent(n) = Extent(b)
  BY <1>1 DEF Extent
<1> HIDE DEF n
<1>4. ASSUME NEW T PROVE Extents((T \ {b}) \cup {n}) = Extents(T \ {b}) \cup {Extent(n)}
  BY DEF Extents
<1>5. Extents(t) = Extents(t \ {b}) \cup {Extent(b)}
  BY DEF Extents
<1> QED  BY <1>2, <1>3, <1>4, <1>5

\* The nodes of a table whose lists have changed.
LEMMA ReplaceMembers ==
    ASSUME NEW t, NEW b \in t, b \in Bucket, NEW cs, NEW rs
    PROVE  /\ Members(Replace(t, b, cs, rs)) = Members(t \ {b}) \cup cs
           /\ Members(t) = Members(t \ {b}) \cup b.contacts
<1> DEFINE n == [b EXCEPT !.contacts = cs, !.replacements = rs]
<1>1. n.contacts = cs
  BY DEF Bucket
<1>2. Replace(t, b, cs, rs) = (t \ {b}) \cup {n}
  BY DEF Replace
<1> HIDE DEF n
<1>3. ASSUME NEW T, NEW x PROVE Members(T \cup {x}) = Members(T) \cup x.contacts
  BY DEF Members
<1>4. t = (t \ {b}) \cup {b}
  OBVIOUS
<1>5. Members((t \ {b}) \cup {n}) = Members(t \ {b}) \cup n.contacts
  BY <1>3
<1>6. Members((t \ {b}) \cup {b}) = Members(t \ {b}) \cup b.contacts
  BY <1>3
<1> QED  BY <1>1, <1>2, <1>4, <1>5, <1>6

\* The limits of the halves of the local bucket.
LEMMA SplitExtents ==
    ASSUME NEW t, NEW R, TableOK(t, R)
    PROVE  LET b == Home(t, LocalId)
           IN  /\ b \in t /\ Around(Extent(b)) /\ ~ Around(Farther(Extent(b)))
               /\ Extents(SplitLocal(t)) =
                     Extents(t \ {b}) \cup {Nearer(Extent(b)), Farther(Extent(b))}
               /\ \A a \in t \ {b} : ~ Around(Extent(a))
<1> DEFINE b == Home(t, LocalId)
           mid == (b.low + b.high) \div 2
<1>1. b \in t /\ Covers(b, LocalId) /\ BucketOK(b, R) /\ \A a \in t : Covers(a, LocalId) => a = b
  BY HomeIs, Spaces DEF TableOK
<1>2. Split(b) = {Half(b, b.low, mid), Half(b, mid, b.high)}
  BY <1>1, Halves
<1>3. SplitLocal(t) = (t \ {b}) \cup Split(b)
  BY DEF SplitLocal
<1>4. Extent(Half(b, b.low, mid)) = <<b.low, mid>> /\ Extent(Half(b, mid, b.high)) = <<mid, b.high>>
  BY DEF Half, Extent
<1>5. Midst(Extent(b)) = mid
  BY DEF Midst, Extent
<1>6. b.low \in Nat /\ b.high \in Nat /\ LocalId \in Nat /\ b.low <= LocalId /\ LocalId < b.high
  BY <1>1, InBucket, Spaces DEF Covers
<1>7. b.low < b.high => mid \in Nat
  <2> HIDE DEF b
  <2> QED  BY <1>6, Middle
<1> HIDE DEF b, mid
<1>8. {<<b.low, mid>>, <<mid, b.high>>} = {Nearer(Extent(b)), Farther(Extent(b))}
  BY <1>5 DEF Nearer, Farther, Extent
<1>9. Around(Extent(b)) /\ \A a \in t \ {b} : ~ Around(Extent(a))
  BY <1>1 DEF Around, Extent, Covers
<1>10. ~ Around(Farther(Extent(b)))
  <2>1. CASE LocalId < mid
    <3>1. Farther(Extent(b)) = <<mid, b.high>>
      BY <1>5, <2>1 DEF Farther, Extent
    <3> QED  BY <2>1, <3>1, <1>6, <1>7 DEF Around
  <2>2. CASE ~ (LocalId < mid)
    <3>1. Farther(Extent(b)) = <<b.low, mid>>
      BY <1>5, <2>2 DEF Farther, Extent
    <3> QED  BY <2>2, <3>1, <1>6, <1>7 DEF Around
  <2> QED  BY <2>1, <2>2
<1>11. Extents(SplitLocal(t)) = Extents(t \ {b}) \cup {<<b.low, mid>>, <<mid, b.high>>}
  BY <1>2, <1>3, <1>4 DEF Extents
<1> QED  BY <1>1, <1>8, <1>9, <1>10, <1>11 DEF b

\* The other half of a bucket is away from the local ID.
LEMMA FartherAway == \A e \in Int \X Int : ~ Around(Farther(e))
<1> SUFFICES ASSUME NEW e \in Int \X Int PROVE ~ Around(Farther(e))
  OBVIOUS
<1>1. Midst(e) \in Int /\ LocalId \in Nat
  BY Spaces DEF Midst
<1>2. CASE LocalId < Midst(e)
  BY <1>1, <1>2 DEF Farther, Around
<1>3. CASE ~ (LocalId < Midst(e))
  BY <1>1, <1>3 DEF Farther, Around
<1> QED  BY <1>2, <1>3

\* A chain of buckets goes on into the local bucket that is split.
LEMMA SplitChained ==
    ASSUME NEW t, NEW R, TableOK(t, R), Chained(Extents(t))
    PROVE  Chained(Extents(SplitLocal(t)))
<1> DEFINE b == Home(t, LocalId)
           e == Extent(b)
           E == Extents(t)
           F == Extents(SplitLocal(t))
<1>1. /\ b \in t /\ Around(e) /\ ~ Around(Farther(e))
      /\ F = Extents(t \ {b}) \cup {Nearer(e), Farther(e)}
  BY SplitExtents
<1>2. PICK P : Chain(P, E)
  BY DEF Chained
<1>3. \A x \in E : x = e \/ x \in F
  BY <1>1 DEF Extents
<1>4. Nearer(e) \in F /\ Farther(e) \in F
  BY <1>1
<1>5. e \in Int \X Int
  BY <1>1, InBucket DEF TableOK, Extent
<1> HIDE DEF e, E, F
<1>6. Nearer(e) \in Int \X Int
  BY <1>5 DEF Nearer, Midst
<1> DEFINE Q == P \cup {Nearer(e)}
<1>7. ASSUME NEW x \in P
      PROVE  x \in F \/ (Nearer(x) \in Q /\ Farther(x) \in F)
  <2>1. CASE x \in E
    BY <1>3, <1>4, <2>1
  <2>2. CASE Nearer(x) \in P /\ Farther(x) \in E
    <3>1. ~ Around(Farther(x))
      BY <1>2, FartherAway DEF Chain
    <3> QED  BY <1>1, <1>3, <2>2, <3>1
  <2> QED  BY <1>2, <2>1, <2>2 DEF Chain
<1>8. Chain(Q, F)
  BY <1>2, <1>4, <1>6, <1>7 DEF Chain
<1> QED  BY <1>8 DEF Chained, F

\* Splitting leaves a table within every set of tables that is closed under it.
LEMMA RoomyIn ==
    ASSUME NEW R, TableOK(buckets, R), NEW id \in Ids, NEW T, buckets \in T,
           \A t \in T : /\ TableOK(t, R) /\ Members(t) = Members(buckets)
                        /\ MustSplit(t, id)
                        => SplitLocal(t) \in T
    PROVE  Roomy(id) \in T
<1> DEFINE Stops(n) == /\ ~ MustSplit(AfterSplits[n], id)
                       /\ \A j \in 0..(n - 1) : MustSplit(AfterSplits[j], id)
<1>1. \E n \in Ids : Stops(n)
  BY RoomyExists
<1>2. PICK k \in Ids : Stops(k) /\ Roomy(id) = AfterSplits[k]
  BY <1>1 DEF Roomy
<1> DEFINE Good == {n \in Nat : n <= k => AfterSplits[n] \in T}
<1>3. 0 \in Good
  BY SplitsDefined
<1>4. ASSUME NEW n \in Nat, n \in Good
      PROVE  n + 1 \in Good
  <2> SUFFICES ASSUME n + 1 <= k PROVE AfterSplits[n + 1] \in T
    OBVIOUS
  <2>1. /\ n \in Ids /\ n + 1 \in Ids \ {0} /\ (n + 1) - 1 = n
        /\ n \in 0..(k - 1) /\ \A j \in 0..(n - 1) : j \in 0..(k - 1)
    BY Spaces
  <2>2. AfterSplits[n] \in T
    BY <1>4, <2>1
  <2>3. MustSplit(AfterSplits[n], id) /\ \A j \in 0..(n - 1) : MustSplit(AfterSplits[j], id)
    BY <1>2, <2>1
  <2>4. TableOK(AfterSplits[n], R) /\ Members(AfterSplits[n]) = Members(buckets)
    BY <2>1, <2>3, Splits
  <2>5. AfterSplits[n + 1] = SplitLocal(AfterSplits[n])
    BY <2>1, SplitsDefined
  <2> QED  BY <2>2, <2>3, <2>4, <2>5
<1> HIDE DEF Good
<1>5. Nat \subseteq Good
  BY <1>3, <1>4, Induction
<1> USE DEF Good
<1>6. k \in Good /\ k \in Nat
  BY <1>5, Spaces
<1> QED  BY <1>2, <1>6

\* The addresses of a table that keeps its nodes.
LEMMA AddressesAre ==
    ASSUME NEW t, NEW u, Members(t) = Members(u)
    PROVE  Addresses(t) = Addresses(u)
BY DEF Addresses

\* The tables of buckets that form a chain are closed under splitting.
LEMMA RoomyChained ==
    ASSUME NEW R, TableOK(buckets, R), NEW id \in Ids, Chained(Extents(buckets))
    PROVE  Chained(Extents(Roomy(id)))
<1> DEFINE T == {t \in SUBSET Bucket : Chained(Extents(t))}
<1>1. buckets \in T
  BY DEF TableOK, BucketOK
<1>2. ASSUME NEW t \in T, TableOK(t, R)
      PROVE  MustSplit(t, id) => SplitLocal(t) \in T
  <2> SUFFICES ASSUME MustSplit(t, id) PROVE SplitLocal(t) \in T
    OBVIOUS
  <2>1. Home(t, LocalId).contacts # {}
    BY <1>2, MustSplitIs
  <2>2. TableOK(SplitLocal(t), R)
    BY <1>2, <2>1, LocalSplit
  <2>3. Chained(Extents(SplitLocal(t)))
    BY <1>2, SplitChained
  <2> QED  BY <2>2, <2>3 DEF TableOK, BucketOK
<1> HIDE DEF T
<1>3. Roomy(id) \in T
  BY <1>1, <1>2, RoomyIn
<1> QED  BY <1>3 DEF T

\* What observe() does to the limits: nothing but the splits.
LEMMA ObserveExtents ==
    ASSUME NEW R, TableOK(buckets, R), NEW id \in Ids, NEW ep, NEW kind, NEW ro,
           Observe(id, ep, kind, ro)
    PROVE  Extents(buckets') \in {Extents(buckets), Extents(Roomy(id))}
<1>1. CASE UNCHANGED buckets
  BY <1>1
<1>2. CASE ObserveKnown(id, ep, kind, ro)
  <2>1. Home(buckets, id) \in buckets /\ Home(buckets, id) \in Bucket
    BY HomeIs DEF TableOK, BucketOK
  <2>2. \E cs, rs : buckets' = Replace(buckets, Home(buckets, id), cs, rs)
    BY <1>2 DEF ObserveKnown
  <2> QED  BY <2>1, <2>2, ReplaceExtents
<1>3. CASE Insert(Roomy(id), id, Candidate(id, ep, kind))
  <2>1. TableOK(Roomy(id), R)
    BY RoomyOK
  <2>2. Home(Roomy(id), id) \in Roomy(id) /\ Home(Roomy(id), id) \in Bucket
    BY <2>1, HomeIs DEF TableOK, BucketOK
  <2>3. \/ buckets' = Roomy(id)
        \/ \E cs, rs : buckets' = Replace(Roomy(id), Home(Roomy(id), id), cs, rs)
    BY <1>3, Zenon DEF Insert
  <2> QED  BY <2>2, <2>3, ReplaceExtents
<1> QED  BY <1>1, <1>2, <1>3 DEF Observe

\* The buckets form a chain after observe(), too.
LEMMA ObserveChained ==
    ASSUME NEW R, TableOK(buckets, R), NEW id \in Ids, NEW ep, NEW kind, NEW ro,
           Observe(id, ep, kind, ro), Chained(Extents(buckets))
    PROVE  Chained(Extents(buckets'))
BY ObserveExtents, RoomyChained

\* The addresses of the contacts of one bucket are as many as they are.
LEMMA AddressCount ==
    ASSUME NEW R, NEW b, BucketOK(b, R)
    PROVE  LET A == {<<c.id, c.ep>> : c \in b.contacts}
           IN  IsFiniteSet(A) /\ Cardinality(A) = Cardinality(b.contacts)
<1> DEFINE cs == b.contacts
           A == {<<c.id, c.ep>> : c \in cs}
           f == [c \in cs |-> <<c.id, c.ep>>]
<1>1. IsFiniteSet(cs) /\ \A c, d \in cs : c.id = d.id => c = d
  BY DEF BucketOK, Limited, Single
<1>2. f \in Bijection(cs, A)
  <2> HIDE DEF cs
  <2>1. f \in [cs -> A]
    OBVIOUS
  <2>2. \A c, d \in cs : f[c] = f[d] => c = d
    BY <1>1
  <2>3. \A a \in A : \E c \in cs : f[c] = a
    OBVIOUS
  <2> HIDE DEF A, f
  <2> QED  BY <2>1, <2>2, <2>3, Fun_IsBij
<1> HIDE DEF cs, A, f
<1>3. IsFiniteSet(A) /\ Cardinality(A) = Cardinality(cs)
  <2>1. ExistsBijection(cs, A)
    BY <1>2, Zenon DEF ExistsBijection
  <2> QED  BY <1>1, <2>1, FS_Bijection
<1> QED  BY <1>3 DEF cs, A

\* The snapshot of a table has no more contacts between the limits of a bucket than
\* the bucket has.
LEMMA SnapshotSparse ==
    ASSUME NEW R, TableOK(buckets, R), NEW b \in buckets
    PROVE  Extent(b) \in Sparse(Addresses(buckets))
<1> DEFINE A == {<<c.id, c.ep>> : c \in b.contacts}
           H == Held(Addresses(buckets), Extent(b))
<1>1. BucketOK(b, R) /\ b.low \in Nat /\ b.high \in Nat
  BY InBucket DEF TableOK
<1>2. ASSUME NEW a \in H
      PROVE  a \in A
  <2>1. PICK d \in buckets : \E c \in d.contacts : a = <<c.id, c.ep>>
    BY DEF Held, Addresses, Members
  <2>2. PICK c \in d.contacts : a = <<c.id, c.ep>>
    BY <2>1
  <2>3. Covers(b, c.id)
    BY <2>2 DEF Held, Extent, Covers
  <2>4. Covers(d, c.id) /\ c.id \in Ids
    BY Spaces DEF TableOK, BucketOK, Bucket, Placed, Contact
  <2>5. b = d
    BY <2>3, <2>4, HomeIs
  <2> QED  BY <2>2, <2>5
<1>3. H \subseteq A
  BY <1>2
<1>4. IsFiniteSet(A) /\ Cardinality(A) <= K
  BY <1>1, AddressCount DEF BucketOK, Limited
<1>5. Extent(b) \in Nat \X Nat
  BY <1>1 DEF Extent
<1> HIDE DEF A, H
<1>6. IsFiniteSet(H) /\ Cardinality(H) <= Cardinality(A)
  BY <1>3, <1>4, FS_Subset
<1>7. Cardinality(H) \in Nat /\ Cardinality(A) \in Nat
  BY <1>4, <1>6, FS_CardinalityType
<1>8. Cardinality(H) <= K
  BY <1>4, <1>6, <1>7, Spaces
<1> QED  BY <1>5, <1>6, <1>8 DEF Sparse, H

\* A full bucket and one more contact that belongs there are too many for a bucket.
LEMMA NotSparse ==
    ASSUME NEW R, NEW b, BucketOK(b, R), Cardinality(b.contacts) >= K,
           NEW S, \A c \in b.contacts : <<c.id, c.ep>> \in S,
           NEW r \in S, Covers(b, r[1]), \A c \in b.contacts : c.id # r[1]
    PROVE  Extent(b) \notin Sparse(S)
<1> DEFINE A == {<<c.id, c.ep>> : c \in b.contacts}
           H == Held(S, Extent(b))
<1>1. A \cup {r} \subseteq H
  BY DEF BucketOK, Placed, Covers, Held, Extent
<1>2. r \notin A
  OBVIOUS
<1>3. IsFiniteSet(A) /\ Cardinality(A) >= K
  BY AddressCount
<1> HIDE DEF A, H
<1>4. IsFiniteSet(A \cup {r}) /\ Cardinality(A \cup {r}) = Cardinality(A) + 1
  BY <1>2, <1>3, FS_AddElement
<1>5. ASSUME IsFiniteSet(H), Cardinality(H) <= K PROVE FALSE
  <2>1. Cardinality(A \cup {r}) <= Cardinality(H)
    BY <1>1, <1>5, FS_Subset
  <2>2. Cardinality(A) \in Nat /\ Cardinality(H) \in Nat /\ K \in Nat
    BY <1>3, <1>5, FS_CardinalityType, Spaces
  <2> QED  BY <1>3, <1>4, <1>5, <2>1, <2>2
<1> QED  BY <1>5 DEF Sparse, H

-----------------------------------------------------------------------------
(* One contact is restored *)

\* A bucket that is split further than the chain of the snapshot is not too full.
LEMMA SplitCoarse ==
    ASSUME NEW t, NEW R, TableOK(t, R), NEW P, NEW G, Chain(P, G),
           Coarse(Extents(t), P, G), Extent(Home(t, LocalId)) \notin G
    PROVE  Coarse(Extents(SplitLocal(t)), P, G)
<1> DEFINE b == Home(t, LocalId)
           e == Extent(b)
<1>1. /\ b \in t /\ Around(e) /\ ~ Around(Farther(e))
      /\ Extents(SplitLocal(t)) = Extents(t \ {b}) \cup {Nearer(e), Farther(e)}
      /\ \A a \in t \ {b} : ~ Around(Extent(a))
  BY SplitExtents
<1>2. e \notin G /\ e \in Extents(t)
  BY <1>1 DEF Extents
<1>3. e \in P
  BY <1>1, <1>2 DEF Coarse
<1>4. e[1] \in Int /\ e[2] \in Int
  BY <1>3 DEF Chain
<1> HIDE DEF b, e
<1>5. Nearer(e) \in P /\ Farther(e) \in G
  BY <1>2, <1>3 DEF Chain
<1>6. Around(Nearer(e))
  <2>1. Midst(e) \in Int /\ LocalId \in Int
    BY <1>4, Spaces DEF Midst
  <2>2. CASE LocalId < Midst(e)
    <3>1. Nearer(e) = <<e[1], Midst(e)>>
      BY <2>2 DEF Nearer
    <3> QED  BY <1>1, <2>2, <3>1 DEF Around
  <2>3. CASE ~ (LocalId < Midst(e))
    <3>1. Nearer(e) = <<Midst(e), e[2]>>
      BY <2>3 DEF Nearer
    <3> QED  BY <1>1, <2>1, <2>3, <3>1 DEF Around
  <2> QED  BY <2>2, <2>3
<1>7. ASSUME NEW x \in Extents(t \ {b})
      PROVE  ~ Around(x) /\ x \in G
  <2>1. PICK a \in t \ {b} : x = Extent(a)
    BY DEF Extents
  <2>2. ~ Around(x) /\ x \in Extents(t)
    BY <1>1, <2>1 DEF Extents
  <2> QED  BY <2>2 DEF Coarse
<1> QED  BY <1>1, <1>5, <1>6, <1>7 DEF Coarse

\* What is true while the contacts of the snapshot are restored.
Restoring(P) ==
    /\ Named(snapshot) /\ restoring \subseteq snapshot /\ snapshot \subseteq Senders
    /\ Chain(P, Sparse(snapshot))
    /\ Coarse(Extents(buckets), P, Sparse(snapshot))
    /\ Addresses(buckets) = snapshot \ restoring

\* The bucket of a contact that is to be restored is not full, or must be split.
LEMMA TooMany ==
    ASSUME NEW P, Restoring(P), NEW R, NEW t, TableOK(t, R), Members(t) = Members(buckets),
           NEW r \in restoring, r[1] \in Ids,
           Cardinality(Home(t, r[1]).contacts) >= K
    PROVE  Extent(Home(t, r[1])) \notin Sparse(snapshot)
<1> DEFINE b == Home(t, r[1])
<1>1. b \in t /\ Covers(b, r[1]) /\ BucketOK(b, R)
  BY HomeIs DEF TableOK
<1> HIDE DEF b
<1>2. ASSUME NEW c \in b.contacts
      PROVE  <<c.id, c.ep>> \in snapshot /\ c.id # r[1]
  <2>1. <<c.id, c.ep>> \in Addresses(buckets)
    BY <1>1 DEF Addresses, Members
  <2>2. <<c.id, c.ep>> \in snapshot /\ <<c.id, c.ep>> # r /\ r \in snapshot
    BY <2>1 DEF Restoring
  <2> QED  BY <2>2 DEF Restoring, Named
<1>3. Cardinality(b.contacts) >= K
  BY DEF b
<1>4. r \in snapshot
  BY DEF Restoring
<1>5. Extent(b) \notin Sparse(snapshot)
  BY <1>1, <1>2, <1>3, <1>4, NotSparse
<1> QED  BY <1>5 DEF b

\* The table is split no further than the one of the snapshot was, and then there is
\* room for the contact.
LEMMA RoomToRestore ==
    ASSUME NEW P, Restoring(P), NEW R, TableOK(buckets, R),
           NEW r \in restoring, r[1] \in Ids
    PROVE  /\ Coarse(Extents(Roomy(r[1])), P, Sparse(snapshot))
           /\ Cardinality(Home(Roomy(r[1]), r[1]).contacts) < K
<1> DEFINE id == r[1]
           G == Sparse(snapshot)
           T == {t \in SUBSET Bucket : Coarse(Extents(t), P, G)}
<1>1. Chain(P, G) /\ Coarse(Extents(buckets), P, G)
  BY DEF Restoring
<1> HIDE DEF G
<1>2. buckets \in T
  BY <1>1 DEF TableOK, BucketOK
<1>3. ASSUME NEW t \in T, TableOK(t, R), Members(t) = Members(buckets), MustSplit(t, id)
      PROVE  SplitLocal(t) \in T
  <2>1. TableOK(SplitLocal(t), R)
    BY <1>3, MustSplitIs, LocalSplit
  <2>2. Home(t, id) = Home(t, LocalId) /\ Cardinality(Home(t, id).contacts) >= K
    <3>1. Home(t, id) \in t /\ Covers(Home(t, id), LocalId)
      BY <1>3, HomeIs DEF MustSplit
    <3> QED  BY <1>3, <3>1, HomeIs, Spaces DEF MustSplit
  <2>3. Extent(Home(t, LocalId)) \notin G
    BY <1>3, <2>2, TooMany DEF G
  <2>4. Coarse(Extents(SplitLocal(t)), P, G)
    BY <1>1, <1>3, <2>3, SplitCoarse
  <2> QED  BY <2>1, <2>4 DEF TableOK, BucketOK
<1> HIDE DEF T
<1>4. Roomy(id) \in T
  BY <1>2, <1>3, RoomyIn
<1>5. Coarse(Extents(Roomy(id)), P, G)
  BY <1>4 DEF T
<1> DEFINE t == Roomy(id)
           b == Home(t, id)
<1>6. TableOK(t, R) /\ Members(t) = Members(buckets) /\ ~ MustSplit(t, id)
  BY RoomyOK
<1>7. b \in t /\ BucketOK(b, R)
  BY <1>6, HomeIs DEF TableOK
<1>8. ASSUME Cardinality(b.contacts) >= K PROVE FALSE
  <2>1. ~ Covers(b, LocalId)
    BY <1>6, <1>8 DEF MustSplit
  <2>2. Extent(b) \in G
    BY <1>5, <1>7, <2>1 DEF Coarse, Extents, Extent, Around, Covers
  <2> QED  BY <1>6, <1>8, <2>2, TooMany DEF G
<1>9. Cardinality(b.contacts) \in Nat /\ K \in Nat
  BY <1>7, FS_CardinalityType, Spaces DEF BucketOK, Limited
<1>10. Cardinality(b.contacts) < K
  BY <1>8, <1>9
<1> QED  BY <1>5, <1>10 DEF G

\* restore_contacts() gets every contact into the table, at the address it had.
LEMMA RestoreOne ==
    ASSUME NEW P, Restoring(P), NEW R, TableOK(buckets, R), NEW r \in restoring,
           RestoreContact(r)
    PROVE  /\ Coarse(Extents(buckets'), P, Sparse(snapshot))
           /\ Addresses(buckets') = snapshot \ restoring'
<1> DEFINE id == r[1]
           t == Roomy(id)
           b == Home(t, id)
           d == Candidate(id, r[2], "mention")
<1>1. /\ Observe(id, r[2], "mention", FALSE) /\ restoring' = restoring \ {r}
  BY DEF RestoreContact
<1>2. r \in snapshot /\ r \in Senders /\ Addresses(buckets) = snapshot \ restoring
  BY DEF Restoring
<1>3. r = <<id, r[2]>> /\ id \in Ids /\ id # LocalId
  <2>1. r = <<id, r[2]>> /\ id \in Ids
    BY <1>2, RoutingAssumption
  <2>2. id # LocalId
    BY <1>2 DEF Restoring, Named
  <2> QED  BY <2>1, <2>2
<1>4. ~ Known(Home(buckets, id), id)
  <2> SUFFICES ASSUME NEW c \in Home(buckets, id).contacts, c.id = id PROVE FALSE
    BY DEF Known
  <2>1. Home(buckets, id) \in buckets
    BY <1>3, HomeIs
  <2>2. <<c.id, c.ep>> \in snapshot /\ <<c.id, c.ep>> # r
    BY <1>2, <2>1 DEF Addresses, Members
  <2> QED  BY <1>2, <2>2 DEF Restoring, Named
<1>5. Insert(t, id, d)
  BY <1>1, <1>3, <1>4 DEF Observe
<1>6. Coarse(Extents(t), P, Sparse(snapshot)) /\ Cardinality(b.contacts) < K
  BY <1>3, RoomToRestore
<1>7. TableOK(t, R) /\ Members(t) = Members(buckets)
  BY <1>3, RoomyOK
<1>8. b \in t /\ b \in Bucket /\ Cardinality(b.contacts) \in Nat
  BY <1>3, <1>7, HomeIs, FS_CardinalityType DEF TableOK, BucketOK, Limited
<1>9. d.id = id /\ d.ep = r[2]
  BY DEF Candidate
<1>10. buckets' = Replace(t, b, b.contacts \cup {d}, b.replacements)
  BY <1>5, <1>6, <1>8, Spaces DEF Insert
<1> HIDE DEF t, b, d, id
<1>11. Extents(buckets') = Extents(t)
  BY <1>8, <1>10, ReplaceExtents
<1>12. Members(buckets') = Members(buckets) \cup {d}
  <2> DEFINE M == Members(t \ {b})
  <2>1. Members(buckets') = M \cup (b.contacts \cup {d}) /\ Members(t) = M \cup b.contacts
    BY <1>8, <1>10, ReplaceMembers
  <2> HIDE DEF M
  <2> QED  BY <1>7, <2>1
<1>13. Addresses(buckets') = Addresses(buckets) \cup {r}
  BY <1>3, <1>9, <1>12 DEF Addresses
<1>14. Addresses(buckets') = snapshot \ restoring'
  BY <1>1, <1>2, <1>13
<1> QED  BY <1>6, <1>11, <1>14

\* The clock changes neither limits nor addresses.
LEMMA AgeKeeps ==
    ASSUME NEW R, TableOK(buckets, R), Age
    PROVE  /\ Extents(buckets') = Extents(buckets)
           /\ Addresses(buckets') = Addresses(buckets)
<1>1. PICK b \in buckets :
        \/ \E c \in b.contacts : \E old \in Aged(c) :
              buckets' = Replace(buckets, b, (b.contacts \ {c}) \cup {old}, b.replacements)
        \/ \E i \in 1..Len(b.replacements) : \E old \in Aged(b.replacements[i]) :
              buckets' = Replace(buckets, b, b.contacts, [b.replacements EXCEPT ![i] = old])
  BY DEF Age
<1>2. BucketOK(b, R) /\ b \in Bucket
  BY DEF TableOK, BucketOK
<1>3. ASSUME NEW c \in b.contacts, NEW old \in Aged(c),
             buckets' = Replace(buckets, b, (b.contacts \ {c}) \cup {old}, b.replacements)
      PROVE  /\ Extents(buckets') = Extents(buckets)
             /\ Addresses(buckets') = Addresses(buckets)
  <2>1. c \in Contact /\ Sent(c, R)
    BY <1>2 DEF BucketOK, Bucket, Placed
  <2>2. old.id = c.id /\ old.ep = c.ep
    BY <2>1, AgedIs
  <2> DEFINE M == Members(buckets \ {b})
  <2>3. /\ Members(buckets') = M \cup ((b.contacts \ {c}) \cup {old})
        /\ Members(buckets) = M \cup b.contacts
    BY <1>2, <1>3, ReplaceMembers
  <2>4. Extents(buckets') = Extents(buckets)
    BY <1>2, <1>3, ReplaceExtents
  <2> HIDE DEF M
  <2>5. Addresses(buckets') \subseteq Addresses(buckets)
    BY <2>2, <2>3 DEF Addresses
  <2>6. Addresses(buckets) \subseteq Addresses(buckets')
    BY <2>2, <2>3 DEF Addresses
  <2> QED  BY <2>4, <2>5, <2>6
<1>4. ASSUME NEW rs, buckets' = Replace(buckets, b, b.contacts, rs)
      PROVE  /\ Extents(buckets') = Extents(buckets)
             /\ Addresses(buckets') = Addresses(buckets)
  <2>1. Extents(buckets') = Extents(buckets)
    BY <1>2, <1>4, ReplaceExtents
  <2>2. Members(buckets') = Members(buckets)
    <3> DEFINE M == Members(buckets \ {b})
    <3>1. Members(buckets') = M \cup b.contacts /\ Members(buckets) = M \cup b.contacts
      BY <1>2, <1>4, ReplaceMembers
    <3> HIDE DEF M
    <3> QED  BY <3>1
  <2> QED  BY <2>1, <2>2, AddressesAre
<1> QED  BY <1>1, <1>3, <1>4

\* A timeout does not change limits.
LEMMA MarkFailureExtents ==
    ASSUME NEW R, TableOK(buckets, R), NEW id \in Nodes, MarkFailure(id)
    PROVE  Extents(buckets') = Extents(buckets)
<1>1. id \in Ids
  BY RoutingAssumption
<1>2. Home(buckets, id) \in buckets /\ Home(buckets, id) \in Bucket
  BY <1>1, HomeIs DEF TableOK, BucketOK
<1> DEFINE b == Home(buckets, id)
<1>3. PICK c, f : buckets' = AfterFailure(b, c, f)
  BY DEF MarkFailure
<1> HIDE DEF b
<1>4. \E cs, rs : buckets' = Replace(buckets, b, cs, rs)
  BY <1>3 DEF AfterFailure
<1> USE DEF b
<1> QED  BY <1>2, <1>4, ReplaceExtents

-----------------------------------------------------------------------------
(* From the old table to the new one *)

\* Two contacts of a table with the same ID are the same, and not the local node.
LEMMA ContactsNamed ==
    ASSUME NEW R, TableOK(buckets, R)
    PROVE  Named(Addresses(buckets))
<1>1. ASSUME NEW c \in Members(buckets), NEW d \in Members(buckets), c.id = d.id
      PROVE  c = d
  <2>1. PICK a \in buckets : c \in a.contacts
    BY DEF Members
  <2>2. PICK b \in buckets : d \in b.contacts
    BY DEF Members
  <2>3. BucketOK(a, R) /\ BucketOK(b, R) /\ c.id \in Ids
    BY <2>1, Spaces DEF TableOK, BucketOK, Bucket, Contact
  <2>4. Covers(a, c.id) /\ Covers(b, c.id)
    BY <1>1, <2>1, <2>2, <2>3 DEF BucketOK, Placed
  <2>5. a = b
    BY <2>3, <2>4, HomeIs
  <2> QED  BY <1>1, <2>1, <2>2, <2>3, <2>5 DEF BucketOK, Single
<1>2. ASSUME NEW c \in Members(buckets) PROVE c.id # LocalId
  BY DEF Members, TableOK, BucketOK, Bucket, Contact
<1> QED  BY <1>1, <1>2 DEF Named, Addresses

\* A new table is one bucket, without contacts.
LEMMA NewTableIs == Extents(NewTable) = {<<0, Space>>} /\ Addresses(NewTable) = {}
BY DEF NewTable, Extents, Extent, Addresses, Members

\* One bucket is a chain.
LEMMA NewTableChained == Chained(Extents(NewTable))
<1>1. Chain({<<0, Space>>}, {<<0, Space>>})
  BY Spaces DEF Chain
<1> QED  BY <1>1, NewTableIs DEF Chained

\* The first process has no snapshot.
LEMMA RestInvInit == Init => RestInv
<1> SUFFICES ASSUME Init PROVE RestInv
  OBVIOUS
<1>1. buckets = NewTable /\ snapshot = {} /\ restoring = {}
  BY DEF Init
<1>2. <<0, Space>> \in Sparse({})
  <2>1. Held({}, <<0, Space>>) = {}
    BY DEF Held
  <2>2. IsFiniteSet({}) /\ Cardinality({}) = 0
    BY FS_EmptySet
  <2>3. <<0, Space>> \in Nat \X Nat /\ 0 <= K
    BY Spaces
  <2> QED  BY <2>1, <2>2, <2>3 DEF Sparse
<1>3. Chain({<<0, Space>>}, Sparse({}))
  BY <1>2, Spaces DEF Chain
<1>4. Named({})
  BY DEF Named
<1>5. Chained(Extents(buckets))
  BY <1>1, NewTableChained
<1> QED  BY <1>1, <1>3, <1>4, <1>5 DEF RestInv

\* A chain needs no more than the limits it names.
LEMMA ChainGrows ==
    ASSUME NEW P, NEW G, NEW H, Chain(P, G), G \subseteq H
    PROVE  Chain(P, H)
BY DEF Chain

\* The process stops: the table that is saved is the chain that the next one needs.
LEMMA RestartRest ==
    ASSUME IInv, RestInv, NEW shutdown \in BOOLEAN, Restart(shutdown)
    PROVE  RestInv'
<1>1. /\ snapshot' = (IF shutdown THEN {<<c.id, c.ep>> : c \in Contacts} ELSE snapshot)
      /\ restoring' = snapshot' /\ buckets' = NewTable
  BY DEF Restart
<1>2. TableOK(buckets, responded)
  BY DEF IInv
<1>3. Named(snapshot') /\ \E P : Chain(P, Sparse(snapshot'))
  <2>1. CASE shutdown
    <3>1. snapshot' = Addresses(buckets)
      BY <1>1, <2>1 DEF Contacts, Addresses, Members
    <3>2. PICK P : Chain(P, Extents(buckets))
      BY DEF RestInv, Chained
    <3>3. Extents(buckets) \subseteq Sparse(Addresses(buckets))
      BY <1>2, SnapshotSparse DEF Extents
    <3> QED  BY <1>2, <3>1, <3>2, <3>3, ChainGrows, ContactsNamed
  <2>2. CASE ~ shutdown
    BY <1>1, <2>2 DEF RestInv
  <2> QED  BY <2>1, <2>2
<1>4. PICK P : Chain(P, Sparse(snapshot'))
  BY <1>3
<1>5. Coarse(Extents(buckets'), P, Sparse(snapshot'))
  <2>1. Extents(buckets') = {<<0, Space>>} /\ <<0, Space>> \in P /\ Around(<<0, Space>>)
    BY <1>1, <1>4, NewTableIs, Spaces DEF Chain, Around
  <2> QED  BY <2>1 DEF Coarse
<1>6. Addresses(buckets') = snapshot' \ restoring' /\ Chained(Extents(buckets'))
  BY <1>1, NewTableIs, NewTableChained
<1> QED  BY <1>3, <1>4, <1>5, <1>6 DEF RestInv

\* What the property says of a step.
Restored ==
    restoring # {} =>
        \A r \in snapshot \ restoring' : \E c \in Contacts' : c.id = r[1] /\ c.ep = r[2]

\* The addresses of the table are what the property speaks of.
LEMMA RestoredIs ==
    ASSUME snapshot \subseteq Senders, Addresses(buckets') = snapshot \ restoring'
    PROVE  Restored
<1> SUFFICES ASSUME NEW r \in snapshot \ restoring'
             PROVE  \E c \in Contacts' : c.id = r[1] /\ c.ep = r[2]
  BY DEF Restored
<1>1. PICK c \in Members(buckets') : r = <<c.id, c.ep>>
  BY DEF Addresses
<1> QED  BY <1>1 DEF Contacts, Members

\* Every step keeps the invariant, and restores what it has to.
LEMMA RestStep == IInv /\ RestInv /\ [Next]_vars => RestInv' /\ [Restored]_vars
<1> SUFFICES ASSUME IInv, RestInv, [Next]_vars PROVE RestInv' /\ [Restored]_vars
  OBVIOUS
<1>1. /\ TableOK(buckets, responded) /\ snapshot \subseteq Senders
      /\ restoring \subseteq snapshot
  BY DEF IInv
<1>2. Chained(Extents(buckets)) /\ Named(snapshot)
  BY DEF RestInv
<1>3. ASSUME NEW s \in Senders, NEW kind \in Kinds, NEW ro \in BOOLEAN,
             Hear(s[1], s[2], kind, ro)
      PROVE  RestInv' /\ Restored
  <2>1. /\ restoring = {} /\ Observe(s[1], s[2], kind, ro)
        /\ restoring' = restoring /\ snapshot' = snapshot
    BY <1>3 DEF Hear
  <2>2. s[1] \in Ids
    BY RoutingAssumption
  <2>3. Chained(Extents(buckets'))
    BY <1>1, <1>2, <2>1, <2>2, ObserveChained
  <2> QED  BY <1>2, <2>1, <2>3 DEF RestInv, Restored
<1>4. ASSUME NEW id \in Nodes, MarkFailure(id)
      PROVE  RestInv' /\ Restored
  <2>1. /\ restoring = {} /\ restoring' = restoring /\ snapshot' = snapshot
        /\ Extents(buckets') = Extents(buckets)
    BY <1>1, <1>4, MarkFailureExtents DEF MarkFailure
  <2> QED  BY <1>2, <2>1 DEF RestInv, Restored
<1>5. CASE Age
  <2>1. /\ restoring' = restoring /\ snapshot' = snapshot
        /\ Extents(buckets') = Extents(buckets)
        /\ Addresses(buckets') = Addresses(buckets)
    BY <1>1, <1>5, AgeKeeps DEF Age
  <2>2. RestInv'
    BY <2>1 DEF RestInv
  <2>3. CASE restoring # {}
    <3>1. Addresses(buckets') = snapshot \ restoring'
      BY <2>1, <2>3 DEF RestInv
    <3> QED  BY <1>1, <2>2, <3>1, RestoredIs
  <2>4. CASE restoring = {}
    BY <2>2, <2>4 DEF Restored
  <2> QED  BY <2>3, <2>4
<1>6. ASSUME NEW shutdown \in BOOLEAN, Restart(shutdown)
      PROVE  RestInv' /\ Restored
  <2>1. restoring = {}
    BY <1>6 DEF Restart
  <2> QED  BY <1>6, <2>1, RestartRest DEF Restored
<1>7. ASSUME NEW r \in restoring, RestoreContact(r)
      PROVE  RestInv' /\ Restored
  <2>1. PICK P : Restoring(P)
    BY <1>1, <1>7 DEF RestInv, Restoring
  <2>2. /\ Coarse(Extents(buckets'), P, Sparse(snapshot))
        /\ Addresses(buckets') = snapshot \ restoring'
    BY <1>1, <1>7, <2>1, RestoreOne
  <2>3. Chained(Extents(buckets')) /\ snapshot' = snapshot
    <3>1. /\ Observe(r[1], r[2], "mention", FALSE) /\ snapshot' = snapshot
      BY <1>7 DEF RestoreContact
    <3>2. r[1] \in Ids
      BY <1>1, RoutingAssumption
    <3> QED  BY <1>1, <1>2, <3>1, <3>2, ObserveChained
  <2>4. RestInv'
    BY <1>2, <2>1, <2>2, <2>3 DEF RestInv, Restoring
  <2> QED  BY <1>1, <2>2, <2>4, RestoredIs
<1>8. CASE UNCHANGED vars
  BY <1>8 DEF vars, RestInv
<1> QED  BY <1>3, <1>4, <1>5, <1>6, <1>7, <1>8 DEF Next

\* Nobody is lost in a restart: the new table is split as far as the old one had to be
\* and has room for every saved contact (restore_contacts, observe).
THEOREM RestoreCompleteCorrect == Spec => RestoreComplete
<1>1. Init => IInv /\ RestInv
  BY Initial, RestInvInit
<1>2. IInv /\ RestInv /\ [Next]_vars => (IInv /\ RestInv)'
  BY Step, RestStep
<1>3. IInv /\ RestInv /\ [Next]_vars =>
        [restoring # {} =>
           \A r \in snapshot \ restoring' :
              \E c \in Contacts' : c.id = r[1] /\ c.ep = r[2]]_vars
  BY RestStep DEF Restored
<1> QED  BY <1>1, <1>2, <1>3, PTL DEF Spec, RestoreComplete
=============================================================================
