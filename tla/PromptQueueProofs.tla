-------------------------- MODULE PromptQueueProofs --------------------------
(***************************************************************************)
(* What the operations of PromptQueue return, for every queue.  No lemma   *)
(* uses induction over sequences: where a first or a least position is     *)
(* needed it comes from the least element of a set of naturals (NatMin).   *)
(***************************************************************************)
EXTENDS PromptQueue, SequenceTheorems, FiniteSetTheorems, WellFoundedInduction, TLAPS

\* A non-empty set of naturals has a least element.
LEMMA NatMin ==
  ASSUME NEW T \in SUBSET Nat, T # {}
  PROVE  \E m \in T : \A n \in T : m <= n
<1>1. \E x \in T : \A y \in T : ~ (<<y, x>> \in OpToRel(<, Nat))
  BY NatLessThanWellFounded, WFMin
<1>2. \A x, y \in T : ~ (<<y, x>> \in OpToRel(<, Nat)) => x <= y
  BY DEF OpToRel
<1> QED BY <1>1, <1>2

\* A queue holds no item twice.
Distinct(q) == \A i, j \in DOMAIN q : q[i] = q[j] => i = j

\* The items of a queue are the values at its positions.
LEMMA Elements ==
  ASSUME NEW S, NEW q \in Seq(S)
  PROVE  /\ \A k \in 1..Len(q) : q[k] \in ToSet(q)
         /\ \A x \in ToSet(q) : \E k \in 1..Len(q) : x = q[k]
         /\ ToSet(q) \subseteq S
<1>1. DOMAIN q = 1..Len(q) /\ \A k \in 1..Len(q) : q[k] \in S
  OBVIOUS
<1> QED BY <1>1, Zenon DEF ToSet

\* Rank counts: one more when the next item of the queue is kept.
LEMMA RankStep ==
  ASSUME NEW q, NEW keep, NEW i \in Nat
  PROVE  /\ Rank(q, keep, i) \in Nat
         /\ Rank(q, keep, 0) = 0
         /\ Rank(q, keep, i + 1) = IF q[i + 1] \in keep THEN Rank(q, keep, i) + 1
                                   ELSE Rank(q, keep, i)
<1> DEFINE S(n) == {k \in 1..n : q[k] \in keep}
<1>1. ASSUME NEW n \in Nat
      PROVE  IsFiniteSet(S(n)) /\ Cardinality(S(n)) \in Nat
  <2>1. IsFiniteSet(1..n) 
    BY FS_Interval
  <2>2. S(n) \in SUBSET (1..n)
    OBVIOUS
  <2>3. IsFiniteSet(S(n))
    BY <2>1, <2>2, FS_Subset
  <2> QED BY <2>3, FS_CardinalityType
<1>2. S(0) = {} 
  OBVIOUS
<1>3. CASE q[i + 1] \in keep
  <2>1. S(i + 1) = S(i) \cup {i + 1} /\ (i + 1) \notin S(i)
    BY <1>3
  <2> QED BY <2>1, <1>1, <1>2, <1>3, FS_AddElement, FS_EmptySet DEF Rank
<1>4. CASE q[i + 1] \notin keep
  <2>1. S(i + 1) = S(i)
    BY <1>4
  <2> QED BY <2>1, <1>1, <1>2, <1>4, FS_EmptySet DEF Rank
<1> QED BY <1>3, <1>4

\* Rank never decreases, and a kept item has a larger rank than those before it.
LEMMA RankMonotone ==
  ASSUME NEW q, NEW keep, NEW i \in Nat, NEW j \in Nat, i < j
  PROVE  /\ Rank(q, keep, i) <= Rank(q, keep, j)
         /\ q[j] \in keep => Rank(q, keep, i) < Rank(q, keep, j)
<1> DEFINE S(n) == {k \in 1..n : q[k] \in keep}
<1>1. IsFiniteSet(S(j))
  <2>1. IsFiniteSet(1..j) 
    BY FS_Interval
  <2>2. S(j) \in SUBSET (1..j)
    OBVIOUS
  <2> QED BY <2>1, <2>2, FS_Subset
<1>2. S(i) \in SUBSET S(j)
  OBVIOUS
<1>3. q[j] \in keep => S(i) # S(j)
  <2>1. q[j] \in keep => j \in S(j)
    OBVIOUS
  <2>2. j \notin S(i)
    OBVIOUS
  <2> QED BY <2>1, <2>2
<1>4. /\ Cardinality(S(i)) <= Cardinality(S(j))
      /\ Cardinality(S(i)) # Cardinality(S(j)) \/ S(i) = S(j)
  BY <1>1, <1>2, FS_Subset
<1>5. Rank(q, keep, i) \in Nat /\ Rank(q, keep, j) \in Nat
  BY RankStep
<1> QED BY <1>3, <1>4, <1>5 DEF Rank

\* Every rank up to the last is the rank of a kept item.
LEMMA RankOnto ==
  ASSUME NEW q, NEW keep, NEW len \in Nat, NEW j \in 1..Rank(q, keep, len)
  PROVE  \E i \in 1..len : q[i] \in keep /\ Rank(q, keep, i) = j
<1> DEFINE T == {i \in 0..len : Rank(q, keep, i) >= j}
<1>0. \A i \in Nat : Rank(q, keep, i) \in Nat
  BY RankStep
<1>1. len \in T
  BY <1>0
<1>2. PICK m \in T : \A n \in T : m <= n
  <2>1. T \in SUBSET Nat /\ T # {}
    BY <1>1
  <2> QED BY <2>1, NatMin
<1>3. m # 0
  BY <1>0, RankStep
<1>4. m - 1 \in 0..len /\ m - 1 \notin T
  BY <1>2, <1>3
<1>5. Rank(q, keep, m - 1) < j
  BY <1>0, <1>4
<1>6. Rank(q, keep, (m - 1) + 1) = IF q[(m - 1) + 1] \in keep THEN Rank(q, keep, m - 1) + 1
                                   ELSE Rank(q, keep, m - 1)
  BY <1>4, RankStep
<1>7. Rank(q, keep, m) >= j
  BY <1>2
<1> QED BY <1>0, <1>3, <1>4, <1>5, <1>6, <1>7

\* The j-th item Kept returns is the kept item of rank j, and a kept item's rank
\* is its position in the result.
LEMMA KeptIndex ==
  ASSUME NEW S, NEW q \in Seq(S), NEW keep
  PROVE  /\ Kept(q, keep) \in Seq(S)
         /\ \A j \in 1..Len(Kept(q, keep)) :
               \E i \in 1..Len(q) : q[i] \in keep /\ Rank(q, keep, i) = j /\ Kept(q, keep)[j] = q[i]
         /\ \A i \in 1..Len(q) : q[i] \in keep =>
               /\ Rank(q, keep, i) \in 1..Len(Kept(q, keep))
               /\ Kept(q, keep)[Rank(q, keep, i)] = q[i]
<1> DEFINE N == Rank(q, keep, Len(q))
           At(j) == CHOOSE i \in 1..Len(q) : q[i] \in keep /\ Rank(q, keep, i) = j
<1>0. N \in Nat /\ Len(q) \in Nat
  BY RankStep
<1>1. ASSUME NEW j \in 1..N
      PROVE  At(j) \in 1..Len(q) /\ q[At(j)] \in keep /\ Rank(q, keep, At(j)) = j
  <2>1. \E i \in 1..Len(q) : q[i] \in keep /\ Rank(q, keep, i) = j
    BY <1>0, RankOnto
  <2> QED BY <2>1
<1>2. ASSUME NEW i \in 1..Len(q), q[i] \in keep
      PROVE  Rank(q, keep, i) \in 1..N /\ At(Rank(q, keep, i)) = i
  <2>1. Rank(q, keep, i) \in Nat /\ Rank(q, keep, 0) = 0
    BY RankStep
  <2>2. Rank(q, keep, 0) < Rank(q, keep, i)
    BY <1>2, RankMonotone
  <2>3. Rank(q, keep, i) <= N
    BY <1>0, <2>1, RankMonotone
  <2>4. ASSUME NEW k \in 1..Len(q), q[k] \in keep, Rank(q, keep, k) = Rank(q, keep, i)
        PROVE  k = i
    <3>1. Rank(q, keep, k) \in Nat
      BY RankStep
    <3>2. ~ (k < i)
      BY <1>2, <2>1, <2>4, <3>1, RankMonotone
    <3>3. ~ (i < k)
      BY <2>1, <2>4, <3>1, RankMonotone
    <3> QED BY <3>2, <3>3
  <2>5. Rank(q, keep, i) \in 1..N
    BY <1>0, <2>1, <2>2, <2>3
  <2> QED BY <1>1, <2>4, <2>5
<1>3. Kept(q, keep) = [j \in 1..N |-> q[At(j)]]
  BY DEF Kept
<1>4. Kept(q, keep) \in Seq(S) /\ Len(Kept(q, keep)) = N /\ DOMAIN Kept(q, keep) = 1..N
  <2>1. \A j \in 1..N : q[At(j)] \in S
    BY <1>1
  <2> HIDE DEF N, At
  <2> QED BY <1>0, <1>3, <2>1
<1> HIDE DEF N, At
<1>5. ASSUME NEW j \in 1..N
      PROVE  At(j) \in 1..Len(q) /\ q[At(j)] \in keep /\ Rank(q, keep, At(j)) = j
               /\ Kept(q, keep)[j] = q[At(j)]
  BY <1>1, <1>3
<1>6. ASSUME NEW i \in 1..Len(q), q[i] \in keep
      PROVE  Rank(q, keep, i) \in 1..N /\ Kept(q, keep)[Rank(q, keep, i)] = q[i]
  BY <1>2, <1>3, <1>6
<1> QED BY <1>4, <1>5, <1>6, Zenon

\* What every sweep, clear and removal rests on: Kept returns exactly the kept
\* items, and a kept front (the running turn's slot) stays the front.
LEMMA KeptFacts ==
  ASSUME NEW S, NEW q \in Seq(S), NEW keep
  PROVE  /\ Kept(q, keep) \in Seq(S)
         /\ ToSet(Kept(q, keep)) = ToSet(q) \cap keep
         /\ (q # <<>> /\ q[1] \in keep) => Kept(q, keep) # <<>> /\ Kept(q, keep)[1] = q[1]
<1>1. Kept(q, keep) \in Seq(S)
  BY KeptIndex
<1>2. ToSet(Kept(q, keep)) = ToSet(q) \cap keep
  <2>1. ASSUME NEW x \in ToSet(Kept(q, keep)) PROVE x \in ToSet(q) \cap keep
    <3>1. PICK j \in 1..Len(Kept(q, keep)) : x = Kept(q, keep)[j]
      BY <1>1, Elements
    <3>2. PICK i \in 1..Len(q) : q[i] \in keep /\ x = q[i]
      BY <3>1, KeptIndex
    <3> QED BY <3>2, Elements
  <2>2. ASSUME NEW x \in ToSet(q), x \in keep PROVE x \in ToSet(Kept(q, keep))
    <3>1. PICK i \in 1..Len(q) : x = q[i]
      BY Elements
    <3>2. Rank(q, keep, i) \in 1..Len(Kept(q, keep)) /\ Kept(q, keep)[Rank(q, keep, i)] = x
      BY <2>2, <3>1, KeptIndex
    <3> QED BY <1>1, <3>2, Elements
  <2> QED BY <2>1, <2>2
<1>3. ASSUME q # <<>>, q[1] \in keep
      PROVE  Kept(q, keep) # <<>> /\ Kept(q, keep)[1] = q[1]
  <2>1. 1 \in 1..Len(q)
    BY <1>3
  <2>2. Rank(q, keep, 0 + 1) = Rank(q, keep, 0) + 1 /\ Rank(q, keep, 0) = 0
    <3>1. q[0 + 1] \in keep /\ 0 \in Nat
      BY <1>3
    <3> QED BY <3>1, RankStep
  <2>3. 1 \in 1..Len(Kept(q, keep)) /\ Kept(q, keep)[1] = q[1]
    BY <1>3, <2>1, <2>2, KeptIndex
  <2> QED BY <1>1, <2>3
<1> QED BY <1>1, <1>2, <1>3

\* Kept keeps the order of the items, and if the first two are kept they stay
\* the first two.
LEMMA KeptOrder ==
  ASSUME NEW S, NEW q \in Seq(S), NEW keep
  PROVE  /\ \A j, k \in 1..Len(Kept(q, keep)) : j < k =>
               \E i, l \in 1..Len(q) : i < l /\ Kept(q, keep)[j] = q[i] /\ Kept(q, keep)[k] = q[l]
         /\ (Len(q) >= 2 /\ q[1] \in keep /\ q[2] \in keep)
               => Len(Kept(q, keep)) >= 2 /\ Kept(q, keep)[2] = q[2]
<1>1. ASSUME NEW j \in 1..Len(Kept(q, keep)), NEW k \in 1..Len(Kept(q, keep)), j < k
      PROVE  \E i, l \in 1..Len(q) : i < l /\ Kept(q, keep)[j] = q[i] /\ Kept(q, keep)[k] = q[l]
  <2>1. PICK i \in 1..Len(q) : Rank(q, keep, i) = j /\ Kept(q, keep)[j] = q[i]
    BY KeptIndex
  <2>2. PICK l \in 1..Len(q) : q[l] \in keep /\ Rank(q, keep, l) = k /\ Kept(q, keep)[k] = q[l]
    BY KeptIndex
  <2>3. ~(l < i) /\ l # i
    <3>1. l < i => Rank(q, keep, l) <= Rank(q, keep, i)
      BY RankMonotone
    <3> QED BY <1>1, <2>1, <2>2, <3>1
  <2>4. i < l
    BY <2>3
  <2> QED BY <2>1, <2>2, <2>4
<1>2. ASSUME Len(q) >= 2, q[1] \in keep, q[2] \in keep
      PROVE  Len(Kept(q, keep)) >= 2 /\ Kept(q, keep)[2] = q[2]
  <2>1. Rank(q, keep, 0 + 1) = Rank(q, keep, 0) + 1 /\ Rank(q, keep, 0) = 0
    <3>1. q[0 + 1] \in keep /\ 0 \in Nat
      BY <1>2
    <3> QED BY <3>1, RankStep
  <2>2. Rank(q, keep, 1 + 1) = Rank(q, keep, 1) + 1
    <3>1. q[1 + 1] \in keep /\ 1 \in Nat
      BY <1>2
    <3> QED BY <3>1, RankStep
  <2>3. Rank(q, keep, 2) = 2 /\ 2 \in 1..Len(q)
    BY <1>2, <2>1, <2>2
  <2>4. 2 \in 1..Len(Kept(q, keep)) /\ Kept(q, keep)[2] = q[2]
    BY <1>2, <2>3, KeptIndex
  <2>5. Len(Kept(q, keep)) \in Nat
    BY KeptIndex
  <2> QED BY <2>4, <2>5
<1> QED BY <1>1, <1>2

\* A queue without repetitions keeps none.
LEMMA KeptDistinct ==
  ASSUME NEW S, NEW q \in Seq(S), NEW keep, Distinct(q)
  PROVE  Distinct(Kept(q, keep))
<1>1. Kept(q, keep) \in Seq(S)
  BY KeptIndex
<1> SUFFICES ASSUME NEW j \in 1..Len(Kept(q, keep)), NEW k \in 1..Len(Kept(q, keep)), j < k
             PROVE  Kept(q, keep)[j] # Kept(q, keep)[k]
  <2>1. DOMAIN Kept(q, keep) = 1..Len(Kept(q, keep)) /\ Len(Kept(q, keep)) \in Nat
    BY <1>1
  <2> QED BY <2>1 DEF Distinct
<1>2. PICK i \in 1..Len(q), l \in 1..Len(q) :
         i < l /\ Kept(q, keep)[j] = q[i] /\ Kept(q, keep)[k] = q[l]
  BY KeptOrder
<1>3. DOMAIN q = 1..Len(q)
  OBVIOUS
<1> QED BY <1>2, <1>3 DEF Distinct

\* A queue whose front is kept has the same front afterwards.
LEMMA KeptFront ==
  ASSUME NEW S, NEW q \in Seq(S), NEW keep, NEW id \in keep, FrontIs(q, id)
  PROVE  FrontIs(Kept(q, keep), id)
<1>1. q # <<>> /\ q[1] = id /\ q[1] \in keep
  BY DEF FrontIs
<1> DEFINE kept == Kept(q, keep)
<1>0. kept \in Seq(S) /\ ((q # <<>> /\ q[1] \in keep) => kept # <<>> /\ kept[1] = q[1])
  BY KeptFacts
<1> HIDE DEF kept
<1>2. kept \in Seq(S) /\ kept # <<>> /\ kept[1] = q[1]
  BY <1>0, <1>1
<1>3. FrontIs(kept, id)
  BY <1>1, <1>2 DEF FrontIs
<1> QED BY <1>3 DEF kept
-----------------------------------------------------------------------------
\* Inserting an item into a queue: what is at each position afterwards.
LEMMA InsertAtPositions ==
  ASSUME NEW S, NEW q \in Seq(S), NEW i \in 1..(Len(q) + 1), NEW e \in S
  PROVE  /\ InsertAt(q, i, e) \in Seq(S) /\ Len(InsertAt(q, i, e)) = Len(q) + 1
         /\ \A k \in 1..(i - 1) : InsertAt(q, i, e)[k] = q[k]
         /\ InsertAt(q, i, e)[i] = e
         /\ \A k \in i..Len(q) : InsertAt(q, i, e)[k + 1] = q[k]
<1> DEFINE a == SubSeq(q, 1, i - 1)
           b == SubSeq(q, i, Len(q))
           r == a \o <<e>> \o b
<1>1. InsertAt(q, i, e) = r
  BY DEF InsertAt
<1>2. /\ a \in Seq(S) /\ Len(a) = i - 1 
      /\ \A k \in 1..(i - 1) : a[k] = q[k]
  OBVIOUS
<1>3. /\ b \in Seq(S) /\ Len(b) = Len(q) + 1 - i
      /\ \A k \in 1..(Len(q) + 1 - i) : b[k] = q[k + i - 1]
  OBVIOUS
<1>4. /\ r \in Seq(S) /\ Len(r) = Len(q) + 1
      /\ \A k \in 1..(i - 1) : r[k] = q[k]
      /\ r[i] = e
      /\ \A k \in i..Len(q) : r[k + 1] = q[k]
  <2> HIDE DEF a, b
  <2> DEFINE c == a \o <<e>>
  <2>1. /\ c \in Seq(S) /\ Len(c) = i /\ c[i] = e
        /\ \A k \in 1..(i - 1) : c[k] = q[k]
    <3>1. <<e>> \in Seq(S) /\ Len(<<e>>) = 1 /\ <<e>>[1] = e
      OBVIOUS
    <3>2. /\ c \in Seq(S) /\ Len(c) = Len(a) + 1
          /\ \A k \in 1..(Len(a) + 1) :
                c[k] = IF k <= Len(a) THEN a[k] ELSE <<e>>[k - Len(a)]
      BY <1>2, <3>1, ConcatProperties
    <3> HIDE DEF c
    <3>3. c[i] = <<e>>[1]
      BY <1>2, <3>2
    <3> QED BY <1>2, <3>1, <3>2, <3>3
  <2>2. r = c \o b
    OBVIOUS
  <2> HIDE DEF c, r
  <2>3. r \in Seq(S) /\ Len(r) = Len(q) + 1
    BY <1>3, <2>1, <2>2
  <2>4. \A k \in 1..i : r[k] = c[k]
    BY <1>3, <2>1, <2>2
  <2>5. ASSUME NEW k \in i..Len(q) PROVE r[k + 1] = q[k]
    <3>1. r[k + 1] = b[k + 1 - i]
      <4>1. k + 1 \in 1..(Len(c) + Len(b)) /\ ~(k + 1 <= Len(c))
        BY <1>3, <2>1
      <4>2. \A j \in 1..(Len(c) + Len(b)) :
               (c \o b)[j] = IF j <= Len(c) THEN c[j] ELSE b[j - Len(c)]
        BY <1>3, <2>1, ConcatProperties
      <4>3. Len(c) = i
        BY <2>1
      <4> QED BY <2>2, <4>1, <4>2, <4>3
    <3>2. k + 1 - i \in 1..(Len(q) + 1 - i) /\ (k + 1 - i) + i - 1 = k
      OBVIOUS
    <3> QED BY <1>3, <3>1, <3>2
  <2> QED BY <2>1, <2>3, <2>4, <2>5
<1> HIDE DEF r
<1> QED BY <1>1, <1>4

\* Inserting an item into a queue: behind the front, the front stays.
LEMMA InsertAtFacts ==
  ASSUME NEW S, NEW q \in Seq(S), NEW i \in 1..(Len(q) + 1), NEW e \in S
  PROVE  /\ InsertAt(q, i, e) \in Seq(S)
         /\ InsertAt(q, i, e) # <<>>
         /\ ToSet(InsertAt(q, i, e)) = ToSet(q) \cup {e}
         /\ i > 1 => InsertAt(q, i, e)[1] = q[1]
<1> DEFINE r == InsertAt(q, i, e)
<1>4. /\ r \in Seq(S) /\ Len(r) = Len(q) + 1
      /\ \A k \in 1..(i - 1) : r[k] = q[k]
      /\ r[i] = e
      /\ \A k \in i..Len(q) : r[k + 1] = q[k]
  BY SMTT(30), InsertAtPositions
<1> HIDE DEF r
<1>5. ToSet(r) = ToSet(q) \cup {e}
  <2>1. ASSUME NEW x \in ToSet(r) PROVE x \in ToSet(q) \cup {e}
    <3>1. PICK k \in 1..(Len(q) + 1) : x = r[k]
      BY <1>4, Elements
    <3>2. CASE k < i
      BY <1>4, <3>1, <3>2, Elements
    <3>3. CASE k = i
      BY <1>4, <3>1, <3>3
    <3>4. CASE k > i
      <4>1. k - 1 \in 1..Len(q) /\ x = q[k - 1]
        <5>1. k - 1 \in i..Len(q) /\ (k - 1) + 1 = k
          BY <3>4
        <5> QED BY <1>4, <3>1, <5>1
      <4> QED BY <4>1, Elements
    <3> QED BY <3>2, <3>3, <3>4
  <2>2. ASSUME NEW x \in ToSet(q) PROVE x \in ToSet(r)
    <3>1. PICK k \in 1..Len(q) : x = q[k]
      BY Elements
    <3>2. CASE k < i
      <4>0. k \in 1..(i - 1)
        BY <3>2
      <4>1. k \in 1..Len(r) /\ r[k] = x
        BY <1>4, <3>1, <4>0
      <4> QED BY <1>4, <4>1, Elements
    <3>3. CASE k >= i
      <4>0. k \in i..Len(q)
        BY <3>3
      <4>1. k + 1 \in 1..Len(r) /\ r[k + 1] = x
        BY <1>4, <3>1, <4>0
      <4> QED BY <1>4, <4>1, Elements
    <3> QED BY <3>2, <3>3
  <2>3. e \in ToSet(r)
    <3>1. i \in 1..Len(r) /\ r[i] = e
      BY <1>4
    <3> QED BY <1>4, <3>1, Elements
  <2> QED BY <2>1, <2>2, <2>3
<1>6. r # <<>> /\ (i > 1 => r[1] = q[1])
  BY <1>4
<1> QED BY <1>4, <1>5, <1>6 DEF r

\* Inserting an item that is not there keeps a queue without repetitions.
LEMMA InsertAtDistinct ==
  ASSUME NEW S, NEW q \in Seq(S), NEW i \in 1..(Len(q) + 1), NEW e \in S,
         Distinct(q), e \notin ToSet(q)
  PROVE  Distinct(InsertAt(q, i, e))
<1> DEFINE r == InsertAt(q, i, e)
<1>1. /\ r \in Seq(S) /\ Len(r) = Len(q) + 1
      /\ \A k \in 1..(i - 1) : r[k] = q[k]
      /\ r[i] = e
      /\ \A k \in i..Len(q) : r[k + 1] = q[k]
  BY InsertAtPositions
<1> HIDE DEF r
<1> DEFINE p(k) == IF k < i THEN k ELSE k - 1
<1>2. ASSUME NEW k \in 1..Len(r), k # i PROVE p(k) \in 1..Len(q) /\ r[k] = q[p(k)]
  <2>1. CASE k < i
    BY <1>1, <2>1
  <2>2. CASE k > i
    <3>1. k - 1 \in i..Len(q) /\ (k - 1) + 1 = k
      BY <1>1, <2>2
    <3> QED BY <1>1, <2>2, <3>1
  <2> QED BY <1>2, <2>1, <2>2
<1>3. \A k \in 1..Len(q) : q[k] # e
  BY Elements
<1> SUFFICES ASSUME NEW j \in 1..Len(r), NEW k \in 1..Len(r), j < k PROVE r[j] # r[k]
  <2>1. DOMAIN r = 1..Len(r) /\ Len(r) \in Nat
    BY <1>1
  <2>2. Distinct(r)
    BY <2>1 DEF Distinct
  <2> QED BY <2>2 DEF r
<1>4. CASE j = i \/ k = i
  BY <1>1, <1>2, <1>3, <1>4
<1>5. CASE j # i /\ k # i
  <2>1. p(j) # p(k) /\ p(j) \in DOMAIN q /\ p(k) \in DOMAIN q
    BY <1>2, <1>5
  <2> QED BY <1>2, <1>5, <2>1 DEF Distinct
<1> QED BY <1>4, <1>5

\* A send-now prompt always has a slot, and it is never in front of the running
\* turn.
LEMMA SendNowSlotFacts ==
  ASSUME NEW S, NEW q \in Seq(S), NEW running, NEW sendNow
  PROVE  /\ SendNowSlot(q, running, sendNow) \in 0..Len(q)
         /\ FrontIs(q, running) => SendNowSlot(q, running, sendNow) >= 1
         /\ \A m \in 1..SendNowSlot(q, running, sendNow) :
               q[m] \in sendNow \/ (m = 1 /\ FrontIs(q, running))
         /\ \/ SendNowSlot(q, running, sendNow) = Len(q)
            \/ q[SendNowSlot(q, running, sendNow) + 1] \notin sendNow
<1> DEFINE base == IF FrontIs(q, running) THEN 1 ELSE 0
           Stops(n) == n = Len(q) \/ q[n + 1] \notin sendNow
           T == {n \in base..Len(q) : Stops(n)}
<1>0. base \in Nat /\ base <= Len(q) /\ Len(q) \in Nat
  BY DEF FrontIs
<1>1. PICK n \in T : \A m \in T : n <= m
  <2>1. Len(q) \in T
    BY <1>0
  <2>2. T \in SUBSET Nat
    BY <1>0
  <2> HIDE DEF T
  <2> QED BY <2>1, <2>2, NatMin
<1>2. ASSUME NEW m \in (base + 1)..n PROVE q[m] \in sendNow
  <2>1. m - 1 \in base..Len(q) /\ m - 1 < n
    BY <1>0, <1>1
  <2>2. m - 1 \notin T
    <3>1. n \in Nat
      BY <1>0
    <3> HIDE DEF T
    <3> QED BY <1>0, <1>1, <2>1, <3>1
  <2>3. ~Stops(m - 1)
    BY <2>1, <2>2
  <2>4. (m - 1) + 1 = m
    BY <1>0
  <2> QED BY <2>3, <2>4
<1>3. \E k \in base..Len(q) : /\ \A m \in (base + 1)..k : q[m] \in sendNow
                              /\ k = Len(q) \/ q[k + 1] \notin sendNow
  BY <1>0, <1>1, <1>2
<1>4. /\ SendNowSlot(q, running, sendNow) \in base..Len(q)
      /\ \A m \in (base + 1)..SendNowSlot(q, running, sendNow) : q[m] \in sendNow
      /\ \/ SendNowSlot(q, running, sendNow) = Len(q)
         \/ q[SendNowSlot(q, running, sendNow) + 1] \notin sendNow
  <2> HIDE DEF base
  <2>1. SendNowSlot(q, running, sendNow)
          = CHOOSE k \in base..Len(q) : /\ \A m \in (base + 1)..k : q[m] \in sendNow
                                        /\ k = Len(q) \/ q[k + 1] \notin sendNow
    BY DEF SendNowSlot, base
  <2> QED BY <1>3, <2>1
<1>5. ASSUME NEW m \in 1..SendNowSlot(q, running, sendNow)
      PROVE  q[m] \in sendNow \/ (m = 1 /\ FrontIs(q, running))
  <2>1. CASE m >= base + 1
    BY <1>0, <1>4, <2>1
  <2>2. CASE m < base + 1
    BY <1>0, <2>2
  <2> QED BY <1>0, <2>1, <2>2
<1> QED BY <1>0, <1>4, <1>5

\* Both ways of jumping the queue keep every item and the running front.
LEMMA InsertFacts ==
  ASSUME NEW S, NEW q \in Seq(S), NEW running, NEW sendNow, NEW id \in S
  PROVE  /\ InsertSendNow(q, running, sendNow, id) \in Seq(S)
         /\ ToSet(InsertSendNow(q, running, sendNow, id)) = ToSet(q) \cup {id}
         /\ FrontIs(q, running) => FrontIs(InsertSendNow(q, running, sendNow, id), running)
         /\ InsertFallback(q, running, id) \in Seq(S)
         /\ ToSet(InsertFallback(q, running, id)) = ToSet(q) \cup {id}
         /\ FrontIs(q, running) => FrontIs(InsertFallback(q, running, id), running)
<1> DEFINE n == SendNowSlot(q, running, sendNow) + 1
           m == IF FrontIs(q, running) THEN 2 ELSE 1
<1>1. n \in 1..(Len(q) + 1) /\ (FrontIs(q, running) => n > 1)
  BY SendNowSlotFacts
<1>2. m \in 1..(Len(q) + 1) /\ (FrontIs(q, running) => m > 1)
  BY DEF FrontIs
<1>3. InsertSendNow(q, running, sendNow, id) = InsertAt(q, n, id)
  BY DEF InsertSendNow
<1>4. InsertFallback(q, running, id) = InsertAt(q, m, id)
  BY DEF InsertFallback
<1> HIDE DEF n, m
<1>5. ASSUME NEW i \in 1..(Len(q) + 1), FrontIs(q, running), i > 1
      PROVE  FrontIs(InsertAt(q, i, id), running)
  <2>1. InsertAt(q, i, id) \in Seq(S) /\ InsertAt(q, i, id) # <<>> /\ InsertAt(q, i, id)[1] = q[1]
    BY <1>5, InsertAtFacts
  <2> QED BY <1>5, <2>1 DEF FrontIs
<1>6. ASSUME NEW i \in 1..(Len(q) + 1)
      PROVE  InsertAt(q, i, id) \in Seq(S) /\ ToSet(InsertAt(q, i, id)) = ToSet(q) \cup {id}
  BY InsertAtFacts
<1>7. FrontIs(q, running) => FrontIs(InsertAt(q, n, id), running)
  BY <1>1, <1>5
<1>8. FrontIs(q, running) => FrontIs(InsertAt(q, m, id), running)
  BY <1>2, <1>5
<1> QED BY <1>1, <1>2, <1>3, <1>4, <1>6, <1>7, <1>8, Zenon

\* A sweep drops only what it is asked to drop, and never the running front.
LEMMA SweepFacts ==
  ASSUME NEW S, NEW q \in Seq(S), NEW running, NEW drop
  PROVE  /\ Sweep(q, running, drop) \in Seq(S)
         /\ ToSet(q) \ ToSet(Sweep(q, running, drop)) \subseteq drop
         /\ ToSet(Sweep(q, running, drop)) \subseteq ToSet(q)
         /\ FrontIs(q, running) => FrontIs(Sweep(q, running, drop), running)
<1> DEFINE keep == (ToSet(q) \ drop) \cup {running}
<1>1. Sweep(q, running, drop) = Kept(q, keep)
  BY DEF Sweep
<1>2. /\ Kept(q, keep) \in Seq(S)
      /\ ToSet(Kept(q, keep)) = ToSet(q) \cap keep
      /\ (q # <<>> /\ q[1] \in keep) => Kept(q, keep) # <<>> /\ Kept(q, keep)[1] = q[1]
  BY KeptFacts
<1>3. ASSUME FrontIs(q, running)
      PROVE  FrontIs(Kept(q, keep), running)
  <2>1. q # <<>> /\ q[1] = running
    BY <1>3 DEF FrontIs
  <2>2. q[1] \in keep
    BY <2>1
  <2> HIDE DEF keep
  <2>3. Kept(q, keep) # <<>> /\ Kept(q, keep)[1] = running
    BY <1>2, <2>1, <2>2
  <2> QED BY <1>2, <2>3 DEF FrontIs
<1> QED BY <1>1, <1>2, <1>3

\* A client's reorder never moves the running front.
LEMMA ReorderedFacts ==
  ASSUME NEW S, NEW q \in Seq(S), NEW running, NEW meta, NEW order \in Seq(S)
  PROVE  /\ Reordered(q, running, meta, order) \in Seq(S)
         /\ FrontIs(q, running) => FrontIs(Reordered(q, running, meta, order), running)
<1> DEFINE queued == (ToSet(q) \cap meta) \ {running}
           a == Kept(q, ToSet(q) \ queued)
           b == Kept(order, queued)
           c == Kept(q, queued \ ToSet(order))
<1>1. /\ a \in Seq(S) /\ b \in Seq(S) /\ c \in Seq(S)
      /\ (q # <<>> /\ q[1] \in ToSet(q) \ queued) => a # <<>> /\ a[1] = q[1]
  BY KeptFacts
<1>2. Reordered(q, running, meta, order) = a \o b \o c
  BY DEF Reordered
<1>3. FrontIs(q, running) => q # <<>> /\ q[1] = running /\ q[1] \in ToSet(q) \ queued
  BY DEF FrontIs, ToSet
<1> HIDE DEF a, b, c
<1>4. a \o b \o c \in Seq(S) /\ (a # <<>> => (a \o b \o c) # <<>> /\ (a \o b \o c)[1] = a[1])
  BY <1>1
<1> QED BY <1>1, <1>2, <1>3, <1>4 DEF FrontIs

\* Joining two queues that share no item.
LEMMA ConcatFacts ==
  ASSUME NEW S, NEW a \in Seq(S), NEW b \in Seq(S)
  PROVE  /\ ToSet(a \o b) = ToSet(a) \cup ToSet(b)
         /\ (Distinct(a) /\ Distinct(b) /\ ToSet(a) \cap ToSet(b) = {}) => Distinct(a \o b)
<1> DEFINE r == a \o b
<1>1. /\ r \in Seq(S) /\ Len(r) = Len(a) + Len(b) /\ DOMAIN r = 1..Len(r)
      /\ Len(a) \in Nat /\ Len(b) \in Nat
      /\ \A k \in 1..Len(a) : r[k] = a[k]
      /\ \A k \in 1..Len(b) : r[Len(a) + k] = b[k]
  OBVIOUS
<1> HIDE DEF r
<1>2. ASSUME NEW k \in 1..Len(r), ~(k <= Len(a))
      PROVE  k - Len(a) \in 1..Len(b) /\ r[k] = b[k - Len(a)]
  <2>1. k - Len(a) \in 1..Len(b) /\ Len(a) + (k - Len(a)) = k
    BY <1>1, <1>2
  <2> QED BY <1>1, <2>1
<1>3. ToSet(r) = ToSet(a) \cup ToSet(b)
  <2>1. ASSUME NEW x \in ToSet(r) PROVE x \in ToSet(a) \cup ToSet(b)
    <3>1. PICK k \in 1..Len(r) : x = r[k]
      BY <1>1, Elements
    <3>2. CASE k <= Len(a)
      <4>1. k \in 1..Len(a)
        BY <1>1, <3>2
      <4> QED BY <1>1, <3>1, <4>1, Elements
    <3>3. CASE ~(k <= Len(a))
      BY <1>2, <3>1, <3>3, Elements
    <3> QED BY <3>2, <3>3
  <2>2. ASSUME NEW x \in ToSet(a) PROVE x \in ToSet(r)
    <3>1. PICK k \in 1..Len(a) : x = a[k]
      BY Elements
    <3>2. k \in 1..Len(r) /\ r[k] = x
      BY <1>1, <3>1
    <3> QED BY <1>1, <3>2, Elements
  <2>3. ASSUME NEW x \in ToSet(b) PROVE x \in ToSet(r)
    <3>1. PICK k \in 1..Len(b) : x = b[k]
      BY Elements
    <3>2. Len(a) + k \in 1..Len(r) /\ r[Len(a) + k] = x
      BY <1>1, <3>1
    <3> QED BY <1>1, <3>2, Elements
  <2> QED BY <2>1, <2>2, <2>3
<1>4. ASSUME Distinct(a), Distinct(b), ToSet(a) \cap ToSet(b) = {} PROVE Distinct(r)
  <2> SUFFICES ASSUME NEW j \in 1..Len(r), NEW k \in 1..Len(r), j < k PROVE r[j] # r[k]
    BY <1>1 DEF Distinct
  <2>1. DOMAIN a = 1..Len(a) /\ DOMAIN b = 1..Len(b)
    OBVIOUS
  <2>2. CASE k <= Len(a)
    <3>1. j \in 1..Len(a) /\ k \in 1..Len(a)
      BY <1>1, <2>2
    <3> QED BY SMTT(30), <1>1, <1>4, <2>1, <3>1 DEF Distinct
  <2>3. CASE ~(k <= Len(a)) /\ j <= Len(a)
    <3>1. j \in 1..Len(a)
      BY <1>1, <2>3
    <3>2. r[j] \in ToSet(a) /\ r[k] \in ToSet(b)
      BY <1>1, <1>2, <2>3, <3>1, Elements
    <3> QED BY <1>4, <3>2
  <2>4. CASE ~(j <= Len(a))
    <3>1. ~(k <= Len(a))
      BY <1>1, <2>4
    <3>2. j - Len(a) # k - Len(a)
      BY <1>1
    <3> QED BY <1>2, <1>4, <2>1, <2>4, <3>1, <3>2 DEF Distinct
  <2> QED BY <2>2, <2>3, <2>4
<1> QED BY <1>3, <1>4 DEF r

\* The items behind the front of a queue without repetitions.
LEMMA TailFacts ==
  ASSUME NEW S, NEW q \in Seq(S), Distinct(q), q # <<>>
  PROVE  /\ Tail(q) \in Seq(S) /\ Distinct(Tail(q))
         /\ Head(q) \in ToSet(q) /\ ToSet(Tail(q)) = ToSet(q) \ {Head(q)}
<1>1. <<Head(q)>> \in Seq(S) /\ Tail(q) \in Seq(S) /\ q = <<Head(q)>> \o Tail(q)
  OBVIOUS
<1>2. ToSet(<<Head(q)>>) = {Head(q)}
  BY DEF ToSet
<1>3. ToSet(q) = {Head(q)} \cup ToSet(Tail(q))
  <2> DEFINE h == <<Head(q)>>
             t == Tail(q)
  <2>1. h \in Seq(S) /\ t \in Seq(S) /\ q = h \o t /\ ToSet(h) = {Head(q)}
    BY <1>1, <1>2
  <2> HIDE DEF h, t
  <2>2. ToSet(h \o t) = ToSet(h) \cup ToSet(t)
    BY <2>1, ConcatFacts
  <2>3. ToSet(q) = {Head(q)} \cup ToSet(t)
    BY <2>1, <2>2
  <2> QED BY <2>3 DEF t
<1>4. /\ Tail(q) \in Seq(S) /\ Len(Tail(q)) = Len(q) - 1 /\ DOMAIN Tail(q) = 1..(Len(q) - 1)
      /\ \A k \in 1..(Len(q) - 1) : Tail(q)[k] = q[k + 1]
      /\ DOMAIN q = 1..Len(q) /\ Head(q) = q[1] /\ Len(q) \in Nat /\ Len(q) >= 1
  OBVIOUS
<1>5. Distinct(Tail(q))
  <2>1. ASSUME NEW j \in 1..(Len(q) - 1), NEW k \in 1..(Len(q) - 1), q[j + 1] = q[k + 1]
        PROVE  j = k
    <3>1. j + 1 \in DOMAIN q /\ k + 1 \in DOMAIN q
      BY <1>4
    <3> QED BY <2>1, <3>1 DEF Distinct
  <2> QED BY <1>4, <2>1 DEF Distinct
<1>6. Head(q) \notin ToSet(Tail(q))
  <2> SUFFICES ASSUME Head(q) \in ToSet(Tail(q)) PROVE FALSE
    OBVIOUS
  <2>1. PICK k \in 1..(Len(q) - 1) : Head(q) = Tail(q)[k]
    <3>1. \E k \in 1..Len(Tail(q)) : Head(q) = Tail(q)[k]
      BY <1>4, Elements, Zenon
    <3> QED BY <1>4, <3>1
  <2>2. q[1] = q[k + 1] /\ 1 \in DOMAIN q /\ k + 1 \in DOMAIN q /\ 1 # k + 1
    BY <1>4, <2>1
  <2> QED BY <2>2 DEF Distinct
<1> QED BY <1>3, <1>5, <1>6

\* Appending an item that is not there keeps a queue without repetitions.
LEMMA AppendFacts ==
  ASSUME NEW S, NEW q \in Seq(S), NEW e \in S
  PROVE  /\ Append(q, e) \in Seq(S) /\ ToSet(Append(q, e)) = ToSet(q) \cup {e}
         /\ Distinct(q) /\ e \notin ToSet(q) => Distinct(Append(q, e))
<1>1. <<e>> \in Seq(S) /\ Append(q, e) = q \o <<e>>
  OBVIOUS
<1>2. ToSet(<<e>>) = {e} /\ Distinct(<<e>>)
  BY DEF ToSet, Distinct
<1> DEFINE t == <<e>>
<1>3. t \in Seq(S) /\ Append(q, e) = q \o t /\ ToSet(t) = {e} /\ Distinct(t)
  BY <1>1, <1>2
<1> HIDE DEF t
<1>4. /\ ToSet(q \o t) = ToSet(q) \cup ToSet(t)
      /\ (Distinct(q) /\ Distinct(t) /\ ToSet(q) \cap ToSet(t) = {}) => Distinct(q \o t)
  BY <1>3, ConcatFacts
<1> QED BY <1>3, <1>4

\* The items before the last one of a queue without repetitions.
LEMMA ButLastFacts ==
  ASSUME NEW S, NEW q \in Seq(S), Distinct(q), q # <<>>
  PROVE  /\ SubSeq(q, 1, Len(q) - 1) \in Seq(S) /\ Distinct(SubSeq(q, 1, Len(q) - 1))
         /\ q[Len(q)] \in ToSet(q)
         /\ ToSet(SubSeq(q, 1, Len(q) - 1)) = ToSet(q) \ {q[Len(q)]}
<1> DEFINE t == SubSeq(q, 1, Len(q) - 1)
<1>0. DOMAIN q = 1..Len(q) /\ Len(q) \in Nat /\ Len(q) >= 1
  OBVIOUS
<1>1. /\ t \in Seq(S) /\ Len(t) = Len(q) - 1 /\ DOMAIN t = 1..(Len(q) - 1)
      /\ \A k \in 1..(Len(q) - 1) : t[k] = q[k]
      /\ DOMAIN q = 1..Len(q) /\ Len(q) \in Nat /\ Len(q) >= 1
  <2>1. t \in Seq(S) /\ Len(t) = Len(q) - 1
    BY <1>0
  <2>2. \A k \in 1..(Len(q) - 1) : t[k] = q[k]
    BY <1>0
  <2> HIDE DEF t
  <2>3. DOMAIN t = 1..(Len(q) - 1)
    BY <2>1
  <2> QED BY <1>0, <2>1, <2>2, <2>3
<1> HIDE DEF t
<1>2. Distinct(t)
  BY <1>1 DEF Distinct
<1>3. q[Len(q)] \in ToSet(q)
  BY <1>1, Elements
<1>4. ASSUME NEW x \in ToSet(t) PROVE x \in ToSet(q) /\ x # q[Len(q)]
  <2>1. PICK k \in 1..Len(t) : x = t[k]
    BY <1>1, Elements
  <2>2. k \in 1..(Len(q) - 1) /\ x = q[k]
    BY <1>1, <2>1
  <2>3. k \in DOMAIN q /\ Len(q) \in DOMAIN q /\ k # Len(q)
    BY <1>1, <2>2
  <2>4. q[k] # q[Len(q)]
    BY <2>3 DEF Distinct
  <2> QED BY <1>1, <2>2, <2>3, <2>4, Elements
<1>5. ASSUME NEW x \in ToSet(q), x # q[Len(q)] PROVE x \in ToSet(t)
  <2>1. PICK k \in 1..Len(q) : x = q[k]
    BY Elements
  <2>2. k \in 1..Len(t) /\ x = t[k]
    BY <1>1, <1>5, <2>1
  <2> QED BY <1>1, <2>2, Elements
<1> QED BY <1>1, <1>2, <1>3, <1>4, <1>5 DEF t

\* A client's reorder moves items and drops none.
LEMMA ReorderedItems ==
  ASSUME NEW S, NEW q \in Seq(S), NEW running, NEW meta, NEW order \in Seq(S)
  PROVE  /\ ToSet(Reordered(q, running, meta, order)) = ToSet(q)
         /\ Distinct(q) /\ Distinct(order) => Distinct(Reordered(q, running, meta, order))
<1> DEFINE queued == (ToSet(q) \cap meta) \ {running}
           a == Kept(q, ToSet(q) \ queued)
           b == Kept(order, queued)
           c == Kept(q, queued \ ToSet(order))
<1>1. /\ a \in Seq(S) /\ b \in Seq(S) /\ c \in Seq(S)
      /\ ToSet(a) = ToSet(q) \cap (ToSet(q) \ queued)
      /\ ToSet(b) = ToSet(order) \cap queued
      /\ ToSet(c) = ToSet(q) \cap (queued \ ToSet(order))
  BY KeptFacts
<1>2. Distinct(q) /\ Distinct(order) => Distinct(a) /\ Distinct(b) /\ Distinct(c)
  BY KeptDistinct
<1>3. Reordered(q, running, meta, order) = (a \o b) \o c
  BY DEF Reordered
<1>4. queued \subseteq ToSet(q)
  OBVIOUS
<1> HIDE DEF a, b, c, queued
<1>5. a \o b \in Seq(S) /\ ToSet(a \o b) = ToSet(a) \cup ToSet(b)
  BY <1>1, ConcatFacts
<1>6. ToSet((a \o b) \o c) = ToSet(a \o b) \cup ToSet(c)
  <2> DEFINE ab == a \o b
  <2>1. ab \in Seq(S)
    BY <1>5
  <2> HIDE DEF ab
  <2>2. ToSet(ab \o c) = ToSet(ab) \cup ToSet(c)
    BY <1>1, <2>1, ConcatFacts
  <2> QED BY <2>2 DEF ab
<1>7. ASSUME Distinct(q), Distinct(order) PROVE Distinct((a \o b) \o c)
  <2>1. Distinct(a \o b)
    <3>1. ToSet(a) \cap ToSet(b) = {}
      BY <1>1
    <3> QED BY <1>1, <1>2, <1>7, <3>1, ConcatFacts
  <2>2. ToSet(a \o b) \cap ToSet(c) = {}
    BY <1>1, <1>5
  <2> QED BY <1>1, <1>2, <1>5, <1>7, <2>1, <2>2, ConcatFacts
<1> QED BY <1>1, <1>3, <1>4, <1>5, <1>6, <1>7

-----------------------------------------------------------------------------
\* RankStep, for a successor named by itself.
LEMMA RankNext ==
  ASSUME NEW q, NEW keep, NEW i \in Nat, NEW j, j = i + 1
  PROVE  /\ Rank(q, keep, i) \in Nat
         /\ q[j] \in keep => Rank(q, keep, j) = Rank(q, keep, i) + 1
         /\ q[j] \notin keep => Rank(q, keep, j) = Rank(q, keep, i)
  BY RankStep

\* What Kept returns is determined by the places of the kept items.
LEMMA KeptIs ==
  ASSUME NEW S, NEW q \in Seq(S), NEW keep, NEW r \in Seq(S),
         Len(r) = Rank(q, keep, Len(q)),
         \A i \in 1..Len(q) : q[i] \in keep => r[Rank(q, keep, i)] = q[i]
  PROVE  Kept(q, keep) = r
<1>1. /\ Kept(q, keep) \in Seq(S)
      /\ \A j \in 1..Len(Kept(q, keep)) :
            \E i \in 1..Len(q) : q[i] \in keep /\ Rank(q, keep, i) = j /\ Kept(q, keep)[j] = q[i]
  BY KeptIndex
<1>2. Len(Kept(q, keep)) = Rank(q, keep, Len(q))
  <2>1. Rank(q, keep, Len(q)) \in Nat
    BY RankStep
  <2> QED BY <2>1 DEF Kept
<1> DEFINE k == Kept(q, keep)
<1>3. k \in Seq(S) /\ Len(k) = Len(r) /\ \A j \in 1..Len(k) : k[j] = r[j]
  BY <1>1, <1>2
<1> HIDE DEF k
<1>4. k = r
  BY <1>3
<1> QED BY <1>4 DEF k

\* Only what "keep" says of the queue's own items matters.
LEMMA KeptSame ==
  ASSUME NEW S, NEW q \in Seq(S), NEW keep, NEW other,
         \A x \in ToSet(q) : x \in keep <=> x \in other
  PROVE  Kept(q, keep) = Kept(q, other)
<1>1. \A k \in 1..Len(q) : q[k] \in keep <=> q[k] \in other
  BY Elements
<1>2. ASSUME NEW i \in 0..Len(q) PROVE Rank(q, keep, i) = Rank(q, other, i)
  <2>1. {k \in 1..i : q[k] \in keep} = {k \in 1..i : q[k] \in other}
    BY <1>1
  <2> QED BY <2>1, Zenon DEF Rank
<1> DEFINE r == Kept(q, other)
<1>3. r \in Seq(S) /\ \A i \in 1..Len(q) : q[i] \in other => r[Rank(q, other, i)] = q[i]
  BY KeptIndex
<1>4. Len(r) = Rank(q, other, Len(q))
  <2>1. Rank(q, other, Len(q)) \in Nat
    BY RankStep
  <2> QED BY <2>1 DEF Kept
<1> HIDE DEF r
<1>5. Len(q) \in 0..Len(q) /\ 1..Len(q) \subseteq 0..Len(q)
  OBVIOUS
<1>6. Len(r) = Rank(q, keep, Len(q)) /\ \A i \in 1..Len(q) : q[i] \in keep => r[Rank(q, keep, i)] = q[i]
  BY <1>1, <1>2, <1>3, <1>4, <1>5
<1>7. Kept(q, keep) = r
  BY <1>3, <1>6, KeptIs
<1> QED BY <1>7 DEF r

\* A queue all of whose items are kept is returned as it is.
LEMMA KeptAll ==
  ASSUME NEW S, NEW q \in Seq(S), NEW keep, ToSet(q) \subseteq keep
  PROVE  Kept(q, keep) = q
<1>1. \A k \in 1..Len(q) : q[k] \in keep
  BY Elements
<1>2. ASSUME NEW i \in 0..Len(q) PROVE Rank(q, keep, i) = i
  <2>1. {k \in 1..i : q[k] \in keep} = 1..i
    BY <1>1
  <2>2. Cardinality(1..i) = i
    BY FS_Interval
  <2> QED BY <2>1, <2>2 DEF Rank
<1>3. Len(q) \in 0..Len(q) /\ 1..Len(q) \subseteq 0..Len(q)
  OBVIOUS
<1> QED BY <1>2, <1>3, KeptIs

\* An item pushed behind the queue is the last one kept, or not kept.
LEMMA KeptAppend ==
  ASSUME NEW S, NEW q \in Seq(S), NEW keep, NEW e \in S
  PROVE  Kept(Append(q, e), keep)
             = IF e \in keep THEN Append(Kept(q, keep), e) ELSE Kept(q, keep)
<1> DEFINE a == Append(q, e)
           k == Kept(q, keep)
           r == IF e \in keep THEN Append(k, e) ELSE k
<1>1. /\ a \in Seq(S) /\ Len(a) = Len(q) + 1 /\ Len(q) \in Nat
      /\ a[Len(q) + 1] = e /\ \A i \in 1..Len(q) : a[i] = q[i]
  OBVIOUS
<1>2. /\ k \in Seq(S)
      /\ \A i \in 1..Len(q) : q[i] \in keep =>
             Rank(q, keep, i) \in 1..Len(k) /\ k[Rank(q, keep, i)] = q[i]
  BY KeptIndex
<1>3. Len(k) = Rank(q, keep, Len(q))
  <2>1. Rank(q, keep, Len(q)) \in Nat
    BY RankStep
  <2> QED BY <2>1 DEF Kept
<1> HIDE DEF a, k
<1>4. ASSUME NEW i \in 0..Len(q) PROVE Rank(a, keep, i) = Rank(q, keep, i)
  <2>1. {j \in 1..i : a[j] \in keep} = {j \in 1..i : q[j] \in keep}
    BY <1>1
  <2> QED BY <2>1, Zenon DEF Rank
<1>5. Rank(a, keep, Len(a)) = IF e \in keep THEN Len(k) + 1 ELSE Len(k)
  <2>1. Rank(a, keep, Len(q) + 1) = IF a[Len(q) + 1] \in keep THEN Rank(a, keep, Len(q)) + 1
                                    ELSE Rank(a, keep, Len(q))
    <3> DEFINE n == Len(q)
               m == Len(q) + 1
    <3>1. n \in Nat /\ m = n + 1
      BY <1>1
    <3> HIDE DEF n, m
    <3>2. /\ a[m] \in keep => Rank(a, keep, m) = Rank(a, keep, n) + 1
          /\ a[m] \notin keep => Rank(a, keep, m) = Rank(a, keep, n)
      BY <3>1, RankNext
    <3> QED BY <3>2 DEF n, m
  <2> QED BY <1>1, <1>3, <1>4, <2>1
<1>6. r \in Seq(S) /\ Len(r) = Rank(a, keep, Len(a))
  BY <1>2, <1>5
<1>7. ASSUME NEW i \in 1..Len(a), a[i] \in keep PROVE r[Rank(a, keep, i)] = a[i]
  <2>1. CASE i = Len(q) + 1
    BY <1>1, <1>2, <1>5, <1>7, <2>1
  <2>2. CASE i \in 1..Len(q)
    <3>1. Rank(a, keep, i) = Rank(q, keep, i) /\ q[i] \in keep
      BY <1>1, <1>4, <1>7, <2>2
    <3>2. Rank(q, keep, i) \in 1..Len(k) /\ k[Rank(q, keep, i)] = a[i]
      BY <1>1, <1>2, <2>2, <3>1
    <3> QED BY <1>2, <3>1, <3>2
  <2>3. i = Len(q) + 1 \/ i \in 1..Len(q)
    BY <1>1
  <2> QED BY <2>1, <2>2, <2>3, Zenon
<1> HIDE DEF r
<1>8. Kept(a, keep) = r
  BY <1>1, <1>6, <1>7, KeptIs
<1> QED BY <1>8 DEF a, k, r

\* Popping the front pops it from what is kept, or leaves that alone.
LEMMA KeptTail ==
  ASSUME NEW S, NEW q \in Seq(S), NEW keep, q # <<>>
  PROVE  /\ Head(q) \notin keep => Kept(Tail(q), keep) = Kept(q, keep)
         /\ Head(q) \in keep => /\ Kept(q, keep) # <<>> /\ Head(Kept(q, keep)) = Head(q)
                                /\ Kept(Tail(q), keep) = Tail(Kept(q, keep))
<1> DEFINE t == Tail(q)
           k == Kept(q, keep)
           c == IF q[1] \in keep THEN 1 ELSE 0
           T == {i \in 0..Len(t) : Rank(q, keep, i + 1) # Rank(t, keep, i) + c}
<1>1. /\ t \in Seq(S) /\ Len(t) = Len(q) - 1 /\ Len(q) \in Nat /\ Len(q) >= 1
      /\ Head(q) = q[1] /\ \A i \in 1..Len(t) : t[i] = q[i + 1]
  OBVIOUS
<1>2. /\ k \in Seq(S)
      /\ \A i \in 1..Len(q) : q[i] \in keep =>
             Rank(q, keep, i) \in 1..Len(k) /\ k[Rank(q, keep, i)] = q[i]
  BY KeptIndex
<1>3. Len(k) = Rank(q, keep, Len(q))
  <2>1. Rank(q, keep, Len(q)) \in Nat
    BY RankStep
  <2> QED BY <2>1 DEF Kept
<1> HIDE DEF t, k
<1>4. Rank(q, keep, 1) = c
  <2>1. Rank(q, keep, 0) = 0 /\ Rank(q, keep, 0 + 1) = IF q[0 + 1] \in keep THEN Rank(q, keep, 0) + 1
                                                       ELSE Rank(q, keep, 0)
    BY RankStep
  <2> QED BY <2>1
<1>5. ASSUME NEW i \in Nat, NEW j, j = i + 1
      PROVE  /\ Rank(t, keep, i) \in Nat /\ Rank(q, keep, i) \in Nat
             /\ t[j] \in keep => Rank(t, keep, j) = Rank(t, keep, i) + 1
             /\ t[j] \notin keep => Rank(t, keep, j) = Rank(t, keep, i)
             /\ q[j] \in keep => Rank(q, keep, j) = Rank(q, keep, i) + 1
             /\ q[j] \notin keep => Rank(q, keep, j) = Rank(q, keep, i)
  BY <1>5, RankNext
<1>6. \A i \in Nat : Rank(t, keep, i) \in Nat
  BY <1>5, Zenon
<1>7. T = {}
  <2> SUFFICES ASSUME T # {} PROVE FALSE
    OBVIOUS
  <2>1. PICK m \in T : \A n \in T : m <= n
    <3>1. T \in SUBSET Nat
      BY <1>1
    <3> QED BY <3>1, NatMin
  <2>2. m \in Nat /\ m <= Len(t) /\ m # 0
    <3>1. Rank(t, keep, 0) = 0
      BY RankStep
    <3> QED BY <1>1, <1>4, <2>1, <3>1
  <2>3. m - 1 \in Nat /\ m - 1 \in 0..Len(t) /\ m - 1 \notin T
    BY <1>1, <2>1, <2>2
  <2>4. Rank(q, keep, m) = Rank(t, keep, m - 1) + c
    BY <2>2, <2>3
  <2>5. /\ t[m] \in keep => Rank(t, keep, m) = Rank(t, keep, m - 1) + 1
        /\ t[m] \notin keep => Rank(t, keep, m) = Rank(t, keep, m - 1)
    <3>1. m = (m - 1) + 1
      BY <2>2
    <3> QED BY <1>5, <2>3, <3>1, Zenon
  <2>6. /\ q[m + 1] \in keep => Rank(q, keep, m + 1) = Rank(q, keep, m) + 1
        /\ q[m + 1] \notin keep => Rank(q, keep, m + 1) = Rank(q, keep, m)
    BY <1>5, <2>2, Zenon
  <2>7. t[m] = q[m + 1]
    BY <1>1, <2>2
  <2>8. Rank(t, keep, m - 1) \in Nat /\ Rank(q, keep, m) \in Nat
    BY <2>2, <2>3, RankStep
  <2>9. Rank(q, keep, m + 1) = Rank(t, keep, m) + c
    BY <2>2, <2>4, <2>5, <2>6, <2>7, <2>8
  <2> QED BY <2>1, <2>9
<1>8. \A i \in 0..Len(t) : Rank(q, keep, i + 1) = Rank(t, keep, i) + c
  BY <1>7
<1> HIDE DEF T
<1>9. Len(k) = Rank(t, keep, Len(t)) + c
  <2>1. Len(t) \in 0..Len(t) /\ Len(t) + 1 = Len(q)
    BY <1>1
  <2> QED BY <1>3, <1>8, <2>1
<1>10. ASSUME NEW i \in 1..Len(t), t[i] \in keep
      PROVE  Rank(t, keep, i) + c \in 1..Len(k) /\ k[Rank(t, keep, i) + c] = t[i]
             /\ Rank(t, keep, i) \in 1..(Len(k) - c)
  <2>1. i \in 0..Len(t) /\ i + 1 \in 1..Len(q) /\ q[i + 1] = t[i] /\ i \in Nat
    BY <1>1
  <2>2. Rank(q, keep, i + 1) = Rank(t, keep, i) + c
    BY <1>8, <2>1
  <2>3. Rank(q, keep, i + 1) \in 1..Len(k) /\ k[Rank(q, keep, i + 1)] = q[i + 1]
    BY <1>2, <1>10, <2>1
  <2>4. Rank(t, keep, i) > 0
    <3>1. Rank(t, keep, 0) = 0 /\ Rank(t, keep, 0) < Rank(t, keep, i)
      BY <1>10, <2>1, RankStep, RankMonotone
    <3> QED BY <3>1
  <2>5. Rank(t, keep, i) \in Nat /\ Len(k) \in Nat /\ (c = 0 \/ c = 1)
    BY <1>2, <1>6, <2>1
  <2>6. Rank(t, keep, i) + c \in 1..Len(k) /\ k[Rank(t, keep, i) + c] = t[i]
    BY <2>1, <2>2, <2>3
  <2> HIDE DEF c
  <2> QED BY <2>4, <2>5, <2>6
<1>11. CASE Head(q) \notin keep
  <2>1. c = 0
    BY <1>1, <1>11
  <2>2. Len(k) = Rank(t, keep, Len(t)) /\ \A i \in 1..Len(t) : t[i] \in keep => k[Rank(t, keep, i)] = t[i]
    <3>2. \A i \in 1..Len(t) : t[i] \in keep => k[Rank(t, keep, i) + c] = t[i]
      BY <1>10
    <3> HIDE DEF c
    <3>3. Rank(t, keep, Len(t)) \in Nat /\ \A i \in 1..Len(t) : Rank(t, keep, i) \in Nat
      <4>1. Len(t) \in Nat /\ \A i \in 1..Len(t) : i \in Nat
        BY <1>1
      <4> QED BY <1>6, <4>1, Zenon
    <3>4. \A n \in Nat : n + c = n
      BY <2>1
    <3> QED BY <1>9, <3>2, <3>3, <3>4, Zenon
  <2>3. Kept(t, keep) = k
    BY SMTT(60), <1>1, <1>2, <2>2, KeptIs
  <2> QED BY <1>11, <2>3 DEF t, k
<1>12. CASE Head(q) \in keep
  <2>1. c = 1
    BY <1>1, <1>12
  <2>2. Len(k) >= 1 /\ k[1] = q[1]
    <3>1. 1 \in 1..Len(q) /\ q[1] \in keep
      BY <1>1, <1>12
    <3>2. Rank(q, keep, 1) \in 1..Len(k) /\ k[Rank(q, keep, 1)] = q[1]
      BY <1>2, <3>1
    <3> QED BY <1>2, <1>4, <2>1, <3>2
  <2> DEFINE r == Tail(k)
  <2>3. r \in Seq(S) /\ Len(r) = Len(k) - 1 /\ \A j \in 1..Len(r) : r[j] = k[j + 1]
    BY <1>2, <2>2
  <2>4. k # <<>> /\ Head(k) = Head(q)
    BY <1>1, <1>2, <2>2
  <2> HIDE DEF r
  <2>5. Len(r) = Rank(t, keep, Len(t))
    <3>1. Rank(t, keep, Len(t)) \in Nat
      <4>1. Len(t) \in Nat
        BY <1>1
      <4> QED BY <1>6, <4>1, Zenon
    <3> HIDE DEF c
    <3> QED BY <1>9, <2>1, <2>3, <3>1
  <2>6. \A i \in 1..Len(t) : t[i] \in keep => r[Rank(t, keep, i)] = t[i]
    BY <1>2, <1>10, <2>1, <2>3
  <2>7. Kept(t, keep) = r
    BY <1>1, <2>3, <2>5, <2>6, KeptIs, Zenon
  <2> QED BY <1>12, <2>4, <2>7 DEF t, k, r
<1> QED BY <1>11, <1>12

=============================================================================
