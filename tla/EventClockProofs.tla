-------------------------- MODULE EventClockProofs ---------------------------
(***************************************************************************)
(* Proofs about EventClock for every tick length, every size of the queue  *)
(* and every number of events, ticks and control words: its types, that no *)
(* event is late by more than the cycle hack allows, that the timer keeps  *)
(* its event, and that emulated time goes neither back nor ahead.          *)
(***************************************************************************)
EXTENDS EventClock, FiniteSetTheorems, WellFoundedInduction, TLAPS

-----------------------------------------------------------------------------
(* Sets of places in a queue *)

LEMMA LeastOf ==
    ASSUME NEW S, S \subseteq Nat, S # {}
    PROVE  \E x \in S : \A y \in S : x <= y
<1> DEFINE less == {p \in Nat \X Nat : p[1] < p[2]}
<1>1. IsWellFoundedOn(less, Nat)
    BY NatLessThanWellFounded DEF OpToRel
<1> HIDE DEF less
<1>2. PICK x \in S : \A y \in S : <<y, x>> \notin less
    BY <1>1, WFMin
<1> USE DEF less
<1>3. \A y \in S : ~(y < x)
    BY <1>2
<1>4. \A y \in S : x <= y
    BY <1>3
<1> QED BY <1>4

LEMMA PlacesFinite ==
    ASSUME NEW n \in Nat, NEW K \in SUBSET (1 .. n)
    PROVE  IsFiniteSet(K) /\ Cardinality(K) \in Nat /\ Cardinality(K) <= n
<1>1. IsFiniteSet(1 .. n) /\ Cardinality(1 .. n) = n
    BY FS_Interval
<1> QED BY <1>1, FS_Subset, FS_CardinalityType

\* Of the places in K one has k - 1 others of K before it.
LEMMA KthPlace ==
    ASSUME NEW n \in Nat, NEW K \in SUBSET (1 .. n), NEW k \in 1 .. Cardinality(K)
    PROVE  \E i \in K : Cardinality({j \in K : j < i}) = k - 1
<1> DEFINE Upto(m) == {j \in K : j <= m}
           S == {m \in Nat : k <= Cardinality(Upto(m))}
<1>1. \A m \in Nat : Upto(m) \in SUBSET (1 .. n) /\ Cardinality(Upto(m)) \in Nat /\ IsFiniteSet(Upto(m))
    <2> SUFFICES ASSUME NEW m \in Nat
                 PROVE  Upto(m) \in SUBSET (1 .. n) /\ Cardinality(Upto(m)) \in Nat /\ IsFiniteSet(Upto(m))
        OBVIOUS
    <2>1. Upto(m) \in SUBSET (1 .. n)
        OBVIOUS
    <2> HIDE DEF Upto
    <2> QED BY <2>1, PlacesFinite
<1>a. \A j \in K : j \in Nat /\ 1 <= j /\ j <= n
    OBVIOUS
<1>2. Upto(n) = K /\ Upto(0) = {}
    <2>1. \A j \in K : j <= n /\ ~(j <= 0)
        BY <1>a
    <2>2. Upto(n) = K
        BY <2>1
    <2>3. Upto(0) = {}
        BY <2>1
    <2> QED BY <2>2, <2>3
<1>3. k \in Nat /\ k >= 1 /\ Cardinality(K) \in Nat /\ k <= Cardinality(K)
    BY PlacesFinite
<1> HIDE DEF Upto
<1>4. n \in S /\ 0 \notin S
    <2>1. Cardinality(Upto(0)) = 0
        BY <1>2, FS_EmptySet
    <2> QED BY <1>2, <1>3, <2>1
<1>5. PICK m \in S : \A x \in S : m <= x
    <2> HIDE DEF S
    <2>1. S \subseteq Nat
        BY DEF S
    <2> QED BY <1>4, <2>1, LeastOf
<1>6. m \in Nat /\ m # 0 /\ m - 1 \in Nat /\ m - 1 \notin S
    BY <1>4, <1>5
<1>7. ~(k <= Cardinality(Upto(m - 1))) /\ k <= Cardinality(Upto(m))
    BY <1>5, <1>6
<1>8. Upto(m) = IF m \in K THEN Upto(m - 1) \cup {m} ELSE Upto(m - 1)
    <2> HIDE DEF S
    <2>1. \A j \in K : j <= m <=> j <= m - 1 \/ j = m
        BY <1>a, <1>6
    <2> QED BY <2>1 DEF Upto
<1>9. m \notin Upto(m - 1)
    BY <1>6 DEF Upto
<1>10. m \in K
    BY <1>7, <1>8
<1>11. Cardinality(Upto(m)) = Cardinality(Upto(m - 1)) + 1
    BY <1>1, <1>6, <1>8, <1>9, <1>10, FS_AddElement
<1>12. Cardinality(Upto(m - 1)) \in Nat /\ Cardinality(Upto(m)) \in Nat
    BY <1>1, <1>6
<1>13. Cardinality(Upto(m - 1)) = k - 1
    BY <1>3, <1>7, <1>11, <1>12
<1>14. {j \in K : j < m} = Upto(m - 1)
    <2> HIDE DEF S
    <2>1. \A j \in K : j < m <=> j <= m - 1
        BY <1>a, <1>6
    <2> QED BY <2>1 DEF Upto
<1> QED BY <1>10, <1>13, <1>14

LEMMA MoreBefore ==
    ASSUME NEW n \in Nat, NEW K \in SUBSET (1 .. n), NEW i \in K, NEW j \in K, i < j
    PROVE  Cardinality({x \in K : x < i}) < Cardinality({x \in K : x < j})
<1> DEFINE I == {x \in K : x < i}
           J == {x \in K : x < j}
<1>a. \A x \in K : x \in Nat /\ x \in 1 .. n
    OBVIOUS
<1>1. I \in SUBSET (1 .. n) /\ J \in SUBSET (1 .. n) /\ i \notin I /\ I \cup {i} \subseteq J
    <2>1. \A x \in K : x < i => x < j
        BY <1>a
    <2>2. ~(i < i)
        BY <1>a
    <2> QED BY <1>a, <2>1, <2>2
<1> HIDE DEF I, J
<1>2. IsFiniteSet(I) /\ IsFiniteSet(J) /\ Cardinality(I) \in Nat /\ Cardinality(J) \in Nat
    BY <1>1, PlacesFinite
<1>3. Cardinality(I \cup {i}) = Cardinality(I) + 1
    BY <1>1, <1>2, FS_AddElement
<1>4. Cardinality(I \cup {i}) <= Cardinality(J)
    BY <1>1, <1>2, FS_Subset
<1>5. Cardinality(I) < Cardinality(J)
    BY <1>2, <1>3, <1>4
<1> QED BY <1>5 DEF I, J

-----------------------------------------------------------------------------
(* What the operators on the queue return *)

Ordered(q) == \A i, j \in 1 .. Len(q) : i < j => q[i].at <= q[j].at

LEMMA InsertIs ==
    ASSUME NEW q \in Seq(Events), NEW e \in Events
    PROVE  \E k \in 1 .. Len(q) + 1 :
              /\ \A i \in 1 .. k - 1 : q[i].at <= e.at
              /\ k <= Len(q) => q[k].at > e.at
              /\ Insert(q, e) = [i \in 1 .. Len(q) + 1 |->
                                    IF i < k THEN q[i] ELSE IF i = k THEN e ELSE q[i - 1]]
<1> DEFINE n == Len(q)
           Here(k) == (\A i \in 1 .. k - 1 : q[i].at <= e.at) /\ (k <= n => q[k].at > e.at)
           S == {k \in 1 .. n + 1 : k <= n => q[k].at > e.at}
           k == CHOOSE x \in 1 .. n + 1 : Here(x)
<1>1. n \in Nat /\ \A i \in 1 .. n : q[i].at \in Int
    <2>1. n \in Nat /\ \A i \in 1 .. n : q[i] \in Events
        OBVIOUS
    <2> QED BY <2>1 DEF Events
<1>2. e.at \in Int
    BY DEF Events
<1>3. \E x \in 1 .. n + 1 : Here(x)
    <2> HIDE DEF n
    <2>1. S \subseteq Nat /\ n + 1 \in S
        BY <1>1
    <2> HIDE DEF S
    <2>2. PICK x \in S : \A y \in S : x <= y
        BY <2>1, LeastOf
    <2> USE DEF S
    <2>3. x \in 1 .. n + 1
        OBVIOUS
    <2>4. ASSUME NEW i \in 1 .. x - 1 PROVE q[i].at <= e.at
        <3>1. i \in 1 .. n + 1 /\ i \in 1 .. n /\ ~(x <= i)
            BY <1>1, <2>3
        <3>2. ~(q[i].at > e.at)
            BY <2>2, <3>1
        <3> QED BY <3>1, <3>2, <1>1, <1>2
    <2> QED BY <2>3, <2>4
<1>4. k \in 1 .. n + 1 /\ Here(k)
    BY <1>3
<1>5. Insert(q, e) = [i \in 1 .. n + 1 |-> IF i < k THEN q[i] ELSE IF i = k THEN e ELSE q[i - 1]]
    BY DEF Insert
<1> HIDE DEF k
<1> QED BY <1>4, <1>5

\* The event is in the queue and all others are where they were, by order.
LEMMA InsertKeeps ==
    ASSUME NEW q \in Seq(Events), NEW e \in Events
    PROVE  LET r == Insert(q, e)
           IN /\ r \in Seq(Events) /\ Len(r) = Len(q) + 1
              /\ Ordered(q) => Ordered(r)
              /\ \E k \in 1 .. Len(r) :
                    r[k] = e /\ \A i \in 1 .. Len(q) : IF i < k THEN r[i] = q[i] ELSE r[i + 1] = q[i]
<1> DEFINE n == Len(q)
           r == Insert(q, e)
<1>1. n \in Nat /\ \A i \in 1 .. n : q[i] \in Events /\ q[i].at \in Int
    <2>1. n \in Nat /\ \A i \in 1 .. n : q[i] \in Events
        OBVIOUS
    <2> QED BY <2>1 DEF Events
<1>2. e.at \in Int
    BY DEF Events
<1>3. PICK k \in 1 .. n + 1 :
            /\ \A i \in 1 .. k - 1 : q[i].at <= e.at
            /\ k <= n => q[k].at > e.at
            /\ r = [i \in 1 .. n + 1 |-> IF i < k THEN q[i] ELSE IF i = k THEN e ELSE q[i - 1]]
    BY InsertIs
<1> HIDE DEF n, r
<1>4. \A i \in 1 .. n + 1 : (i < k => i \in 1 .. n) /\ (i > k => i - 1 \in 1 .. n)
    BY <1>1
<1>5. \A i \in 1 .. n + 1 : /\ i < k => r[i] = q[i]
                            /\ i = k => r[i] = e
                            /\ i > k => r[i] = q[i - 1]
    BY <1>1, <1>3
<1>6. \A i \in 1 .. n + 1 : r[i] \in Events
    <2> SUFFICES ASSUME NEW i \in 1 .. n + 1 PROVE r[i] \in Events
        OBVIOUS
    <2>1. i < k \/ i = k \/ i > k
        BY <1>1
    <2> QED BY <2>1, <1>1, <1>4, <1>5
<1>7. r \in Seq(Events) /\ Len(r) = n + 1
    <2>1. r \in [1 .. n + 1 -> Events] /\ n + 1 \in Nat
        BY <1>1, <1>3, <1>6
    <2> QED BY <2>1
<1>8. ASSUME Ordered(q) PROVE Ordered(r)
    <2> SUFFICES ASSUME NEW i \in 1 .. n + 1, NEW j \in 1 .. n + 1, i < j PROVE r[i].at <= r[j].at
        BY <1>7 DEF Ordered
    <2>1. \A x, y \in 1 .. n : x < y => q[x].at <= q[y].at
        BY <1>8 DEF Ordered, n
    <2>2. CASE j < k
        <3>1. i < k /\ i \in 1 .. n /\ j \in 1 .. n
            BY <2>2, <1>1, <1>4
        <3> QED BY <3>1, <2>1, <2>2, <1>5
    <2>3. CASE j = k
        <3>1. i < k /\ i \in 1 .. k - 1
            BY <2>3, <1>1
        <3> QED BY <3>1, <2>3, <1>3, <1>5
    <2>4. CASE j > k
        <3> DEFINE y == j - 1
        <3>1. r[j] = q[y] /\ y \in 1 .. n /\ y >= k
            BY <2>4, <1>1, <1>4, <1>5
        <3> HIDE DEF y
        <3>2. q[y].at > e.at
            <4>1. k \in 1 .. n /\ q[k].at > e.at
                BY <3>1, <1>1, <1>3
            <4>2. k = y \/ q[k].at <= q[y].at
                BY <3>1, <4>1, <2>1, <1>1
            <4> QED BY <4>1, <4>2, <3>1, <1>1, <1>2
        <3>3. CASE i < k
            <4>1. i \in 1 .. k - 1 /\ r[i] = q[i] /\ i \in 1 .. n
                BY <3>3, <1>1, <1>4, <1>5
            <4> QED BY <4>1, <3>1, <3>2, <1>1, <1>2, <1>3
        <3>4. CASE i = k
            BY <3>1, <3>2, <3>4, <1>1, <1>2, <1>5
        <3>5. CASE i > k
            <4>1. r[i] = q[i - 1] /\ i - 1 \in 1 .. n /\ i - 1 < y
                BY <3>5, <1>1, <1>4, <1>5 DEF y
            <4> QED BY <4>1, <3>1, <2>1
        <3> QED BY <3>3, <3>4, <3>5, <1>1
    <2> QED BY <2>2, <2>3, <2>4, <1>1
<1>9. r[k] = e /\ \A i \in 1 .. n : IF i < k THEN r[i] = q[i] ELSE r[i + 1] = q[i]
    <2>1. ASSUME NEW i \in 1 .. n PROVE IF i < k THEN r[i] = q[i] ELSE r[i + 1] = q[i]
        <3>1. i \in 1 .. n + 1 /\ i + 1 \in 1 .. n + 1 /\ (i + 1) - 1 = i /\ (~(i < k) => i + 1 > k)
            BY <1>1
        <3> QED BY <3>1, <1>5
    <2> QED BY <2>1, <1>5
<1>10. k \in 1 .. Len(r)
    BY <1>7
<1> QED BY <1>7, <1>8, <1>9, <1>10 DEF r, n

\* What stays, in the order it had.
LEMMA RemovedIs ==
    ASSUME NEW q \in Seq(Events), NEW owner
    PROVE  LET r == Removed(q, owner)
           IN /\ r \in Seq(Events) /\ Len(r) <= Len(q)
              /\ \E f \in [1 .. Len(r) -> 1 .. Len(q)] :
                    /\ \A x \in 1 .. Len(r) : r[x] = q[f[x]] /\ q[f[x]].owner # owner
                    /\ \A x, y \in 1 .. Len(r) : x < y => f[x] < f[y]
                    /\ \A i \in 1 .. Len(q) : q[i].owner # owner => \E x \in 1 .. Len(r) : f[x] = i
<1> DEFINE n == Len(q)
           kept == {i \in 1 .. n : q[i].owner # owner}
           Before(i) == {j \in kept : j < i}
           c == Cardinality(kept)
           f == [k \in 1 .. c |-> CHOOSE i \in kept : Cardinality(Before(i)) = k - 1]
           r == Removed(q, owner)
<1>1. n \in Nat /\ kept \in SUBSET (1 .. n) /\ \A i \in 1 .. n : q[i] \in Events
    OBVIOUS
<1>2. r = [k \in 1 .. c |-> q[f[k]]]
    BY DEF Removed
<1> HIDE DEF n, kept, r
<1>b. \A i \in kept : i \in Int
    BY <1>1
<1>3. c \in Nat /\ c <= n /\ IsFiniteSet(kept)
    BY <1>1, PlacesFinite
<1>4. \A k \in 1 .. c : f[k] \in kept /\ Cardinality(Before(f[k])) = k - 1
    <2> SUFFICES ASSUME NEW k \in 1 .. c PROVE f[k] \in kept /\ Cardinality(Before(f[k])) = k - 1
        OBVIOUS
    <2>1. \E i \in kept : Cardinality(Before(i)) = k - 1
        BY <1>1, KthPlace
    <2> HIDE DEF Before, c
    <2> QED BY <2>1
<1>5. \A i, j \in kept : i < j => Cardinality(Before(i)) < Cardinality(Before(j))
    BY <1>1, MoreBefore
<1>6. \A i \in kept : Cardinality(Before(i)) \in Nat /\ Cardinality(Before(i)) < c
    <2> SUFFICES ASSUME NEW i \in kept PROVE Cardinality(Before(i)) \in Nat /\ Cardinality(Before(i)) < c
        OBVIOUS
    <2>a. ~(i < i)
        BY <1>b
    <2>1. Before(i) \in SUBSET (1 .. n) /\ Before(i) \subseteq kept /\ i \notin Before(i)
        BY <2>a, <1>1
    <2> HIDE DEF Before
    <2>2. Cardinality(Before(i)) \in Nat /\ IsFiniteSet(Before(i))
        BY <2>1, <1>1, PlacesFinite
    <2>3. Cardinality(Before(i)) <= c /\ Cardinality(Before(i)) # c
        BY <2>1, <1>3, FS_Subset
    <2> QED BY <2>2, <2>3, <1>3
<1> HIDE DEF Before, c
<1>7. f \in [1 .. c -> 1 .. n]
    <2>1. DOMAIN f = 1 .. c /\ f = [k \in 1 .. c |-> f[k]]
        OBVIOUS
    <2> HIDE DEF f
    <2> QED BY <2>1, <1>1, <1>4
<1> HIDE DEF f
<1>8. r \in Seq(Events) /\ Len(r) = c
    <2>1. r \in [1 .. c -> Events]
        BY <1>1, <1>2, <1>7
    <2> QED BY <2>1, <1>3
<1>9. ASSUME NEW x \in 1 .. c, NEW y \in 1 .. c, x < y PROVE f[x] < f[y]
    <2>1. f[x] \in kept /\ f[y] \in kept /\ f[x] \in Int /\ f[y] \in Int
        BY <1>b, <1>4
    <2>2. f[x] # f[y]
        BY <1>3, <1>4, <1>9
    <2>3. ~(f[y] < f[x])
        BY <2>1, <1>3, <1>4, <1>5, <1>9
    <2> QED BY <2>1, <2>2, <2>3
<1>10. ASSUME NEW i \in kept PROVE \E x \in 1 .. c : f[x] = i
    <2> DEFINE x == Cardinality(Before(i)) + 1
    <2>1. x \in 1 .. c /\ x - 1 = Cardinality(Before(i))
        BY <1>3, <1>6
    <2> HIDE DEF x
    <2>2. f[x] \in kept /\ Cardinality(Before(f[x])) = Cardinality(Before(i))
        BY <2>1, <1>4
    <2>3. ~(f[x] < i) /\ ~(i < f[x])
        BY <2>2, <1>5, <1>6
    <2>4. f[x] = i
        BY <2>2, <2>3, <1>b
    <2> QED BY <2>1, <2>4
<1>11. \A x \in 1 .. c : r[x] = q[f[x]] /\ q[f[x]].owner # owner
    BY <1>2, <1>4 DEF kept
<1>12. \A i \in 1 .. n : q[i].owner # owner => \E x \in 1 .. c : f[x] = i
    BY <1>10 DEF kept
<1>13. f \in [1 .. Len(r) -> 1 .. n] /\ Len(r) <= n
    BY <1>3, <1>7, <1>8
<1> QED BY <1>8, <1>9, <1>11, <1>12, <1>13 DEF n, r

-----------------------------------------------------------------------------
(* The queue stays ordered and within its size *)

GoodQueue(q) == q \in Seq(Events) /\ Len(q) <= QueueSize /\ Ordered(q)

LEMMA AddedGood ==
    ASSUME NEW q, GoodQueue(q), NEW inUse \in Nat, Len(q) <= inUse,
           NEW owner \in {Pit, Device}, NEW at \in Int
    PROVE  GoodQueue(Added(q, inUse, owner, at))
<1> DEFINE e == [at |-> at, owner |-> owner]
           r == Insert(q, e)
<1>1. e \in Events
    BY DEF Events
<1>2. q \in Seq(Events) /\ Len(q) \in Nat /\ Len(q) <= QueueSize /\ Ordered(q) /\ QueueSize \in Nat
    BY ClockAssumption DEF GoodQueue
<1>3. Added(q, inUse, owner, at) = IF inUse >= QueueSize THEN q ELSE r
    BY DEF Added
<1> HIDE DEF e
<1>4. r \in Seq(Events) /\ Len(r) = Len(q) + 1 /\ Ordered(r)
    BY <1>1, <1>2, InsertKeeps
<1> HIDE DEF r
<1>5. CASE inUse >= QueueSize
    BY <1>3, <1>5
<1>6. CASE ~(inUse >= QueueSize)
    <2>1. Len(r) <= QueueSize
        BY <1>2, <1>4, <1>6
    <2> QED BY <2>1, <1>3, <1>4, <1>6 DEF GoodQueue
<1> QED BY <1>5, <1>6

LEMMA RemovedGood ==
    ASSUME NEW q, GoodQueue(q), NEW owner
    PROVE  /\ GoodQueue(Removed(q, owner))
           /\ Removed(q, owner) # <<>> => q # <<>> /\ Removed(q, owner)[1].at >= q[1].at
<1> DEFINE r == Removed(q, owner)
<1>1. q \in Seq(Events) /\ Len(q) \in Nat /\ Len(q) <= QueueSize /\ Ordered(q) /\ QueueSize \in Nat
    BY ClockAssumption DEF GoodQueue
<1>2. r \in Seq(Events) /\ Len(r) <= Len(q) /\ Len(r) \in Nat
    BY <1>1, RemovedIs
<1>3. PICK f \in [1 .. Len(r) -> 1 .. Len(q)] :
          /\ \A x \in 1 .. Len(r) : r[x] = q[f[x]]
          /\ \A x, y \in 1 .. Len(r) : x < y => f[x] < f[y]
    BY <1>1, RemovedIs
<1> HIDE DEF r
<1>4. Len(r) <= QueueSize
    BY <1>1, <1>2
<1>5. Ordered(r)
    BY <1>1, <1>3 DEF Ordered
<1>6. ASSUME r # <<>> PROVE q # <<>> /\ r[1].at >= q[1].at
    <2>1. 1 \in 1 .. Len(r)
        BY <1>2, <1>6
    <2>2. f[1] \in 1 .. Len(q) /\ r[1] = q[f[1]]
        BY <2>1, <1>3
    <2>3. 1 \in 1 .. Len(q) /\ q[1] \in Events /\ q[f[1]] \in Events
        BY <2>2, <1>1
    <2>4. f[1] = 1 \/ q[1].at <= q[f[1]].at
        BY <2>2, <2>3, <1>1 DEF Ordered
    <2>5. q[1].at \in Int /\ q[f[1]].at \in Int
        BY <2>3 DEF Events
    <2> QED BY <2>2, <2>3, <2>4, <2>5
<1> QED BY <1>2, <1>4, <1>5, <1>6 DEF GoodQueue, r

LEMMA TailGood ==
    ASSUME NEW q, GoodQueue(q), q # <<>>
    PROVE  GoodQueue(Tail(q)) /\ Len(Tail(q)) = Len(q) - 1 /\ Len(q) \in Nat \ {0}
<1>1. q \in Seq(Events) /\ Len(q) \in Nat \ {0} /\ Len(q) <= QueueSize /\ Ordered(q) /\ QueueSize \in Nat
    BY ClockAssumption DEF GoodQueue
<1>2. /\ Tail(q) \in Seq(Events) /\ Len(Tail(q)) = Len(q) - 1
      /\ \A i \in 1 .. Len(q) - 1 : Tail(q)[i] = q[i + 1] /\ i + 1 \in 1 .. Len(q)
    BY <1>1
<1>3. Ordered(Tail(q))
    <2> SUFFICES ASSUME NEW i \in 1 .. Len(q) - 1, NEW j \in 1 .. Len(q) - 1, i < j
                 PROVE  q[i + 1].at <= q[j + 1].at
        BY <1>2 DEF Ordered
    <2>1. i + 1 < j + 1 /\ i + 1 \in 1 .. Len(q) /\ j + 1 \in 1 .. Len(q)
        BY <1>1
    <2> QED BY <2>1, <1>1 DEF Ordered
<1>4. Len(Tail(q)) <= QueueSize
    BY <1>1, <1>2
<1> QED BY <1>1, <1>2, <1>3, <1>4 DEF GoodQueue

LEMMA LoweredIs ==
    ASSUME NEW q \in Seq(Events)
    PROVE  /\ Lowered(q) \in Seq(Events) /\ Len(Lowered(q)) = Len(q)
           /\ \A i \in 1 .. Len(q) : /\ Lowered(q)[i].at = q[i].at - CycleMax
                                     /\ Lowered(q)[i].owner = q[i].owner
<1> DEFINE Low(i) == [q[i] EXCEPT !.at = q[i].at - CycleMax]
           n == Len(q)
<1>1. Lowered(q) = [i \in 1 .. n |-> Low(i)]
    BY DEF Lowered
<1>2. n \in Nat /\ CycleMax \in Int
    BY ClockAssumption
<1>3. ASSUME NEW i \in 1 .. n
      PROVE  Low(i) \in Events /\ Low(i).at = q[i].at - CycleMax /\ Low(i).owner = q[i].owner
    <2>1. q[i] \in Events
        OBVIOUS
    <2>2. q[i].at - CycleMax \in Int
        BY <2>1, <1>2 DEF Events
    <2> QED BY <2>1, <2>2 DEF Events
<1> HIDE DEF Low
<1> QED BY <1>1, <1>2, <1>3

LEMMA LoweredGood ==
    ASSUME NEW q, GoodQueue(q)
    PROVE  GoodQueue(Lowered(q)) /\ Len(Lowered(q)) = Len(q)
<1>1. q \in Seq(Events) /\ Len(q) <= QueueSize /\ Ordered(q) /\ CycleMax \in Int
    BY ClockAssumption DEF GoodQueue
<1>2. \A i \in 1 .. Len(q) : q[i].at \in Int
    <2>1. \A i \in 1 .. Len(q) : q[i] \in Events
        BY <1>1
    <2> QED BY <2>1 DEF Events
<1>3. Ordered(Lowered(q))
    BY <1>1, <1>2, LoweredIs DEF Ordered
<1> QED BY <1>1, <1>3, LoweredIs DEF GoodQueue

-----------------------------------------------------------------------------
(* The timer's events in the queue *)

IsPit(q, i) == q[i].owner = Pit
NoPit(q) == \A i \in 1 .. Len(q) : ~IsPit(q, i)
SomePit(q) == \E i \in 1 .. Len(q) : IsPit(q, i)
OnePit(q) == \A i, j \in 1 .. Len(q) : IsPit(q, i) /\ IsPit(q, j) => i = j

\* A change of the queue that is not about the timer.
SamePits(q, r) ==
    (NoPit(q) => NoPit(r)) /\ (SomePit(q) => SomePit(r)) /\ (OnePit(q) => OnePit(r))

LEMMA InsertPits ==
    ASSUME NEW q \in Seq(Events), NEW e \in Events
    PROVE  /\ e.owner = Device => SamePits(q, Insert(q, e))
           /\ e.owner = Pit /\ NoPit(q) => OnePit(Insert(q, e)) /\ SomePit(Insert(q, e))
<1> DEFINE r == Insert(q, e)
           n == Len(q)
<1>1. n \in Nat /\ Len(r) = n + 1
    BY InsertKeeps
<1>2. PICK k \in 1 .. Len(r) :
          r[k] = e /\ \A i \in 1 .. n : IF i < k THEN r[i] = q[i] ELSE r[i + 1] = q[i]
    BY InsertKeeps
<1> DEFINE from(i) == IF i < k THEN i ELSE i - 1
           to(i) == IF i < k THEN i ELSE i + 1
<1> HIDE DEF r, n
<1>3. ASSUME NEW i \in 1 .. n + 1, i # k PROVE from(i) \in 1 .. n /\ r[i] = q[from(i)]
    <2>1. from(i) \in 1 .. n /\ (IF from(i) < k THEN from(i) = i ELSE from(i) + 1 = i)
        BY <1>1, <1>3
    <2> HIDE DEF from
    <2> QED BY <2>1, <1>2
<1>4. ASSUME NEW i \in 1 .. n PROVE to(i) \in 1 .. n + 1 /\ to(i) # k /\ r[to(i)] = q[i]
    BY <1>1, <1>2
<1>5. \A i, j \in 1 .. n + 1 : i # k /\ j # k /\ from(i) = from(j) => i = j
    BY <1>1
<1>6. ASSUME e.owner = Device PROVE SamePits(q, r)
    <2>1. ~IsPit(r, k)
        BY <1>2, <1>6 DEF IsPit, Pit, Device
    <2>2. \A i \in 1 .. n + 1 : IsPit(r, i) => i # k /\ from(i) \in 1 .. n /\ IsPit(q, from(i))
        BY <2>1, <1>3 DEF IsPit
    <2>3. \A i \in 1 .. n : IsPit(q, i) => to(i) \in 1 .. n + 1 /\ IsPit(r, to(i))
        BY <1>4 DEF IsPit
    <2> HIDE DEF from, to
    <2> QED BY <2>2, <2>3, <1>1, <1>5 DEF SamePits, NoPit, SomePit, OnePit, n
<1>7. ASSUME e.owner = Pit, NoPit(q) PROVE OnePit(r) /\ SomePit(r)
    <2>1. IsPit(r, k)
        BY <1>2, <1>7 DEF IsPit
    <2>2. \A i \in 1 .. n + 1 : IsPit(r, i) => i = k
        BY <1>3, <1>7 DEF IsPit, NoPit, n
    <2> QED BY <2>1, <2>2, <1>1 DEF OnePit, SomePit
<1> QED BY <1>6, <1>7 DEF r

LEMMA RemovedPits ==
    ASSUME NEW q \in Seq(Events)
    PROVE  SamePits(q, Removed(q, Device)) /\ NoPit(Removed(q, Pit))
<1>1. SamePits(q, Removed(q, Device))
    <2> DEFINE r == Removed(q, Device)
    <2>1. PICK f \in [1 .. Len(r) -> 1 .. Len(q)] :
              /\ \A x \in 1 .. Len(r) : r[x] = q[f[x]]
              /\ \A x, y \in 1 .. Len(r) : x < y => f[x] < f[y]
              /\ \A i \in 1 .. Len(q) : q[i].owner # Device => \E x \in 1 .. Len(r) : f[x] = i
        BY RemovedIs, SMTT(40)
    <2> HIDE DEF r
    <2>2. \A x \in 1 .. Len(r) : f[x] \in 1 .. Len(q) /\ (IsPit(r, x) <=> IsPit(q, f[x]))
        BY <2>1 DEF IsPit
    <2>3. \A i \in 1 .. Len(q) : IsPit(q, i) => \E x \in 1 .. Len(r) : f[x] = i
        BY <2>1 DEF IsPit, Pit, Device
    <2>4. \A x, y \in 1 .. Len(r) : f[x] = f[y] => x = y
        <3>1. \A x \in 1 .. Len(r) : x \in Int /\ f[x] \in Int
            BY <2>2
        <3> QED BY <2>1, <3>1
    <2>5. NoPit(q) => NoPit(r)
        BY <2>2 DEF NoPit
    <2>6. SomePit(q) => SomePit(r)
        BY <2>2, <2>3 DEF SomePit
    <2>7. OnePit(q) => OnePit(r)
        BY <2>2, <2>4 DEF OnePit
    <2> QED BY <2>5, <2>6, <2>7 DEF SamePits, r
<1>2. NoPit(Removed(q, Pit))
    <2> DEFINE r == Removed(q, Pit)
    <2>1. PICK f \in [1 .. Len(r) -> 1 .. Len(q)] :
              /\ \A x \in 1 .. Len(r) : r[x] = q[f[x]] /\ q[f[x]].owner # Pit
              /\ \A x, y \in 1 .. Len(r) : x < y => f[x] < f[y]
              /\ \A i \in 1 .. Len(q) : q[i].owner # Pit => \E x \in 1 .. Len(r) : f[x] = i
        BY RemovedIs
    <2> QED BY <2>1 DEF NoPit, IsPit
<1> QED BY <1>1, <1>2

LEMMA TailPits ==
    ASSUME NEW q \in Seq(Events), q # <<>>
    PROVE  /\ q[1].owner = Pit /\ OnePit(q) => NoPit(Tail(q))
           /\ q[1].owner # Pit => SamePits(q, Tail(q))
<1> DEFINE n == Len(q)
           t == Tail(q)
<1>1. n \in Nat \ {0} /\ Len(t) = n - 1
      /\ \A i \in 1 .. n - 1 : t[i] = q[i + 1] /\ i + 1 \in 1 .. n /\ i + 1 # 1
    OBVIOUS
<1> HIDE DEF t
<1>2. \A i \in 1 .. n - 1 : IsPit(t, i) <=> IsPit(q, i + 1)
    BY <1>1 DEF IsPit
<1>3. 1 \in 1 .. n /\ \A i \in 1 .. n : i # 1 => i - 1 \in 1 .. n - 1 /\ (i - 1) + 1 = i
    BY <1>1
<1>4. ASSUME q[1].owner = Pit, OnePit(q) PROVE NoPit(t)
    <2>1. IsPit(q, 1)
        BY <1>4 DEF IsPit
    <2> QED BY <2>1, <1>1, <1>2, <1>3, <1>4 DEF NoPit, OnePit
<1>5. ASSUME q[1].owner # Pit PROVE SamePits(q, t)
    <2>1. ~IsPit(q, 1)
        BY <1>5 DEF IsPit
    <2>2. NoPit(q) => NoPit(t)
        BY <1>1, <1>2 DEF NoPit
    <2>3. ASSUME NEW i \in 1 .. n, IsPit(q, i) PROVE SomePit(t)
        <3> DEFINE j == i - 1
        <3>1. j \in 1 .. n - 1 /\ j + 1 = i
            BY <2>1, <2>3, <1>3
        <3> HIDE DEF j
        <3>2. IsPit(t, j)
            BY <2>3, <3>1, <1>2
        <3> QED BY <3>1, <3>2, <1>1 DEF SomePit
    <2>4. OnePit(q) => OnePit(t)
        <3>1. \A i, j \in 1 .. n - 1 : i + 1 = j + 1 => i = j
            BY <1>1
        <3> QED BY <3>1, <1>1, <1>2 DEF OnePit
    <2>5. SomePit(q) => SomePit(t)
        BY <2>3 DEF SomePit
    <2> QED BY <2>2, <2>4, <2>5 DEF SamePits
<1> QED BY <1>4, <1>5 DEF t

LEMMA LoweredPits ==
    ASSUME NEW q \in Seq(Events)
    PROVE  SamePits(q, Lowered(q))
<1>1. Len(Lowered(q)) = Len(q) /\ \A i \in 1 .. Len(q) : IsPit(Lowered(q), i) <=> IsPit(q, i)
    BY LoweredIs DEF IsPit
<1> QED BY <1>1 DEF SamePits, NoPit, SomePit, OnePit

-----------------------------------------------------------------------------
(* The timer keeps its event *)

ArmedInv ==
    ~dropped => IF pit.new THEN NoPit(queue)
                ELSE IF pit.mode = 0 THEN OnePit(queue) ELSE OnePit(queue) /\ SomePit(queue)

QueueTyped ==
    /\ GoodQueue(queue) /\ dropped \in BOOLEAN
    /\ pit \in Counters
    /\ left \in Int /\ cycles \in Int

\* A step that is not about the timer.
LEMMA ArmedKept ==
    ASSUME ArmedInv, pit'.new = pit.new, pit'.mode = pit.mode, dropped => dropped',
           ~dropped' => SamePits(queue, queue')
    PROVE  ArmedInv'
BY DEF ArmedInv, SamePits

LEMMA AddedPits ==
    ASSUME NEW q, GoodQueue(q), NEW inUse \in Nat, NEW owner \in {Pit, Device}, NEW at \in Int
    PROVE  /\ owner = Device => SamePits(q, Added(q, inUse, owner, at))
           /\ ~(inUse >= QueueSize) /\ owner = Pit /\ NoPit(q)
                => OnePit(Added(q, inUse, owner, at)) /\ SomePit(Added(q, inUse, owner, at))
<1> DEFINE e == [at |-> at, owner |-> owner]
<1>1. e \in Events /\ e.owner = owner /\ q \in Seq(Events)
    BY DEF Events, GoodQueue
<1>2. Added(q, inUse, owner, at) = IF inUse >= QueueSize THEN q ELSE Insert(q, e)
    BY DEF Added
<1>3. SamePits(q, q)
    BY DEF SamePits
<1> HIDE DEF e
<1> QED BY <1>1, <1>2, <1>3, InsertPits

LEMMA SameTwice ==
    ASSUME NEW q, NEW r, NEW s, SamePits(q, r), SamePits(r, s)
    PROVE  SamePits(q, s)
BY DEF SamePits

LEMMA DelaysTyped == \A d \in Delays : d \in Nat /\ d > 0
BY ClockAssumption

LEMMA PitFiredTyped ==
    ASSUME QueueTyped
    PROVE  PitFired \in Counters /\ PitFired.mode = pit.mode /\ PitFired.new = pit.new
BY DEF QueueTyped, PitFired, Counters

LEMMA ServePitArmed ==
    ASSUME QueueTyped, ArmedInv, ServePit
    PROVE  ArmedInv' /\ GoodQueue(queue')
<1>1. queue # <<>> /\ queue[1].owner = Pit /\ GoodQueue(queue) /\ queue \in Seq(Events)
    BY DEF ServePit, Due, IsEmpty, QueueTyped, GoodQueue
<1>2. GoodQueue(Tail(queue)) /\ Len(Tail(queue)) = Len(queue) - 1 /\ Len(queue) \in Nat \ {0}
    BY <1>1, TailGood
<1>3. pit' = PitFired /\ pit'.mode = pit.mode /\ pit'.new = pit.new /\ pit'.period \in Delays
    BY PitFiredTyped DEF ServePit, Counters
<1> DEFINE n == Len(queue)
           at == queue[1].at + pit'.period
<1>4. at \in Int
    <2>1. queue[1] \in Events
        BY <1>1
    <2> QED BY <2>1, <1>3, DelaysTyped DEF Events
<1>5. queue' = IF pit.mode = 0 THEN Tail(queue) ELSE Added(Tail(queue), n, Pit, at)
    <2>1. Len(Tail(queue)) + 1 = n
        BY <1>2
    <2> QED BY <2>1 DEF ServePit, AddedInService, Next0
<1>6. dropped' = (dropped \/ (pit.mode # 0 /\ n >= QueueSize))
    BY DEF ServePit
<1> HIDE DEF at
<1>7. n \in Nat /\ Len(Tail(queue)) <= n /\ Pit \in {Pit, Device}
    BY <1>2
<1> HIDE DEF n
<1>8. GoodQueue(queue')
    BY <1>2, <1>4, <1>5, <1>7, AddedGood
<1>9. ASSUME ~dropped' PROVE ArmedInv'
    <2>1. ~dropped /\ (pit.mode # 0 => ~(n >= QueueSize))
        BY <1>6, <1>9
    <2>2. 1 \in 1 .. Len(queue) /\ IsPit(queue, 1)
        BY <1>1, <1>2 DEF IsPit
    <2>3. ~pit.new /\ OnePit(queue)
        BY <2>1, <2>2 DEF ArmedInv, NoPit
    <2>4. NoPit(Tail(queue))
        BY <1>1, <2>3, TailPits
    <2>5. CASE pit.mode = 0
        BY <2>3, <2>4, <2>5, <1>3, <1>5 DEF ArmedInv, NoPit, OnePit
    <2>6. CASE pit.mode # 0
        <3>1. OnePit(queue') /\ SomePit(queue')
            BY <2>1, <2>4, <2>6, <1>2, <1>4, <1>5, <1>7, AddedPits
        <3> QED BY <3>1, <2>3, <2>6, <1>3 DEF ArmedInv
    <2> QED BY <2>5, <2>6
<1> QED BY <1>8, <1>9 DEF ArmedInv

LEMMA ServeDeviceArmed ==
    ASSUME QueueTyped, ArmedInv, ServeDevice
    PROVE  ArmedInv' /\ GoodQueue(queue')
<1>1. queue # <<>> /\ queue[1].owner = Device /\ GoodQueue(queue) /\ queue \in Seq(Events)
    BY DEF ServeDevice, Due, IsEmpty, QueueTyped, GoodQueue
<1>2. GoodQueue(Tail(queue)) /\ Len(Tail(queue)) = Len(queue) - 1 /\ Len(queue) \in Nat \ {0}
    BY <1>1, TailGood
<1>3. pit' = pit /\ (dropped => dropped')
    <2>1. dropped' = dropped \/ dropped' = (dropped \/ Len(queue) >= QueueSize)
        BY DEF ServeDevice
    <2>2. pit' = pit
        BY DEF ServeDevice
    <2>3. dropped => dropped'
        BY <2>1 DEF QueueTyped
    <2> QED BY <2>2, <2>3
<1>4. SamePits(queue, Tail(queue)) /\ Tail(queue) \in Seq(Events)
    BY <1>1, <1>2, TailPits DEF Pit, Device, GoodQueue
<1>5. CASE queue' = Tail(queue)
    BY <1>2, <1>3, <1>4, <1>5, ArmedKept
<1>6. CASE queue' = Removed(Tail(queue), Device)
    <2>1. SamePits(queue, queue')
        BY <1>4, <1>6, RemovedPits, SameTwice
    <2> QED BY <2>1, <1>2, <1>3, <1>6, RemovedGood, ArmedKept
<1>7. ASSUME NEW d \in Delays, queue' = AddedInService(Tail(queue), Device, Next0 + d)
      PROVE  ArmedInv' /\ GoodQueue(queue')
    <2> DEFINE at == queue[1].at + d
               n == Len(Tail(queue)) + 1
    <2>1. at \in Int
        <3>1. queue[1] \in Events
            BY <1>1
        <3> QED BY <3>1, DelaysTyped DEF Events
    <2>2. queue' = Added(Tail(queue), n, Device, at)
        BY <1>7 DEF AddedInService, Next0
    <2>3. n \in Nat /\ Len(Tail(queue)) <= n /\ Device \in {Pit, Device}
        BY <1>2
    <2> HIDE DEF at, n
    <2>4. GoodQueue(queue') /\ SamePits(Tail(queue), queue')
        BY <2>1, <2>2, <2>3, <1>2, AddedGood, AddedPits
    <2>5. SamePits(queue, queue')
        BY <2>4, <1>4, SameTwice
    <2> QED BY <2>4, <2>5, <1>3, ArmedKept
<1> QED BY <1>5, <1>6, <1>7 DEF ServeDevice

LEMMA AddTickArmed ==
    ASSUME QueueTyped, ArmedInv, AddTick
    PROVE  ArmedInv' /\ GoodQueue(queue')
<1>1. GoodQueue(queue) /\ queue \in Seq(Events)
    BY DEF QueueTyped, GoodQueue
<1>2. pit' = pit /\ (dropped => dropped')
    <2>1. dropped' = dropped \/ dropped' = (dropped \/ Len(queue) >= QueueSize)
        BY DEF AddTick
    <2>2. pit' = pit
        BY DEF AddTick
    <2>3. dropped => dropped'
        BY <2>1 DEF QueueTyped
    <2> QED BY <2>2, <2>3
<1> DEFINE low == Lowered(queue)
           n == Len(queue)
<1>3. GoodQueue(low) /\ Len(low) = n /\ n \in Nat /\ SamePits(queue, low)
    BY <1>1, LoweredGood, LoweredPits
<1> HIDE DEF low, n
<1>4. CASE queue' = low
    BY <1>2, <1>3, <1>4, ArmedKept
<1>5. ASSUME NEW d \in Delays, queue' = Added(low, n, Device, d)
      PROVE  ArmedInv' /\ GoodQueue(queue')
    <2>1. d \in Int /\ Device \in {Pit, Device} /\ Len(low) <= n
        BY <1>3, DelaysTyped
    <2>2. GoodQueue(queue') /\ SamePits(low, queue')
        BY <2>1, <1>3, <1>5, AddedGood, AddedPits
    <2> QED BY <2>2, <1>2, <1>3, SameTwice, ArmedKept
<1> QED BY <1>4, <1>5 DEF AddTick, low, n

LEMMA AddDeviceArmed ==
    ASSUME QueueTyped, ArmedInv, AddDevice
    PROVE  ArmedInv' /\ GoodQueue(queue')
<1>1. GoodQueue(queue) /\ left \in Int /\ cycles \in Int /\ CycleMax \in Int
    BY ClockAssumption DEF QueueTyped
<1>2. pit' = pit /\ (dropped => dropped')
    BY DEF AddDevice
<1>3. PICK d \in Delays : queue' = Added(queue, Len(queue), Device, CycleMax - left - (cycles - 1) + d)
    BY DEF AddDevice
<1> DEFINE at == CycleMax - left - (cycles - 1) + d
           n == Len(queue)
<1>4. at \in Int /\ n \in Nat /\ Len(queue) <= n /\ Device \in {Pit, Device}
    BY <1>1, DelaysTyped DEF GoodQueue
<1>5. queue' = Added(queue, n, Device, at)
    BY <1>3
<1> HIDE DEF at, n
<1>6. GoodQueue(queue') /\ SamePits(queue, queue')
    BY <1>1, <1>4, <1>5, AddedGood, AddedPits
<1> QED BY <1>2, <1>6, ArmedKept

LEMMA SecondHalfArmed ==
    ASSUME QueueTyped, ArmedInv, NEW period \in Delays, SecondHalf(period)
    PROVE  ArmedInv' /\ GoodQueue(queue')
<1> DEFINE before == IF pit.mode = 0 THEN Removed(queue, Pit) ELSE queue
           n == Len(before)
           at == CycleMax - left - (cycles - 1) + period
<1>1. GoodQueue(queue) /\ queue \in Seq(Events) /\ left \in Int /\ cycles \in Int /\ CycleMax \in Int
    BY ClockAssumption DEF QueueTyped, GoodQueue
<1>2. GoodQueue(before) /\ (pit.mode = 0 => NoPit(before))
    BY <1>1, RemovedGood, RemovedPits
<1>3. at \in Int /\ n \in Nat /\ Len(before) <= n /\ Pit \in {Pit, Device}
    BY <1>1, <1>2, DelaysTyped DEF GoodQueue
<1>4. pit' = Loaded(period)
    BY DEF SecondHalf
<1>5. CASE LoadQueues
    <2>1. queue' = Added(before, n, Pit, at) /\ dropped' = (dropped \/ n >= QueueSize)
        BY <1>5 DEF SecondHalf
    <2> HIDE DEF at, n
    <2>2. GoodQueue(queue')
        BY <2>1, <1>2, <1>3, AddedGood
    <2>3. ~pit'.new
        BY <1>4, <1>5 DEF LoadQueues, Loaded, QueueTyped, Counters
    <2>4. ASSUME ~dropped' PROVE OnePit(queue') /\ SomePit(queue')
        <3>1. ~dropped /\ ~(n >= QueueSize)
            BY <2>1, <2>4
        <3>2. NoPit(before)
            <4>1. CASE pit.mode = 0
                BY <4>1, <1>2
            <4>2. CASE pit.mode # 0
                BY <4>2, <3>1, <1>5 DEF LoadQueues, ArmedInv
            <4> QED BY <4>1, <4>2
        <3> HIDE DEF before
        <3> QED BY <2>1, <3>1, <3>2, <1>2, <1>3, AddedPits
    <2> QED BY <2>2, <2>3, <2>4 DEF ArmedInv
<1>6. CASE ~LoadQueues
    <2>1. queue' = queue /\ dropped' = dropped
        BY <1>6 DEF SecondHalf
    <2>2. pit'.new = pit.new /\ pit'.mode = pit.mode
        BY <1>4, <1>6 DEF LoadQueues, LoadsLater, Loaded, QueueTyped, Counters
    <2>3. SamePits(queue, queue')
        BY <2>1 DEF SamePits
    <2> QED BY <2>1, <2>2, <2>3, <1>1, ArmedKept
<1> QED BY <1>5, <1>6

LEMMA ArmedInit == Init => ArmedInv
<1> SUFFICES ASSUME Init PROVE ArmedInv
    OBVIOUS
<1>1. PICK p \in Delays : pit = InitPit(p) /\ queue = <<[at |-> p, owner |-> Pit]>>
    BY DEF Init
<1>2. Len(queue) = 1 /\ queue[1].owner = Pit
    BY <1>1
<1>3. OnePit(queue) /\ SomePit(queue)
    BY <1>2 DEF OnePit, SomePit, IsPit
<1>4. ~pit.new /\ pit.mode = 3
    BY <1>1 DEF InitPit
<1> QED BY <1>3, <1>4 DEF ArmedInv

LEMMA ArmedStep == QueueTyped /\ ArmedInv /\ [Next]_vars => ArmedInv' /\ GoodQueue(queue')
<1> SUFFICES ASSUME QueueTyped, ArmedInv, [Next]_vars PROVE ArmedInv' /\ GoodQueue(queue')
    OBVIOUS
<1>1. GoodQueue(queue) /\ queue \in Seq(Events) /\ SamePits(queue, queue)
    BY DEF QueueTyped, GoodQueue, SamePits
<1>2. CASE \/ RunQueue \/ Slice \/ SliceOver \/ Plain \/ FirstHalf
           \/ IncreaseTicks \/ HostClock \/ Pause \/ Resume \/ UNCHANGED vars
    <2>1. queue' = queue /\ dropped' = dropped /\ pit'.new = pit.new /\ pit'.mode = pit.mode
        BY <1>2
        DEF RunQueue, Slice, SliceOver, Plain, FirstHalf, IncreaseTicks, HostClock, Pause, Resume,
            vars, QueueTyped, Counters
    <2> QED BY <2>1, <1>1, ArmedKept
<1>3. CASE RemoveDevice
    <2>1. queue' = Removed(queue, Device) /\ pit' = pit /\ dropped' = dropped
        BY <1>3 DEF RemoveDevice
    <2>2. SamePits(queue, queue')
        BY <2>1, <1>1, RemovedPits
    <2> QED BY <2>1, <2>2, <1>1, RemovedGood, ArmedKept
<1>4. ASSUME NEW mode \in {0, 2, 3}, NEW low \in BOOLEAN, ControlWord(mode, low)
      PROVE  ArmedInv' /\ GoodQueue(queue')
    <2>1. queue' = Removed(queue, Pit) /\ pit'.new = TRUE
        BY <1>4 DEF ControlWord, QueueTyped, Counters
    <2> QED BY <2>1, <1>1, RemovedGood, RemovedPits DEF ArmedInv
<1> QED BY <1>2, <1>3, <1>4, ServePitArmed, ServeDeviceArmed, AddTickArmed, AddDeviceArmed,
           SecondHalfArmed DEF Next, NormalLoop

-----------------------------------------------------------------------------
(* Time *)

\* A slice ends with the tick or at the first event, or it runs past the end of the tick,
\* as far as the cycle hack goes, when none was expected before.
SliceEnds ==
    pc = "core" /\ cycles > 0 /\ queue # <<>> =>
      \/ CycleMax - left <= Next0
      \/ CycleMax <= Next0 /\ CycleMax - left <= CycleMax + CycleHack

TimeInv ==
    /\ TypeOK /\ SliceEnds
    /\ pc = "serve" => cycles = 0 /\ left > 0
    /\ pc \in {"events", "paused", "resumed"} => cycles = 0
    /\ pc = "core" => left >= -CycleHack /\ cycles >= 0
    /\ left + cycles >= -(CycleHack + 1)

LEMMA TypesOfTime ==
    ASSUME TypeOK
    PROVE  /\ QueueTyped
           /\ CycleMax \in Nat \ {0} /\ CycleHack \in Nat /\ Stretch \in Nat /\ MaxRemain \in Nat \ {0}
           /\ queue # <<>> => Next0 \in Int
<1>1. queue # <<>> => queue[1] \in Events
    BY DEF TypeOK
<1>2. queue # <<>> => Next0 \in Int
    BY <1>1 DEF Next0, Events
<1> QED BY <1>2, ClockAssumption DEF TypeOK, QueueTyped, GoodQueue, Ordered

\* The stretched tick.
LEMMA Stretched ==
    ASSUME NEW n \in Nat, NEW s \in Nat
    PROVE  n * s \in Nat /\ (n + 1) * s = n * s + s
OBVIOUS

\* What no step but the serving of events does to the types.
OtherTypes ==
    /\ pc \in {"loop", "serve", "core", "events", "paused", "resumed"}
    /\ eventCount \in BOOLEAN /\ clock \in Nat /\ dropped \in BOOLEAN
    /\ remain \in 0 .. MaxRemain /\ slack \in Int /\ programs \in 0 .. MaxPrograms
    /\ pit \in Counters

LEMMA TicksTyped ==
    ASSUME NEW behind \in Nat
    PROVE  Ticks(behind) \in 0 .. MaxRemain /\ Ticks(behind) = Min(behind, MaxRemain)
BY ClockAssumption DEF Ticks, Min

LEMMA OtherStep == TypeOK /\ [Next]_vars => OtherTypes'
<1> SUFFICES ASSUME TypeOK, [Next]_vars PROVE OtherTypes'
    OBVIOUS
<1>a. OtherTypes /\ QueueTyped /\ MaxPrograms \in Nat /\ MaxRemain \in Nat
    BY TypesOfTime, ClockAssumption DEF TypeOK, OtherTypes
<1>1. CASE RunQueue \/ Slice \/ SliceOver \/ Plain \/ RemoveDevice
    BY <1>1, <1>a DEF OtherTypes, RunQueue, Slice, SliceOver, Plain, RemoveDevice, Executes, hostVars
<1>2. CASE ServePit
    <2>1. pit' \in Counters
        BY <1>2, <1>a, PitFiredTyped DEF ServePit
    <2>2. dropped' \in BOOLEAN
        BY <1>2 DEF ServePit
    <2> QED BY <1>2, <1>a, <2>1, <2>2 DEF OtherTypes, ServePit, hostVars
<1>3. CASE ServeDevice \/ AddDevice
    <2>1. dropped' \in BOOLEAN
        BY <1>3, <1>a DEF ServeDevice, AddDevice, OtherTypes
    <2> QED BY <1>3, <1>a, <2>1 DEF OtherTypes, ServeDevice, AddDevice, Executes, hostVars
<1>4. CASE FirstHalf
    <2>1. pit' \in Counters
        BY <1>4, <1>a DEF FirstHalf, OtherTypes, Counters
    <2> QED BY <1>4, <1>a, <2>1 DEF OtherTypes, FirstHalf, Executes, hostVars
<1>5. ASSUME NEW mode \in {0, 2, 3}, NEW low \in BOOLEAN, ControlWord(mode, low) PROVE OtherTypes'
    <2>1. pit' \in Counters
        BY <1>5, <1>a DEF ControlWord, OtherTypes, Counters
    <2>2. programs' \in 0 .. MaxPrograms
        BY <1>5, <1>a DEF ControlWord, OtherTypes
    <2> QED BY <1>5, <1>a, <2>1, <2>2 DEF OtherTypes, ControlWord, Executes, hostVars
<1>6. ASSUME NEW period \in Delays, SecondHalf(period) PROVE OtherTypes'
    <2>1. pit' \in Counters
        BY <1>6, <1>a DEF SecondHalf, Loaded, OtherTypes, Counters
    <2>2. dropped' \in BOOLEAN
        BY <1>6, <1>a DEF SecondHalf, OtherTypes
    <2> QED BY <1>6, <1>a, <2>1, <2>2 DEF OtherTypes, SecondHalf, Executes, hostVars
<1>7. CASE AddTick
    <2>1. dropped' \in BOOLEAN
        BY <1>7, <1>a DEF AddTick, OtherTypes
    <2>2. remain' \in 0 .. MaxRemain /\ slack' \in Int
        BY <1>7, <1>a DEF AddTick, OtherTypes
    <2> QED BY <1>7, <1>a, <2>1, <2>2 DEF OtherTypes, AddTick
<1>b. Passed => clock' \in Nat /\ slack' \in Int
    BY <1>a DEF Passed, OtherTypes, Burst, Min
<1>8. CASE IncreaseTicks
    <2>1. Ticks(clock) \in 0 .. MaxRemain
        BY <1>a, TicksTyped DEF OtherTypes
    <2>2. remain' \in 0 .. MaxRemain /\ clock' \in Nat /\ slack' \in Int
        BY <1>8, <1>a, <1>b, <2>1 DEF IncreaseTicks, OtherTypes
    <2> QED BY <1>8, <1>a, <2>2 DEF OtherTypes, IncreaseTicks
<1>10. CASE HostClock
    BY <1>10, <1>a, <1>b DEF OtherTypes, HostClock
<1>11. CASE Pause \/ Resume
    BY <1>11, <1>a DEF OtherTypes, Pause, Resume, hostVars
<1>9. CASE UNCHANGED vars
    BY <1>9, <1>a DEF OtherTypes, vars, hostVars
<1> QED BY <1>1, <1>2, <1>3, <1>4, <1>5, <1>6, <1>7, <1>8, <1>9, <1>10, <1>11 DEF Next, NormalLoop

\* How a step outside the serving of events moves the clock.
LEMMA ClockMoves ==
    ASSUME TypeOK
    PROVE  /\ ServePit \/ ServeDevice => UNCHANGED <<pc, left, cycles, programs, remain>> /\ pc = "serve"
           /\ RunQueue => /\ left' = left + cycles /\ cycles' = 0 /\ pc = "loop"
                          /\ pc' = IF left' <= 0 THEN "events" ELSE "serve"
                          /\ UNCHANGED <<queue, programs, remain>>
           /\ SliceOver => /\ left' = left /\ cycles' = cycles - 1 /\ pc = "core" /\ pc' = "loop"
                           /\ cycles <= 0 /\ UNCHANGED <<queue, programs, remain>>
           /\ Plain \/ FirstHalf => Executes /\ left' = left /\ cycles' = cycles - 1
                                    /\ UNCHANGED <<queue, programs, remain>>
           /\ RemoveDevice => Executes /\ left' = left /\ cycles' = cycles - 1
                              /\ queue' = Removed(queue, Device) /\ UNCHANGED <<programs, remain>>
BY DEF ServePit, ServeDevice, RunQueue, SliceOver, Plain, FirstHalf, RemoveDevice, Executes, timeVars, hostVars

\* An instruction: the slice ends where it did, or now, or a control word moved the clock back.
LEMMA Executed ==
    ASSUME TimeInv, Executes, cycles > 0, GoodQueue(queue'), OtherTypes',
           \/ left' = left /\ cycles' = cycles - 1 /\ programs' = programs
           \/ left' = left + (cycles - 1) /\ cycles' = 0 /\ programs' = programs
           \/ left' = left /\ cycles' = Stretch /\ programs' = programs + 1
           \/ left' = left /\ cycles' = cycles - 1 /\ programs' = programs + 1,
           cycles' > 0 /\ queue' # <<>> => \/ CycleMax - left <= queue'[1].at
                                           \/ queue # <<>> /\ queue[1].at <= queue'[1].at
    PROVE  TimeInv'
<1> DEFINE b == programs * Stretch
           b2 == programs' * Stretch
<1>1. /\ left \in Int /\ cycles \in Int /\ left + cycles <= CycleMax + b /\ programs \in Nat
      /\ SliceEnds /\ pc = "core" /\ left >= -CycleHack /\ left + cycles >= -(CycleHack + 1)
    BY DEF TimeInv, TypeOK, Executes
<1>2. CycleMax \in Nat /\ CycleHack \in Nat /\ Stretch \in Nat
    BY ClockAssumption
<1>3. b \in Nat /\ b2 \in Nat /\ (programs' = programs => b2 = b) /\ (programs' = programs + 1 => b2 = b + Stretch)
    <2>1. programs' \in Nat
        BY DEF OtherTypes
    <2> QED BY <2>1, <1>1, <1>2, Stretched
<1>a. queue # <<>> => Next0 \in Int
    BY TypesOfTime DEF TimeInv
<1>b. queue' # <<>> => queue'[1] \in Events
    BY DEF GoodQueue
<1>c. queue' # <<>> => queue'[1].at \in Int
    BY <1>b DEF Events
<1> HIDE DEF b, b2
<1>4. left' \in Int /\ left' >= -CycleHack /\ cycles' \in Int /\ cycles' >= 0 /\ left' + cycles' <= CycleMax + b2
    BY <1>1, <1>2, <1>3
<1>5. pc' \in {"core", "loop"}
    BY DEF Executes
<1>6. SliceEnds'
    <2> SUFFICES ASSUME cycles' > 0, queue' # <<>>
                 PROVE  \/ CycleMax - left' <= queue'[1].at
                        \/ CycleMax <= queue'[1].at /\ CycleMax - left' <= CycleMax + CycleHack
        BY DEF SliceEnds, Next0
    <2>1. left' = left
        BY <1>1
    <2>2. CASE CycleMax - left <= queue'[1].at
        BY <2>1, <2>2
    <2>3. CASE queue # <<>> /\ queue[1].at <= queue'[1].at
        <3>1. \/ CycleMax - left <= queue[1].at
              \/ CycleMax <= queue[1].at /\ CycleMax - left <= CycleMax + CycleHack
            BY <2>3, <1>1 DEF SliceEnds, Next0
        <3> QED BY <2>1, <2>3, <3>1, <1>a, <1>c, <1>1, <1>2 DEF Next0
    <2> QED BY <2>1, <2>2, <2>3
<1>7. TypeOK'
    <2>1. left' >= -(CycleHack + 1) /\ cycles' >= -1
        BY <1>2, <1>4
    <2> QED BY <2>1, <1>4 DEF TypeOK, OtherTypes, GoodQueue, Ordered, b2
<1>8. left' + cycles' >= -(CycleHack + 1)
    <2>1. \A x, y \in Int : x >= -CycleHack /\ y >= 0 => x + y >= -(CycleHack + 1)
        BY <1>2
    <2> QED BY <2>1, <1>4
<1> QED BY <1>4, <1>5, <1>6, <1>7, <1>8 DEF TimeInv

LEMMA CutIs ==
    ASSUME TypeOK, NEW q, Cut(q, cycles - 1), q # <<>> => q[1].at \in Int
    PROVE  \/ left' = left + (cycles - 1) /\ cycles' = 0
           \/ left' = left /\ cycles' = cycles - 1 /\ (q # <<>> => CycleMax - left <= q[1].at)
<1>1. left \in Int /\ cycles \in Int /\ CycleMax \in Int
    BY ClockAssumption DEF TypeOK
<1> QED BY <1>1 DEF Cut

LEMMA SliceKeeps ==
    ASSUME TimeInv, OtherTypes', Slice
    PROVE  TimeInv' /\ left' + cycles' = left /\ cycles = 0 /\ UNCHANGED <<programs, remain>>
<1>1. /\ left \in Int /\ cycles = 0 /\ left > 0 /\ left <= CycleMax + programs * Stretch
      /\ pc = "serve" /\ TypeOK
    BY DEF TimeInv, TypeOK, Slice
<1>2. /\ CycleMax \in Nat \ {0} /\ CycleHack \in Nat /\ Stretch \in Nat /\ QueueTyped
      /\ queue # <<>> => Next0 \in Int
    BY <1>1, TypesOfTime
<1>3. /\ cycles' = IF queue = <<>> THEN left
                   ELSE IF Next0 - (CycleMax - left) < left THEN Next0 - (CycleMax - left) ELSE RunOver
      /\ left' = left - cycles' /\ pc' = "core" /\ queue' = queue /\ programs' = programs /\ remain' = remain
    BY <1>1, <1>2 DEF Slice, IsEmpty, Now, hostVars
<1>4. queue # <<>> => Next0 > CycleMax - left
    BY <1>1, <1>2 DEF Slice, Due, IsEmpty, Now
<1>5. RunOver \in Int /\ RunOver > 0 /\ RunOver <= left + CycleHack
    BY <1>1, <1>2 DEF RunOver, Min
<1>6. cycles' \in Int /\ cycles' > 0 /\ cycles' <= left + CycleHack
    BY <1>1, <1>2, <1>3, <1>4, <1>5
<1>7. left' \in Int /\ left' >= -CycleHack /\ left' + cycles' = left
    BY <1>1, <1>2, <1>3, <1>6
<1>8. SliceEnds'
    <2> SUFFICES ASSUME queue # <<>>
                 PROVE  \/ CycleMax - left' <= Next0
                        \/ CycleMax <= Next0 /\ CycleMax - left' <= CycleMax + CycleHack
        BY <1>3 DEF SliceEnds, Next0
    <2> QED BY <1>1, <1>2, <1>3, <1>4, <1>5, <1>7
<1> DEFINE b == programs * Stretch
<1>9. b' = b /\ b \in Int /\ left <= CycleMax + b
    <2>1. programs \in Nat
        BY <1>1 DEF TypeOK
    <2> QED BY <2>1, <1>1, <1>2, <1>3, Stretched
<1>10. TypeOK'
    <2>1. GoodQueue(queue')
        BY <1>2, <1>3 DEF QueueTyped
    <2> HIDE DEF b
    <2>2. left' + cycles' <= CycleMax + b'
        BY <1>7, <1>9
    <2>3. left' >= -(CycleHack + 1) /\ cycles' >= -1
        BY <1>2, <1>6, <1>7
    <2> QED BY <2>1, <2>2, <2>3, <1>6, <1>7 DEF TypeOK, OtherTypes, GoodQueue, Ordered, b
<1>11. left' + cycles' >= -(CycleHack + 1)
    BY <1>1, <1>2, <1>7
<1>12. cycles' >= 0
    BY <1>6
<1> QED BY <1>1, <1>3, <1>7, <1>8, <1>10, <1>11, <1>12 DEF TimeInv

LEMMA TimeInit == Init => TimeInv
<1> SUFFICES ASSUME Init PROVE TimeInv
    OBVIOUS
<1>1. PICK p \in Delays : pit = InitPit(p) /\ queue = <<[at |-> p, owner |-> Pit]>>
    BY DEF Init
<1> DEFINE e == [at |-> p, owner |-> Pit]
<1>2. p \in Int /\ e \in Events
    BY DelaysTyped DEF Events
<1> HIDE DEF e
<1>3. queue = <<e>>
    BY <1>1 DEF e
<1>4. queue \in Seq(Events) /\ Len(queue) = 1
    BY <1>2, <1>3
<1>5. pit \in Counters
    BY <1>1, ClockAssumption DEF InitPit, Counters
<1>6. /\ pc = "loop" /\ left = 0 /\ cycles = 0 /\ eventCount = FALSE /\ clock = 0 /\ remain = 0
      /\ slack = 0 /\ programs = 0 /\ dropped = FALSE
    BY DEF Init
<1>7. /\ CycleMax \in Nat /\ CycleHack \in Nat /\ Stretch \in Nat /\ MaxRemain \in Nat /\ MaxPrograms \in Nat
      /\ QueueSize \in Nat \ {0} /\ 0 * Stretch = 0
    BY ClockAssumption
<1>8. \A i, j \in 1 .. Len(queue) : ~(i < j)
    BY <1>4
<1>9. left + cycles <= CycleMax + programs * Stretch /\ Len(queue) <= QueueSize
    BY <1>4, <1>6, <1>7
<1>10. TypeOK
    <2>1. left \in Int /\ left >= -(CycleHack + 1) /\ cycles \in Int /\ cycles >= -1
        BY <1>6, <1>7
    <2>2. remain \in 0 .. MaxRemain /\ slack \in Int /\ programs \in 0 .. MaxPrograms
        BY <1>6, <1>7
    <2>3. eventCount \in BOOLEAN /\ clock \in Nat /\ dropped \in BOOLEAN
        BY <1>6
    <2>4. pc \in {"loop", "serve", "core", "events", "paused", "resumed"}
        BY <1>6
    <2>5. \A i, j \in 1 .. Len(queue) : i < j => queue[i].at <= queue[j].at
        BY <1>8
    <2> QED BY <2>1, <2>2, <2>3, <2>4, <2>5, <1>4, <1>5, <1>9 DEF TypeOK
<1>11. left + cycles >= -(CycleHack + 1)
    BY <1>6, <1>7
<1> QED BY <1>6, <1>10, <1>11 DEF TimeInv, SliceEnds

LEMMA TimeStep == TimeInv /\ ArmedInv /\ [Next]_vars => TimeInv'
<1> SUFFICES ASSUME TimeInv, ArmedInv, [Next]_vars PROVE TimeInv'
    OBVIOUS
<1>1. TypeOK /\ QueueTyped /\ OtherTypes' /\ GoodQueue(queue')
    BY TypesOfTime, OtherStep, ArmedStep DEF TimeInv
<1>2. /\ CycleMax \in Nat \ {0} /\ CycleHack \in Nat /\ Stretch \in Nat
      /\ left \in Int /\ cycles \in Int /\ programs \in Nat /\ queue \in Seq(Events)
    BY <1>1, ClockAssumption DEF TypeOK
<1>3. queue' # <<>> => queue'[1].at \in Int
    <2>1. queue' # <<>> => queue'[1] \in Events
        BY <1>1 DEF GoodQueue
    <2> QED BY <2>1 DEF Events
<1> DEFINE b == programs * Stretch
           b2 == programs' * Stretch
<1>b. b \in Nat /\ (programs' = programs => b2 = b) /\ left + cycles <= CycleMax + b
    BY <1>1, <1>2, Stretched DEF TypeOK
<1>4. ASSUME left' \in Int, left' >= -(CycleHack + 1), cycles' \in Int, cycles' >= -1,
             left' + cycles' <= CycleMax + b2
      PROVE  TypeOK'
    BY <1>1, <1>4 DEF TypeOK, OtherTypes, GoodQueue, Ordered
<1> HIDE DEF b, b2
<1>5. CASE ServePit \/ ServeDevice
    <2>1. UNCHANGED <<pc, left, cycles, programs>> /\ pc = "serve"
        BY <1>1, <1>5, ClockMoves
    <2>2. left >= -(CycleHack + 1) /\ cycles >= -1
        BY <1>1 DEF TypeOK
    <2>3. TypeOK'
        BY <2>1, <2>2, <1>2, <1>4, <1>b
    <2> QED BY <2>1, <2>3 DEF TimeInv, SliceEnds
<1>6. CASE RunQueue
    <2>1. /\ left' = left + cycles /\ cycles' = 0 /\ programs' = programs
          /\ pc' = IF left' <= 0 THEN "events" ELSE "serve"
        BY <1>1, <1>6, ClockMoves
    <2>2. left + cycles >= -(CycleHack + 1)
        BY DEF TimeInv
    <2>3. left' \in Int /\ left' + cycles' = left' /\ cycles' \in Int /\ cycles' >= -1
          /\ left' + cycles' <= CycleMax + b2
        BY <2>1, <1>2, <1>b
    <2>4. TypeOK'
        BY <2>1, <2>2, <2>3, <1>4
    <2>5. pc' = "serve" => left' > 0
        BY <2>1, <2>3
    <2> QED BY <2>1, <2>2, <2>3, <2>4, <2>5 DEF TimeInv, SliceEnds
<1>7. CASE SliceOver
    <2>1. left' = left /\ cycles' = cycles - 1 /\ pc = "core" /\ pc' = "loop" /\ programs' = programs
        BY <1>1, <1>7, ClockMoves
    <2>2. left >= -CycleHack /\ cycles >= 0
        BY <2>1 DEF TimeInv
    <2>3. left' \in Int /\ left' >= -(CycleHack + 1) /\ cycles' \in Int /\ cycles' >= -1
          /\ left' + cycles' <= CycleMax + b2 /\ left' + cycles' >= -(CycleHack + 1)
        BY <2>1, <2>2, <1>2, <1>b
    <2>4. TypeOK'
        BY <2>3, <1>4
    <2> QED BY <2>1, <2>3, <2>4 DEF TimeInv, SliceEnds
<1>8. CASE Plain \/ FirstHalf
    <2>1. Executes /\ left' = left /\ cycles' = cycles - 1 /\ programs' = programs /\ queue' = queue
        BY <1>1, <1>8, ClockMoves
    <2>2. queue' # <<>> => queue[1].at <= queue'[1].at
        BY <2>1, <1>3
    <2> QED BY <2>1, <2>2, <1>1, Executed DEF Executes
<1>9. CASE RemoveDevice
    <2>1. /\ Executes /\ left' = left /\ cycles' = cycles - 1 /\ programs' = programs
          /\ queue' = Removed(queue, Device)
        BY <1>1, <1>9, ClockMoves
    <2>2. queue' # <<>> => queue # <<>> /\ queue[1].at <= queue'[1].at
        <3>1. queue' # <<>> => queue # <<>> /\ queue'[1].at >= queue[1].at
            BY <2>1, <1>1, RemovedGood DEF QueueTyped
        <3>2. queue # <<>> => queue[1].at \in Int
            BY <1>1, TypesOfTime DEF Next0
        <3> QED BY <3>1, <3>2, <1>3
    <2> QED BY <2>1, <2>2, <1>1, Executed DEF Executes
<1>10. ASSUME NEW mode \in {0, 2, 3}, NEW low \in BOOLEAN, ControlWord(mode, low) PROVE TimeInv'
    <2>1. /\ Executes /\ left' = left /\ programs' = programs + 1 /\ queue' = Removed(queue, Pit)
          /\ cycles' = Stretch \/ cycles' = cycles - 1
        BY <1>10 DEF ControlWord
    <2>2. queue' # <<>> => queue # <<>> /\ queue[1].at <= queue'[1].at
        <3>1. queue' # <<>> => queue # <<>> /\ queue'[1].at >= queue[1].at
            BY <2>1, <1>1, RemovedGood DEF QueueTyped
        <3>2. queue # <<>> => queue[1].at \in Int
            BY <1>1, TypesOfTime DEF Next0
        <3> QED BY <3>1, <3>2, <1>3
    <2> QED BY <2>1, <2>2, <1>1, Executed DEF Executes
<1>11. CASE AddDevice
    <2>1. Executes /\ programs' = programs /\ Cut(queue', cycles - 1)
        BY <1>11 DEF AddDevice
    <2>2. \/ left' = left + (cycles - 1) /\ cycles' = 0
          \/ left' = left /\ cycles' = cycles - 1 /\ (queue' # <<>> => CycleMax - left <= queue'[1].at)
        BY <2>1, <1>1, <1>3, CutIs
    <2>3. cycles' > 0 /\ queue' # <<>> => CycleMax - left <= queue'[1].at
        BY <2>2, <1>2
    <2> QED BY <2>1, <2>2, <2>3, <1>1, Executed DEF Executes
<1>12. ASSUME NEW period \in Delays, SecondHalf(period) PROVE TimeInv'
    <2>1. Executes /\ programs' = programs
        BY <1>12 DEF SecondHalf
    <2>2. CASE LoadQueues
        <3>1. Cut(queue', cycles - 1)
            BY <2>2, <1>12 DEF SecondHalf
        <3>2. \/ left' = left + (cycles - 1) /\ cycles' = 0
              \/ left' = left /\ cycles' = cycles - 1 /\ (queue' # <<>> => CycleMax - left <= queue'[1].at)
            BY <3>1, <1>1, <1>3, CutIs
        <3>3. cycles' > 0 /\ queue' # <<>> => CycleMax - left <= queue'[1].at
            BY <3>2, <1>2
        <3> QED BY <2>1, <3>2, <3>3, <1>1, Executed DEF Executes
    <2>3. CASE ~LoadQueues
        <3>1. left' = left /\ cycles' = cycles - 1 /\ queue' = queue
            BY <2>3, <1>12 DEF SecondHalf
        <3>2. queue' # <<>> => queue[1].at <= queue'[1].at
            BY <3>1, <1>3
        <3> QED BY <2>1, <3>1, <3>2, <1>1, Executed DEF Executes
    <2> QED BY <2>2, <2>3
<1>13. CASE Slice
    BY <1>1, <1>13, SliceKeeps
<1>14. CASE AddTick
    <2>1. left' = CycleMax /\ cycles' = 0 /\ pc' = "loop" /\ programs' = programs
        BY <1>14 DEF AddTick
    <2>2. left' \in Int /\ left' >= -(CycleHack + 1) /\ cycles' \in Int /\ cycles' >= -1
          /\ left' + cycles' <= CycleMax + b2 /\ left' + cycles' >= -(CycleHack + 1)
        BY <2>1, <1>2, <1>b
    <2>3. TypeOK'
        BY <2>2, <1>4
    <2> QED BY <2>1, <2>2, <2>3 DEF TimeInv, SliceEnds
<1>15. CASE IncreaseTicks \/ Pause \/ Resume \/ HostClock
    <2>1. /\ UNCHANGED <<left, cycles, programs>>
          /\ pc' \in {"loop", "events", "paused", "resumed"}
          /\ pc' # "loop" => pc \in {"events", "paused", "resumed"}
        BY <1>15 DEF IncreaseTicks, Pause, Resume, HostClock, TickOver, timeVars
    <2>2. left >= -(CycleHack + 1) /\ cycles >= -1
        BY <1>1 DEF TypeOK
    <2>3. TypeOK'
        BY <2>1, <2>2, <1>2, <1>4, <1>b
    <2> QED BY <2>1, <2>3 DEF TimeInv, SliceEnds
<1>16. CASE UNCHANGED vars
    BY <1>16 DEF vars, timeVars, hostVars, TimeInv, TypeOK, SliceEnds, Next0
<1> QED BY <1>5, <1>6, <1>7, <1>8, <1>9, <1>10, <1>11, <1>12, <1>13, <1>14, <1>15, <1>16
       DEF Next, NormalLoop

-----------------------------------------------------------------------------
(* What the runs check, for every value of the constants *)

ClockInv == TimeInv /\ ArmedInv

\* A clock with no more cycles to go is not behind.
LEMMA ForwardBy ==
    ASSUME NEW m \in Int, NEW l \in Int, NEW c \in Int, NEW l2 \in Int, NEW c2 \in Int,
           l2 + c2 <= l + c
    PROVE  m - l2 - c2 >= m - l - c - 0
OBVIOUS

LEMMA ClockInvariant == Spec => []ClockInv
<1>1. Init => ClockInv
    BY TimeInit, ArmedInit DEF ClockInv
<1>2. ClockInv /\ [Next]_vars => ClockInv'
    <2>1. TimeInv => QueueTyped
        BY TypesOfTime DEF TimeInv
    <2> QED BY <2>1, TimeStep, ArmedStep DEF ClockInv
<1> QED BY <1>1, <1>2, PTL DEF Spec

\* The queue is ordered and within its size, a tick is overrun by at most the cycle hack and
\* the instruction that ends the slice, and is longer than CycleMax only by what control
\* words stretch (PIC_AddEvent, PIC_RemoveEvents, PIC_RunQueue, TIMER_AddTick, write_p43).
THEOREM ClockTypes == Spec => []TypeOK
<1>1. ClockInv => TypeOK
    BY DEF ClockInv, TimeInv
<1> QED BY <1>1, ClockInvariant, PTL

\* No instruction runs at or after the time of an event that waits: PIC_RunQueue ends the
\* slice before the next event, and AddEntry one that would run past an event it adds.
THEOREM NoEventLate == Spec => []NoneLate
<1>1. ClockInv => NoneLate
    <2> SUFFICES ASSUME ClockInv, pc = "core", cycles > 0, queue # <<>>
                 PROVE  Now < Next0 + (IF Now >= CycleMax THEN CycleHack ELSE 0)
        BY DEF NoneLate, IsEmpty
    <2>1. /\ CycleMax \in Nat /\ CycleHack \in Nat /\ Next0 \in Int
          /\ left \in Int /\ cycles \in Int /\ SliceEnds
        BY TypesOfTime DEF ClockInv, TimeInv, TypeOK
    <2>2. \/ CycleMax - left <= Next0
          \/ CycleMax <= Next0 /\ CycleMax - left <= CycleMax + CycleHack
        BY <2>1 DEF SliceEnds
    <2> HIDE DEF Next0
    <2> QED BY <2>1, <2>2 DEF Now
<1> QED BY <1>1, ClockInvariant, PTL

\* Counter 0 of the timer has one event in the queue from when its count is loaded, and none
\* while it waits for a count: write_p43 removes the event, write_latch queues the next only
\* where there is none, and PIT0_Event one for each it has served.
THEOREM TimerKeepsArmed == Spec => []TimerArmed
<1>1. ClockInv => TimerArmed
    <2> SUFFICES ASSUME ClockInv PROVE TimerArmed
        OBVIOUS
    <2> DEFINE n == Len(queue)
               K == {i \in 1 .. n : queue[i].owner = Pit}
    <2>1. n \in Nat
        BY DEF ClockInv, TimeInv, TypeOK
    <2>2. K \in SUBSET (1 .. n) /\ \A i \in 1 .. n : i \in K <=> IsPit(queue, i)
        BY DEF IsPit
    <2>3. /\ NoPit(queue) => K = {}
          /\ OnePit(queue) => \A i, j \in K : i = j
          /\ SomePit(queue) => K # {}
        BY <2>2 DEF NoPit, OnePit, SomePit
    <2>4. ArmedInv
        BY DEF ClockInv
    <2>5. TimerArmed <=>
            (~dropped => IF pit.new THEN Cardinality(K) = 0
                         ELSE IF pit.mode = 0 THEN Cardinality(K) <= 1 ELSE Cardinality(K) = 1)
        BY DEF TimerArmed
    <2> HIDE DEF K, n
    <2>6. NoPit(queue) => Cardinality(K) = 0
        BY <2>3, FS_EmptySet
    <2>7. ASSUME OnePit(queue), K # {} PROVE Cardinality(K) = 1
        <3>1. PICK i \in K : TRUE
            BY <2>7
        <3>2. K = {i}
            BY <2>3, <2>7, <3>1
        <3> QED BY <3>2, FS_Singleton
    <2>8. OnePit(queue) => Cardinality(K) <= 1
        <3>1. K = {} => Cardinality(K) = 0
            BY FS_EmptySet
        <3> QED BY <2>7, <3>1
    <2> QED BY <2>3, <2>4, <2>5, <2>6, <2>7, <2>8 DEF ArmedInv
<1> QED BY <1>1, ClockInvariant, PTL

\* What makes NotFasterThanHost inductive: there is credit for the ticks the loop has still
\* to make and for those it will find when it looks at the host's clock.
CreditInv == slack >= remain + Min(clock, MaxRemain)

LEMMA CreditPasses ==
    ASSUME TypeOK, CreditInv, Passed, remain' = remain
    PROVE  CreditInv'
<1>1. /\ slack \in Int /\ clock \in Nat /\ remain \in 0 .. MaxRemain /\ MaxRemain \in Nat \ {0}
      /\ clock' = clock + 1 /\ slack' = Min(slack + 1, 2 * MaxRemain)
    BY ClockAssumption DEF TypeOK, Passed, Burst
<1>2. Min(clock', MaxRemain) <= MaxRemain /\ Min(clock', MaxRemain) <= Min(clock, MaxRemain) + 1
      /\ Min(clock', MaxRemain) \in Int /\ Min(clock, MaxRemain) \in Int
    BY <1>1 DEF Min
<1>3. slack' = slack + 1 \/ slack' = MaxRemain + MaxRemain
    BY <1>1 DEF Min
<1> QED BY <1>1, <1>2, <1>3 DEF CreditInv

LEMMA CreditStep == TypeOK /\ CreditInv /\ [Next]_vars => CreditInv'
<1> SUFFICES ASSUME TypeOK, CreditInv, [Next]_vars PROVE CreditInv'
    OBVIOUS
<1>1. /\ slack \in Int /\ clock \in Nat /\ remain \in 0 .. MaxRemain /\ MaxRemain \in Nat \ {0}
      /\ Min(clock, MaxRemain) \in Nat
    BY ClockAssumption DEF TypeOK, Min
<1>2. CASE HostClock
    BY <1>2, CreditPasses DEF HostClock
<1>3. CASE AddTick
    <2>1. remain' = remain - 1 /\ slack' = slack - 1 /\ clock' = clock
        BY <1>3 DEF AddTick
    <2> QED BY <1>1, <2>1 DEF CreditInv
<1>4. CASE IncreaseTicks
    <2>1. CASE clock > 0
        <3>1. remain' = Min(clock, MaxRemain) /\ clock' = 0 /\ slack' = slack /\ remain = 0
            BY <1>4, <2>1 DEF IncreaseTicks, Ticks
        <3>2. Min(clock', MaxRemain) = 0
            BY <1>1, <3>1 DEF Min
        <3> QED BY <1>1, <3>1, <3>2 DEF CreditInv
    <2>2. CASE ~(clock > 0)
        BY <1>4, <2>2, CreditPasses DEF IncreaseTicks
    <2> QED BY <2>1, <2>2
<1>5. CASE UNCHANGED hostVars
    BY <1>5 DEF CreditInv, hostVars
<1>6. \/ HostClock \/ AddTick \/ IncreaseTicks \/ UNCHANGED hostVars
    BY DEF Next, NormalLoop, vars, RunQueue, ServePit, ServeDevice, Slice, SliceOver, Plain, AddDevice,
           RemoveDevice, FirstHalf, ControlWord, SecondHalf, Pause, Resume
<1> QED BY <1>2, <1>3, <1>4, <1>5, <1>6

\* However the host's clock runs, whatever stalls or pauses the loop, it makes no tick
\* without credit (Normal_Loop: TIMER_AddTick for each of ticksRemain, which is what the
\* clock gained since ticksLast and at most 20): no more ticks in all than the host has had
\* milliseconds, and in any stretch of time at most Burst more.
THEOREM NeverFasterThanHost == Spec => []NotFasterThanHost
<1>1. Init => CreditInv
    BY ClockAssumption DEF Init, CreditInv, Min
<1>2. TypeOK /\ CreditInv => NotFasterThanHost
    <2>1. TypeOK => slack \in Int /\ remain \in Nat /\ Min(clock, MaxRemain) \in Nat
        BY ClockAssumption DEF TypeOK, Min
    <2> QED BY <2>1 DEF CreditInv, NotFasterThanHost
<1> QED BY <1>1, <1>2, CreditStep, ClockTypes, PTL DEF Spec

\* PIC_FullIndex goes back only when a tick begins, by what the last one ran over, and when a
\* control word stretches the slice.
THEOREM TimeGoesForward == Spec => TimeForward
<1> DEFINE Forward ==
             IF TickBegins THEN Now' + CycleMax >= Now - (CycleHack + 1)
             ELSE Now' >= Now - (IF programs' > programs THEN Stretch ELSE 0)
<1>1. ClockInv /\ [Next]_vars => Forward
    <2> SUFFICES ASSUME ClockInv, [Next]_vars PROVE Forward
        OBVIOUS
    <2>1. TimeInv /\ TypeOK /\ OtherTypes' /\ QueueTyped /\ GoodQueue(queue')
        BY OtherStep, ArmedStep, TypesOfTime DEF ClockInv, TimeInv
    <2>2. /\ CycleMax \in Nat /\ CycleHack \in Nat /\ Stretch \in Nat
          /\ left \in Int /\ cycles \in Int /\ programs \in Nat /\ remain \in Nat
          /\ left >= -(CycleHack + 1)
        BY <2>1, ClockAssumption DEF TypeOK
    <2>3. queue' # <<>> => queue'[1].at \in Int
        <3>1. queue' # <<>> => queue'[1] \in Events
            BY <2>1 DEF GoodQueue
        <3> QED BY <3>1 DEF Events
    \* A step that moves the clock by no tick and no stretch.
    <2>4. ASSUME left' \in Int, cycles' \in Int, left' + cycles' <= left + cycles, remain' \in Nat, remain' >= remain,
                 programs' = programs
          PROVE  Forward
        <3>1. ~TickBegins /\ ~(programs' > programs)
            BY <2>2, <2>4 DEF TickBegins
        <3>2. Now' >= Now - 0
            <4>1. Now' = CycleMax - left' - cycles' /\ Now = CycleMax - left - cycles
                BY DEF Now
            <4>2. CycleMax \in Int
                BY <2>2
            <4>3. CycleMax - left' - cycles' >= CycleMax - left - cycles - 0
                BY <2>2, <2>4, <4>2, ForwardBy
            <4> QED BY <4>1, <4>3
        <3> QED BY <3>1, <3>2
    <2> HIDE DEF Forward
    <2>5. CASE ServePit \/ ServeDevice
        <3>1. UNCHANGED <<left, cycles, programs, remain>>
            BY <2>1, <2>5, ClockMoves
        <3> QED BY <3>1, <2>2, <2>4
    <2>6. CASE RunQueue
        <3>1. left' = left + cycles /\ cycles' = 0 /\ UNCHANGED <<programs, remain>>
            BY <2>1, <2>6, ClockMoves
        <3> QED BY <3>1, <2>2, <2>4
    <2>7. CASE SliceOver \/ Plain \/ FirstHalf \/ RemoveDevice
        <3>1. left' = left /\ cycles' = cycles - 1 /\ UNCHANGED <<programs, remain>>
            BY <2>1, <2>7, ClockMoves
        <3> QED BY <3>1, <2>2, <2>4
    <2>8. CASE Slice
        <3>1. left' + cycles' = left /\ cycles = 0 /\ UNCHANGED <<programs, remain>> /\ TypeOK'
            BY <2>1, <2>8, SliceKeeps DEF TimeInv
        <3>2. left' \in Int /\ cycles' \in Int
            BY <3>1 DEF TypeOK
        <3>3. left + cycles = left
            BY <3>1, <2>2
        <3>4. left' + cycles' <= left + cycles
            BY <3>1, <3>3, <2>2
        <3>5. remain' \in Nat /\ remain' >= remain
            BY <3>1, <2>2
        <3> QED BY <3>1, <3>2, <3>4, <3>5, <2>4
    <2>9. ASSUME Executes, Cut(queue', cycles - 1), UNCHANGED <<programs, remain>> PROVE Forward
        <3>1. \/ left' = left + (cycles - 1) /\ cycles' = 0
              \/ left' = left /\ cycles' = cycles - 1
            BY <2>1, <2>3, <2>9, CutIs
        <3> QED BY <3>1, <2>2, <2>4, <2>9
    <2>10. CASE AddDevice
        BY <2>9, <2>10 DEF AddDevice, hostVars
    <2>11. ASSUME NEW period \in Delays, SecondHalf(period) PROVE Forward
        <3>1. Executes /\ UNCHANGED <<programs, remain>>
            BY <2>11 DEF SecondHalf, hostVars
        <3>2. CASE LoadQueues
            BY <2>9, <2>11, <3>1, <3>2 DEF SecondHalf
        <3>3. CASE ~LoadQueues
            <4>1. left' = left /\ cycles' = cycles - 1
                BY <2>11, <3>3 DEF SecondHalf
            <4> QED BY <4>1, <3>1, <2>2, <2>4
        <3> QED BY <3>2, <3>3
    <2>12. ASSUME NEW mode \in {0, 2, 3}, NEW low \in BOOLEAN, ControlWord(mode, low) PROVE Forward
        <3>1. /\ cycles > 0 /\ left' = left /\ programs' = programs + 1 /\ remain' = remain
              /\ cycles' = cycles - 1 \/ (cycles' = Stretch /\ cycles - 1 < Stretch)
            BY <2>12 DEF ControlWord, Executes, hostVars
        <3>2. ~TickBegins /\ programs' > programs
            BY <3>1, <2>2 DEF TickBegins
        <3>3. Now' >= Now - Stretch
            BY <3>1, <2>2 DEF Now
        <3> QED BY <3>2, <3>3 DEF Forward
    <2>13. CASE AddTick
        <3>1. pc \in {"events", "resumed"} /\ left' = CycleMax /\ cycles' = 0 /\ remain' = remain - 1
            BY <2>13 DEF AddTick, TickOver
        <3>2. cycles = 0
            BY <2>1, <3>1 DEF TimeInv
        <3>3. TickBegins
            BY <3>1, <2>2 DEF TickBegins
        <3>4. Now' + CycleMax >= Now - (CycleHack + 1)
            BY <3>1, <3>2, <2>2 DEF Now
        <3> QED BY <3>3, <3>4 DEF Forward
    <2>14. CASE IncreaseTicks \/ Pause \/ Resume \/ HostClock
        <3>1. UNCHANGED <<left, cycles, programs>> /\ (remain = 0 \/ remain' = remain)
            BY <2>14 DEF IncreaseTicks, Pause, Resume, HostClock, timeVars, hostVars
        <3>2. remain' \in Nat /\ remain' >= remain
            BY <3>1, <2>1, <2>2 DEF OtherTypes
        <3> QED BY <3>1, <3>2, <2>2, <2>4
    <2>15. CASE UNCHANGED vars
        <3>1. UNCHANGED <<left, cycles, programs, remain>>
            BY <2>15 DEF vars, timeVars, hostVars
        <3> QED BY <3>1, <2>2, <2>4
    <2> QED BY <2>5, <2>6, <2>7, <2>8, <2>10, <2>11, <2>12, <2>13, <2>14, <2>15
            DEF Next, NormalLoop
<1>2. ClockInv /\ [Next]_vars => [Forward]_vars
    BY <1>1
<1>3. ClockInv /\ ClockInv' /\ [Next]_vars => [Forward]_vars
    BY <1>2
<1> QED BY <1>3, ClockInvariant, PTL DEF Spec, TimeForward
=============================================================================
