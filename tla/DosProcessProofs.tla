-------------------------- MODULE DosProcessProofs --------------------------
(***************************************************************************)
(* Proofs about DosProcess for every layout of memory and every number and *)
(* size of programs and blocks: both chains stay whole, the programs' ends *)
(* and failed starts leave nothing behind, a start never exits, and nobody *)
(* touches the block of somebody else.                                     *)
(***************************************************************************)
EXTENDS DosProcess, FiniteSetTheorems, SequenceTheorems, WellFoundedInduction, TLAPS

-----------------------------------------------------------------------------
(* Sets of numbers *)

LEMMA LeastOf ==
    ASSUME NEW S, S \subseteq Nat, S # {}
    PROVE  \E x \in S : \A y \in S : x <= y
<1> DEFINE less == {p \in Nat \X Nat : p[1] < p[2]}
<1>1. IsWellFoundedOn(less, Nat)
    BY NatLessThanWellFounded DEF OpToRel
<1> HIDE DEF less
<1>2. PICK x \in S : \A y \in S : <<y, x>> \notin less
    BY <1>1, WFMin
<1> USE DEF less
<1>3. \A y \in S : ~(y < x)
    BY <1>2
<1>4. \A y \in S : x <= y
    BY <1>3
<1> QED BY <1>4

LEMMA GreatestOf ==
    ASSUME NEW n \in Nat, NEW S, S \subseteq 0 .. n, S # {}
    PROVE  \E x \in S : \A y \in S : y <= x
<1> DEFINE T == {n - x : x \in S}
<1>1. \A x \in S : x \in Nat /\ n - x \in Nat
    OBVIOUS
<1>2. T \subseteq Nat /\ T # {}
    BY <1>1
<1>3. PICK t \in T : \A u \in T : t <= u
    BY <1>2, LeastOf
<1>4. PICK x \in S : t = n - x
    OBVIOUS
<1>5. \A y \in S : n - y \in T
    OBVIOUS
<1> HIDE DEF T
<1>6. \A y \in S : n - x <= n - y
    BY <1>3, <1>4, <1>5
<1>7. \A y \in S : y <= x
    BY <1>1, <1>6
<1> QED BY <1>7

-----------------------------------------------------------------------------
(* The layout *)

LEMMA Layout ==
    /\ First = 0 /\ UmbStart \in Nat /\ UmbEnd \in Nat /\ First < UmbStart /\ UmbStart < UmbEnd
    /\ Gap \in Nat /\ LockAt \in Nat /\ Low \in Nat /\ Umb \in Nat
    /\ Gap = First + 2 /\ LockAt = Gap + GapSize + 1 /\ Low = LockAt + LockSize + 1
    /\ UmbStart = Low + LowSize + 1 /\ Umb = UmbStart + CoverSize + 1 /\ UmbEnd = Umb + UmbSize + 1
<1>1. GapSize \in Nat /\ LockSize \in Nat /\ LowSize \in Nat /\ CoverSize \in Nat /\ UmbSize \in Nat
    BY ArenaAssumption
<1> QED BY <1>1 DEF First, Gap, LockAt, Low, UmbStart, Umb, UmbEnd

Headers == [owner : Int, size : Nat, last : BOOLEAN]

\* The blocks lie one behind the other from the first header to the end, one of them begins
\* where upper memory is to begin, and the last of a chain is marked as such.
Tiled(m, link) ==
    /\ DOMAIN m \subseteq First .. UmbEnd - 1 /\ First \in DOMAIN m /\ UmbStart \in DOMAIN m
    /\ \A a \in DOMAIN m : m[a] \in Headers
    /\ \A a \in DOMAIN m : Behind(m, a) \in DOMAIN m \cup {UmbEnd}
    /\ \A a, b \in DOMAIN m : a < b => Behind(m, a) <= b
    /\ \A a \in DOMAIN m : m[a].last <=> Behind(m, a) = UmbEnd \/ (Behind(m, a) = UmbStart /\ ~link)
    /\ m[UmbStart].owner = Dos

\* The same facts as numbers.
LEMMA TileFacts ==
    ASSUME NEW m, NEW link \in BOOLEAN, Tiled(m, link), NEW a \in DOMAIN m
    PROVE  /\ a \in Nat /\ a < UmbEnd /\ m[a].size \in Nat /\ m[a].owner \in Int /\ m[a].last \in BOOLEAN
           /\ Behind(m, a) \in Nat /\ Behind(m, a) > a /\ Behind(m, a) <= UmbEnd
           /\ Behind(m, a) = a + m[a].size + 1
           /\ Behind(m, a) # UmbEnd <=> Behind(m, a) \in DOMAIN m
           /\ \A b \in DOMAIN m : a < b => Behind(m, a) <= b
           /\ a < UmbStart => Behind(m, a) <= UmbStart
<1>1. First = 0 /\ UmbEnd \in Nat /\ UmbStart \in Nat
    BY Layout
<1>2. DOMAIN m \subseteq 0 .. UmbEnd - 1
    BY <1>1 DEF Tiled
<1>3. \A b \in DOMAIN m : b \in Nat /\ b < UmbEnd
    BY <1>1, <1>2
<1>4. m[a] \in Headers
    BY DEF Tiled
<1>5. m[a].size \in Nat /\ m[a].owner \in Int /\ m[a].last \in BOOLEAN
    BY <1>4 DEF Headers
<1>6. Behind(m, a) = a + m[a].size + 1
    BY DEF Behind
<1>7. Behind(m, a) \in Nat /\ Behind(m, a) > a
    BY <1>3, <1>5, <1>6
<1>8. Behind(m, a) \in DOMAIN m \cup {UmbEnd}
    BY DEF Tiled
<1>9. Behind(m, a) <= UmbEnd /\ (Behind(m, a) # UmbEnd <=> Behind(m, a) \in DOMAIN m)
    BY <1>1, <1>3, <1>7, <1>8
<1>10. \A b \in DOMAIN m : a < b => Behind(m, a) <= b
    BY DEF Tiled
<1> QED BY <1>3, <1>5, <1>6, <1>7, <1>9, <1>10 DEF Tiled

-----------------------------------------------------------------------------
(* A walk *)

\* The headers of the chain from one header up to the address where it ends.
Stretch(m, from, end) == {a \in DOMAIN m : from <= a /\ a < end}
ChainTo(m, from, end) ==
    /\ from \in DOMAIN m /\ end \in DOMAIN m \cup {UmbEnd} /\ from < end
    /\ \A a \in Stretch(m, from, end) : m[a].last <=> Behind(m, a) = end

LEMMA ChainFacts ==
    ASSUME NEW m, NEW link \in BOOLEAN, Tiled(m, link), NEW from, NEW end, ChainTo(m, from, end),
           NEW a \in Stretch(m, from, end)
    PROVE  /\ a \in DOMAIN m /\ from \in Nat /\ end \in Nat /\ a \in Nat /\ Behind(m, a) \in Nat
           /\ a < Behind(m, a) /\ Behind(m, a) <= end
           /\ Ends(m, a) <=> Behind(m, a) = end
           /\ ~Ends(m, a) => Behind(m, a) \in Stretch(m, from, end)
           /\ \A b \in Stretch(m, from, end) : a < b => Behind(m, a) <= b
<1>1. a \in DOMAIN m /\ from <= a /\ a < end /\ from \in DOMAIN m /\ end \in DOMAIN m \cup {UmbEnd}
    BY DEF Stretch, ChainTo
<1>2. /\ a \in Nat /\ Behind(m, a) \in Nat /\ a < Behind(m, a) /\ Behind(m, a) <= UmbEnd
      /\ Behind(m, a) # UmbEnd <=> Behind(m, a) \in DOMAIN m
      /\ \A b \in DOMAIN m : a < b => Behind(m, a) <= b
    BY <1>1, TileFacts
<1>3. from \in Nat /\ UmbEnd \in Nat
    BY <1>1, TileFacts, Layout
<1>4. end \in Nat /\ end <= UmbEnd
    BY <1>1, <1>3, TileFacts
<1>5. Behind(m, a) <= end
    BY <1>1, <1>2, <1>3
<1>6. m[a].last <=> Behind(m, a) = end
    BY DEF ChainTo
<1>7. Ends(m, a) <=> Behind(m, a) = end
    BY <1>2, <1>3, <1>4, <1>5, <1>6 DEF Ends
<1>8. ~Ends(m, a) => Behind(m, a) \in DOMAIN m /\ from <= Behind(m, a) /\ Behind(m, a) < end
    BY <1>1, <1>2, <1>3, <1>4, <1>5, <1>7 DEF Ends
<1> QED BY <1>1, <1>2, <1>3, <1>4, <1>5, <1>7, <1>8 DEF Stretch

\* One more header than before, unless the chain has ended.
Longer(m, before) ==
    LET a == before[Len(before)]
    IN IF Ends(m, a) THEN before ELSE Append(before, Behind(m, a))

\* The function behind Walk.
Meets(m, from, g, last) ==
    g = [n \in 1 .. last |-> IF n = 1 THEN <<from>> ELSE Longer(m, g[n - 1])]

LEMMA MeetsExists ==
    ASSUME NEW m, NEW from, NEW last \in Nat
    PROVE  \E g : Meets(m, from, g, last)
<1> DEFINE None == {n \in Nat : ~\E g : Meets(m, from, g, n)}
<1>1. SUFFICES ASSUME None # {} PROVE FALSE
    OBVIOUS
<1>2. PICK n \in None : \A k \in None : n <= k
    <2>1. None \subseteq Nat
        OBVIOUS
    <2> HIDE DEF None
    <2> QED BY <1>1, <2>1, LeastOf
<1>3. n # 0
    <2>1. Meets(m, from, [k \in 1 .. 0 |-> 0], 0)
        BY DEF Meets
    <2> QED BY <2>1
<1>4. n \in Nat /\ n - 1 \in Nat /\ n - 1 \notin None
    <2>1. n \in Nat /\ n - 1 \in Nat
        BY <1>3
    <2> HIDE DEF None
    <2> QED BY <1>2, <2>1
<1>5. PICK h : Meets(m, from, h, n - 1)
    BY <1>4
<1> DEFINE g == [k \in 1 .. n |-> IF k = n THEN (IF n = 1 THEN <<from>> ELSE Longer(m, h[n - 1])) ELSE h[k]]
<1>6. ASSUME NEW k \in 1 .. n PROVE g[k] = IF k = 1 THEN <<from>> ELSE Longer(m, g[k - 1])
    <2>1. CASE k = n
        <3>1. g[k] = IF n = 1 THEN <<from>> ELSE Longer(m, h[n - 1])
            BY <2>1
        <3>2. k # 1 => g[k - 1] = h[k - 1]
            BY <1>4
        <3> QED BY <2>1, <3>1, <3>2
    <2>2. CASE k # n
        <3>1. k \in 1 .. n - 1 /\ g[k] = h[k]
            BY <2>2, <1>4
        <3>2. h[k] = IF k = 1 THEN <<from>> ELSE Longer(m, h[k - 1])
            BY <3>1, <1>5 DEF Meets
        <3>3. k # 1 => g[k - 1] = h[k - 1]
            BY <1>4, <3>1
        <3> QED BY <3>1, <3>2, <3>3
    <2> QED BY <2>1, <2>2
<1>7. Meets(m, from, g, n)
    <2>1. g = [k \in 1 .. n |-> g[k]]
        OBVIOUS
    <2> HIDE DEF g
    <2> QED BY <1>6, <2>1 DEF Meets
<1> HIDE DEF g
<1>8. n \notin None
    BY <1>7
<1> QED BY <1>2, <1>8

\* A walk of at most n headers: one behind the other, and as far as it goes.
Follows(m, from, w, n) ==
    /\ Len(w) \in 1 .. n /\ w[1] = from
    /\ \A k \in 1 .. Len(w) - 1 : ~Ends(m, w[k]) /\ w[k + 1] = Behind(m, w[k])
    /\ Len(w) = n \/ Ends(m, w[Len(w)])

LEMMA WalkFollows ==
    ASSUME NEW m, NEW link \in BOOLEAN, Tiled(m, link), NEW from, NEW end, ChainTo(m, from, end),
           NEW last \in Nat \ {0}, NEW g, Meets(m, from, g, last), NEW n \in 1 .. last
    PROVE  g[n] \in Seq(Stretch(m, from, end)) /\ Follows(m, from, g[n], n)
<1> DEFINE S == Stretch(m, from, end)
           Good(k) == g[k] \in Seq(S) /\ Follows(m, from, g[k], k)
           Bad == {k \in 1 .. last : ~Good(k)}
<1>1. SUFFICES ASSUME Bad # {} PROVE FALSE
    OBVIOUS
<1>2. PICK k \in Bad : \A j \in Bad : k <= j
    <2>1. Bad \subseteq Nat
        OBVIOUS
    <2> HIDE DEF Bad
    <2> QED BY <1>1, <2>1, LeastOf
<1>3. k \in 1 .. last /\ ~Good(k)
    OBVIOUS
<1>4. g[k] = IF k = 1 THEN <<from>> ELSE Longer(m, g[k - 1])
    BY <1>3 DEF Meets
<1>5. from \in S
    <2>1. from \in DOMAIN m /\ from < end
        BY DEF ChainTo
    <2>2. from \in Nat
        BY <2>1, TileFacts
    <2> QED BY <2>1, <2>2 DEF Stretch
<1>6. k # 1
    <2>1. ASSUME k = 1 PROVE Good(1)
        <3>1. g[1] = <<from>>
            BY <2>1, <1>4
        <3> HIDE DEF S
        <3>2. g[1] \in Seq(S) /\ Len(g[1]) = 1 /\ g[1][1] = from
            BY <3>1, <1>5
        <3> QED BY <3>2 DEF Follows
    <2> QED BY <2>1, <1>3
<1>7. k - 1 \in 1 .. last /\ k - 1 \notin Bad
    BY <1>2, <1>6
<1> DEFINE w == g[k - 1]
           l == Len(w)
           a == w[l]
<1>8. w \in Seq(S) /\ Follows(m, from, w, k - 1) /\ g[k] = Longer(m, w)
    BY <1>4, <1>6, <1>7
<1> HIDE DEF S, w, Good
<1>9. l \in Nat /\ l \in 1 .. k - 1 /\ w[1] = from /\ a \in S
      /\ (\A j \in 1 .. l - 1 : ~Ends(m, w[j]) /\ w[j + 1] = Behind(m, w[j])) /\ (l = k - 1 \/ Ends(m, a))
    BY <1>3, <1>7, <1>8 DEF Follows
<1>10. CASE Ends(m, a)
    <2>1. g[k] = w
        BY <1>8, <1>10 DEF Longer
    <2> QED BY <1>3, <1>8, <1>9, <1>10, <2>1 DEF Good, Follows
<1>11. CASE ~Ends(m, a)
    <2> DEFINE b == Behind(m, a)
    <2>1. b \in S
        BY <1>9, <1>11, ChainFacts DEF S
    <2>2. g[k] = Append(w, b)
        BY <1>8, <1>11 DEF Longer
    <2>3. l = k - 1 /\ ~Ends(m, w[l]) /\ b = Behind(m, w[l])
        BY <1>9, <1>11
    <2> HIDE DEF b, a
    <2>4. g[k] \in Seq(S) /\ Len(g[k]) = k /\ g[k][k] = b /\ \A j \in 1 .. l : g[k][j] = w[j]
        BY <2>1, <2>2, <2>3, <1>8, <1>9
    <2>5. \A j \in 1 .. k - 1 : ~Ends(m, g[k][j]) /\ g[k][j + 1] = Behind(m, g[k][j])
        <3> SUFFICES ASSUME NEW j \in 1 .. k - 1
                     PROVE  ~Ends(m, g[k][j]) /\ g[k][j + 1] = Behind(m, g[k][j])
            OBVIOUS
        <3>1. CASE j = l
            BY <3>1, <2>3, <2>4, <1>9
        <3>2. CASE j # l
            <4>1. j \in 1 .. l - 1 /\ j \in 1 .. l /\ j + 1 \in 1 .. l
                BY <3>2, <2>3, <1>3
            <4> QED BY <4>1, <1>9, <2>4
        <3> QED BY <3>1, <3>2
    <2>6. g[k][1] = from /\ k \in 1 .. k
        BY <1>3, <1>9, <2>4
    <2> QED BY <1>3, <2>4, <2>5, <2>6 DEF Good, Follows
<1> QED BY <1>10, <1>11

LEMMA WalkIs ==
    ASSUME NEW m, NEW link \in BOOLEAN, Tiled(m, link), NEW from, NEW end, ChainTo(m, from, end)
    PROVE  /\ Walk(m, from) \in Seq(Stretch(m, from, end)) /\ Len(Walk(m, from)) \in Nat \ {0}
           /\ Visited(Walk(m, from)) = Stretch(m, from, end)
           /\ Behind(m, Walk(m, from)[Len(Walk(m, from))]) = end
<1> DEFINE S == Stretch(m, from, end)
           n == Cardinality(DOMAIN m)
           g == CHOOSE h : Meets(m, from, h, n)
           w == Walk(m, from)
           l == Len(w)
<1>1. from \in DOMAIN m /\ from \in Nat /\ end \in Nat /\ from < end
    BY ChainFacts, TileFacts, Layout DEF ChainTo
<1>2. IsFiniteSet(DOMAIN m) /\ n \in Nat \ {0}
    <2>1. DOMAIN m \subseteq First .. UmbEnd - 1 /\ First \in Int /\ UmbEnd - 1 \in Int
        BY Layout DEF Tiled
    <2>2. IsFiniteSet(DOMAIN m)
        BY <2>1, FS_Interval, FS_Subset
    <2>3. n \in Nat /\ n # 0
        BY <1>1, <2>2, FS_CardinalityType, FS_EmptySet
    <2> QED BY <2>2, <2>3
<1>3. w = g[n]
    BY DEF Walk, Meets, Longer
<1> HIDE DEF w, n
<1>4. Meets(m, from, g, n)
    BY <1>2, MeetsExists
<1>5. w \in Seq(S) /\ Follows(m, from, w, n)
    BY <1>2, <1>3, <1>4, WalkFollows
<1> HIDE DEF g, S
<1>6. /\ l \in Nat \ {0} /\ l <= n /\ w[1] = from /\ \A k \in 1 .. l : w[k] \in S
      /\ \A k \in 1 .. l - 1 : ~Ends(m, w[k]) /\ w[k + 1] = Behind(m, w[k])
      /\ l = n \/ Ends(m, w[l])
    BY <1>2, <1>5 DEF Follows
<1>7. \A a \in S : /\ a \in Nat /\ a \in DOMAIN m /\ from <= a /\ a < end /\ a < Behind(m, a) /\ Behind(m, a) \in Nat
                   /\ Behind(m, a) <= end /\ (Ends(m, a) <=> Behind(m, a) = end)
                   /\ (~Ends(m, a) => Behind(m, a) \in S)
                   /\ \A b \in S : a < b => Behind(m, a) <= b
    BY ChainFacts DEF S, Stretch
<1>8. \A j \in 1 .. l : \A i \in 1 .. l : i < j => w[i] < w[j]
    <2> DEFINE Bad == {j \in 1 .. l : \E i \in 1 .. l : i < j /\ ~(w[i] < w[j])}
    <2>1. SUFFICES ASSUME Bad # {} PROVE FALSE
        OBVIOUS
    <2>2. PICK j \in Bad : \A k \in Bad : j <= k
        <3>1. Bad \subseteq Nat
            BY <1>6
        <3> HIDE DEF Bad
        <3> QED BY <2>1, <3>1, LeastOf
    <2>3. PICK i \in 1 .. l : i < j /\ ~(w[i] < w[j])
        OBVIOUS
    <2>4. j \in 1 .. l /\ j - 1 \in 1 .. l - 1 /\ j - 1 \in 1 .. l /\ j - 1 \notin Bad
        BY <1>6, <2>2, <2>3
    <2>5. w[j] = Behind(m, w[j - 1]) /\ w[j - 1] < w[j]
        <3>1. w[(j - 1) + 1] = Behind(m, w[j - 1])
            BY <1>6, <2>4
        <3>2. w[j - 1] \in S
            BY <1>6, <2>4
        <3> QED BY <3>1, <3>2, <1>6, <1>7, <2>4
    <2>6. i # j - 1 => w[i] < w[j - 1]
        BY <1>6, <2>3, <2>4
    <2>7. w[i] \in Nat /\ w[j] \in Nat /\ w[j - 1] \in Nat
        BY <1>6, <1>7, <2>4
    <2> QED BY <2>3, <2>5, <2>6, <2>7
<1>9. Ends(m, w[l])
    <2>1. SUFFICES ASSUME ~Ends(m, w[l]) PROVE FALSE
        OBVIOUS
    <2>2. l = n /\ w \in [1 .. n -> DOMAIN m]
        <3>1. w \in [1 .. l -> S] /\ S \subseteq DOMAIN m
            BY <1>5, <1>7
        <3> QED BY <1>6, <2>1, <3>1
    <2>3. \A i, j \in 1 .. n : i # j => w[i] # w[j]
        <3> SUFFICES ASSUME NEW i \in 1 .. n, NEW j \in 1 .. n, i # j PROVE w[i] # w[j]
            OBVIOUS
        <3>1. (i < j \/ j < i) /\ i \in 1 .. l /\ j \in 1 .. l
            BY <1>2, <2>2
        <3>2. w[i] < w[j] \/ w[j] < w[i]
            BY <1>8, <3>1
        <3>3. w[i] \in Nat /\ w[j] \in Nat
            BY <1>6, <1>7, <3>1
        <3> QED BY <3>2, <3>3
    <2>4. w \in Injection(1 .. n, DOMAIN m)
        BY <2>2, <2>3 DEF Injection, IsInjective
    <2>5. Cardinality(1 .. n) = Cardinality(DOMAIN m)
        BY <1>2, FS_Interval DEF n
    <2>6. w \in Surjection(1 .. n, DOMAIN m)
        BY <1>2, <2>4, <2>5, FS_Injection
    <2>7. w[l] \in S /\ Behind(m, w[l]) \in S /\ w[l] < Behind(m, w[l])
        BY <1>6, <1>7, <2>1
    <2>8. PICK k \in 1 .. n : w[k] = Behind(m, w[l])
        BY <1>7, <2>6, <2>7 DEF Surjection
    <2>9. k = l \/ w[k] < w[l]
        BY <1>2, <1>6, <1>8, <2>2
    <2> QED BY <1>7, <2>7, <2>8, <2>9
<1>10. \A a \in S : \E k \in 1 .. l : w[k] = a
    <2> SUFFICES ASSUME NEW a \in S PROVE \E k \in 1 .. l : w[k] = a
        OBVIOUS
    <2> DEFINE P == {k \in 1 .. l : w[k] <= a}
    <2>1. P \subseteq 0 .. l /\ P # {}
        BY <1>6, <1>7
    <2>2. PICK k \in P : \A j \in P : j <= k
        <3> HIDE DEF P
        <3> QED BY <1>6, <2>1, GreatestOf
    <2>3. k \in 1 .. l /\ w[k] <= a /\ w[k] \in S
        BY <1>6, <2>2
    <2>4. CASE w[k] = a
        BY <2>3, <2>4
    <2>5. CASE w[k] # a
        <3> DEFINE x == w[k]
        <3>a. x \in S /\ x <= a /\ x # a
            BY <2>3, <2>5
        <3> HIDE DEF x
        <3>b. x \in Nat /\ a \in Nat /\ a < end /\ end \in Nat /\ (x < a => Behind(m, x) <= a)
              /\ Behind(m, x) \in Nat /\ (Ends(m, x) <=> Behind(m, x) = end)
            BY <1>1, <1>7, <3>a
        <3>c. x < a /\ Behind(m, x) <= a /\ ~Ends(m, x)
            BY <3>a, <3>b
        <3>1. w[k] < a /\ Behind(m, w[k]) <= a
            BY <3>c DEF x
        <3>2. k # l
            BY <1>9, <3>c DEF x
        <3>3. k + 1 \in 1 .. l /\ k \in 1 .. l - 1
            BY <1>6, <2>3, <3>2
        <3>4. k + 1 \in P
            BY <1>6, <3>1, <3>3
        <3> HIDE DEF P
        <3> QED BY <2>2, <2>3, <3>4
    <2> QED BY <2>4, <2>5
<1>11. Visited(w) = S
    BY <1>6, <1>10 DEF Visited
<1>12. Behind(m, w[l]) = end
    BY <1>6, <1>7, <1>9
<1> QED BY <1>5, <1>6, <1>11, <1>12 DEF w, S

\* The two chains: low memory up to upper memory, or through it when they are linked.
EndOfLow(link) == IF link THEN UmbEnd ELSE UmbStart
LowPart(m, link) == {a \in DOMAIN m : link \/ a < UmbStart}
HighPart(m) == {a \in DOMAIN m : UmbStart <= a}

LEMMA TheChains ==
    ASSUME NEW m, NEW link \in BOOLEAN, Tiled(m, link)
    PROVE  /\ ChainTo(m, First, EndOfLow(link)) /\ ChainTo(m, UmbStart, UmbEnd)
           /\ Stretch(m, First, EndOfLow(link)) = LowPart(m, link)
           /\ Stretch(m, UmbStart, UmbEnd) = HighPart(m)
<1>1. First = 0 /\ UmbStart \in Nat /\ UmbEnd \in Nat /\ First < UmbStart /\ UmbStart < UmbEnd
    BY Layout
<1>2. \A a \in DOMAIN m : /\ a \in Nat /\ a < UmbEnd /\ a < Behind(m, a) /\ Behind(m, a) \in Nat
                          /\ a < UmbStart => Behind(m, a) <= UmbStart
    BY TileFacts
<1>3. /\ First \in DOMAIN m /\ UmbStart \in DOMAIN m
      /\ \A a \in DOMAIN m : m[a].last <=> Behind(m, a) = UmbEnd \/ (Behind(m, a) = UmbStart /\ ~link)
    BY DEF Tiled
<1>4. ChainTo(m, UmbStart, UmbEnd)
    BY <1>1, <1>2, <1>3 DEF ChainTo, Stretch
<1>5. ChainTo(m, First, EndOfLow(link))
    <2>1. CASE link
        BY <2>1, <1>1, <1>2, <1>3 DEF ChainTo, Stretch, EndOfLow
    <2>2. CASE ~link
        <3>1. \A a \in DOMAIN m : a < UmbStart => Behind(m, a) # UmbEnd
            BY <1>1, <1>2
        <3> QED BY <2>2, <3>1, <1>1, <1>2, <1>3 DEF ChainTo, Stretch, EndOfLow
    <2> QED BY <2>1, <2>2
<1>6. Stretch(m, First, EndOfLow(link)) = LowPart(m, link)
    BY <1>1, <1>2 DEF Stretch, LowPart, EndOfLow
<1>7. Stretch(m, UmbStart, UmbEnd) = HighPart(m)
    BY <1>1, <1>2 DEF Stretch, HighPart
<1> QED BY <1>4, <1>5, <1>6, <1>7

LEMMA Walks ==
    ASSUME NEW m, NEW link \in BOOLEAN, Tiled(m, link)
    PROVE  /\ Visited(Walk(m, First)) = LowPart(m, link) /\ Visited(Walk(m, UmbStart)) = HighPart(m)
           /\ Walk(m, First) \in Seq(LowPart(m, link)) /\ Walk(m, UmbStart) \in Seq(HighPart(m))
           /\ Walk(m, First) # <<>> /\ Walk(m, UmbStart) # <<>>
           /\ Behind(m, Walk(m, First)[Len(Walk(m, First))]) = EndOfLow(link)
           /\ Behind(m, Walk(m, UmbStart)[Len(Walk(m, UmbStart))]) = UmbEnd
<1>1. /\ ChainTo(m, First, EndOfLow(link)) /\ ChainTo(m, UmbStart, UmbEnd)
      /\ Stretch(m, First, EndOfLow(link)) = LowPart(m, link)
      /\ Stretch(m, UmbStart, UmbEnd) = HighPart(m)
    BY TheChains
<1>2. /\ Walk(m, First) \in Seq(LowPart(m, link)) /\ Len(Walk(m, First)) \in Nat \ {0}
      /\ Visited(Walk(m, First)) = LowPart(m, link)
      /\ Behind(m, Walk(m, First)[Len(Walk(m, First))]) = EndOfLow(link)
    BY <1>1, WalkIs
<1>3. /\ Walk(m, UmbStart) \in Seq(HighPart(m)) /\ Len(Walk(m, UmbStart)) \in Nat \ {0}
      /\ Visited(Walk(m, UmbStart)) = HighPart(m)
      /\ Behind(m, Walk(m, UmbStart)[Len(Walk(m, UmbStart))]) = UmbEnd
    BY <1>1, WalkIs
<1>4. Walk(m, First) # <<>> /\ Walk(m, UmbStart) # <<>>
    BY <1>2, <1>3
<1> QED BY <1>2, <1>3, <1>4

-----------------------------------------------------------------------------
(* What is held, and the joining of what is free *)

ExtentOf(m, a) == [owner |-> m[a].owner, first |-> a, last |-> a + m[a].size]
Held(m) == {ExtentOf(m, a) : a \in {b \in DOMAIN m : m[b].owner # Free}}

LEMMA SameHeld ==
    ASSUME NEW m, NEW n,
           \A a \in DOMAIN m : m[a].owner # Free => a \in DOMAIN n /\ n[a] = m[a],
           \A a \in DOMAIN n : n[a].owner # Free => a \in DOMAIN m /\ n[a] = m[a]
    PROVE  Held(n) = Held(m)
<1>1. {b \in DOMAIN n : n[b].owner # Free} = {b \in DOMAIN m : m[b].owner # Free}
    OBVIOUS
<1>2. \A a \in {b \in DOMAIN m : m[b].owner # Free} : ExtentOf(n, a) = ExtentOf(m, a)
    BY DEF ExtentOf
<1> QED BY <1>1, <1>2 DEF Held

FreeLow(m, link) == {a \in LowPart(m, link) : m[a].owner = Free}
Gone(m, link) == {Behind(m, a) : a \in {b \in FreeLow(m, link) : ~Ends(m, b)}} \cap FreeLow(m, link)

LEMMA CompressIs ==
    ASSUME NEW m, NEW link \in BOOLEAN, Tiled(m, link)
    PROVE  CompressMemory(m) = Compressed(m, Gone(m, link))
<1>1. {a \in Visited(Walk(m, First)) : m[a].owner = Free} = FreeLow(m, link)
    BY Walks DEF FreeLow
<1> QED BY <1>1 DEF CompressMemory, CompressedChain, Gone

LEMMA GoneFacts ==
    ASSUME NEW m, NEW link \in BOOLEAN, Tiled(m, link)
    PROVE  /\ Gone(m, link) \subseteq FreeLow(m, link) /\ FreeLow(m, link) \subseteq DOMAIN m
           /\ First \notin Gone(m, link) /\ UmbStart \notin Gone(m, link)
           /\ \A a \in DOMAIN m : Behind(m, a) \in Gone(m, link) => a \in FreeLow(m, link)
           /\ \A a \in FreeLow(m, link) :
                ~Ends(m, a) /\ Behind(m, a) \in FreeLow(m, link) => Behind(m, a) \in Gone(m, link)
<1> DEFINE G == Gone(m, link)
           F == FreeLow(m, link)
<1>1. \A a \in DOMAIN m : /\ a \in Nat /\ a < Behind(m, a) /\ Behind(m, a) \in Nat
                          /\ \A b \in DOMAIN m : a < b => Behind(m, a) <= b
    BY TileFacts
<1>2. F \subseteq DOMAIN m /\ \A a \in F : m[a].owner = Free
    BY DEF FreeLow, LowPart
<1>3. /\ G \subseteq F
      /\ \A c \in G : \E a \in F : Behind(m, a) = c
      /\ \A a \in F : ~Ends(m, a) /\ Behind(m, a) \in F => Behind(m, a) \in G
    BY DEF Gone
<1>4. UmbStart \notin G
    BY <1>2, <1>3 DEF Tiled, Free, Dos
<1>5. First \notin G
    <2>1. \A a \in F : Behind(m, a) # First
        BY <1>1, <1>2, Layout
    <2> QED BY <1>3, <2>1
<1>6. ASSUME NEW a \in DOMAIN m, Behind(m, a) \in G PROVE a \in F
    <2>1. PICK b \in F : Behind(m, b) = Behind(m, a)
        BY <1>3, <1>6
    <2>2. b \in DOMAIN m
        BY <1>2
    <2>3. ~(a < b) /\ ~(b < a)
        BY <1>1, <2>1, <2>2
    <2>4. a = b
        BY <1>1, <2>2, <2>3
    <2> QED BY <2>4
<1> QED BY <1>2, <1>3, <1>4, <1>5, <1>6

\* The last header of a run: what stands between a block and it is joined with the block.
RunsTo(m, gone, a, b) ==
    /\ b >= a /\ Behind(m, b) \notin gone
    /\ \A c \in DOMAIN m : a < c /\ c <= b => c \in gone

LEMMA RunEnds ==
    ASSUME NEW m, NEW link \in BOOLEAN, Tiled(m, link), NEW a \in DOMAIN m
    PROVE  \E b \in {a} \cup Gone(m, link) : RunsTo(m, Gone(m, link), a, b)
<1> DEFINE G == Gone(m, link)
           B == {b \in DOMAIN m : b >= a /\ \A c \in DOMAIN m : a < c /\ c <= b => c \in G}
<1>1. \A b \in DOMAIN m : /\ b \in Nat /\ b < UmbEnd /\ b < Behind(m, b) /\ Behind(m, b) \in Nat
                          /\ \A c \in DOMAIN m : b < c => Behind(m, b) <= c
    BY TileFacts
<1>2. G \subseteq DOMAIN m
    BY GoneFacts
<1> HIDE DEF G
<1>3. a \in B /\ B \subseteq 0 .. UmbEnd /\ UmbEnd \in Nat
    BY <1>1, Layout
<1>4. PICK b \in B : \A c \in B : c <= b
    <2> HIDE DEF B
    <2> QED BY <1>3, GreatestOf
<1>5. b \in DOMAIN m /\ b >= a /\ \A c \in DOMAIN m : a < c /\ c <= b => c \in G
    OBVIOUS
<1>6. Behind(m, b) \notin G
    <2>1. SUFFICES ASSUME Behind(m, b) \in G PROVE FALSE
        OBVIOUS
    <2> DEFINE d == Behind(m, b)
    <2>2. d \in DOMAIN m /\ d \in Nat /\ b < d /\ b \in Nat /\ a \in Nat
        BY <1>1, <1>2, <1>5, <2>1
    <2>3. \A c \in DOMAIN m : b < c => d <= c
        BY <1>1, <1>5
    <2>4. d \in G
        BY <2>1
    <2> HIDE DEF d
    <2>5. ASSUME NEW c \in DOMAIN m, a < c, c <= d PROVE c \in G
        <3>1. c \in Nat
            BY <1>1
        <3>2. c <= b \/ c = d
            BY <2>2, <2>3, <2>5, <3>1
        <3> QED BY <1>5, <2>4, <2>5, <3>2
    <2>6. d \in B
        BY <2>2, <2>5, <1>5
    <2> HIDE DEF B
    <2> QED BY <1>4, <2>2, <2>6
<1>7. b = a \/ b \in G
    BY <1>1, <1>5
<1> QED BY <1>5, <1>6, <1>7 DEF RunsTo, G

\* Each block that stays runs to the last one that it is joined with.
JoinedTo(m, n, gone, a, b) ==
    /\ RunsTo(m, gone, a, b)
    /\ n[a] = Header(m[a].owner, b + m[b].size - a, m[b].last)
    /\ m[a].owner # Free => b = a /\ n[a] = m[a]

LEMMA CompressedBlock ==
    ASSUME NEW m, NEW link \in BOOLEAN, Tiled(m, link), Gone(m, link) # {},
           NEW a \in DOMAIN m \ Gone(m, link)
    PROVE  /\ DOMAIN CompressMemory(m) = DOMAIN m \ Gone(m, link)
           /\ \E b \in {a} \cup Gone(m, link) : JoinedTo(m, CompressMemory(m), Gone(m, link), a, b)
<1> DEFINE G == Gone(m, link)
           end(x) == CHOOSE b \in {x} \cup G : RunsTo(m, G, x, b)
           new == [x \in DOMAIN m \ G |->
                     IF m[x].owner = Free /\ Behind(m, x) \in G
                     THEN Header(Free, end(x) + m[end(x)].size - x, m[end(x)].last) ELSE m[x]]
<1>1. CompressMemory(m) = new
    <2>1. Compressed(m, G) = new
        BY DEF Compressed, RunsTo
    <2> QED BY <2>1, CompressIs
<1>2. end(a) \in {a} \cup G /\ RunsTo(m, G, a, end(a))
    BY RunEnds
<1>3. m[a] \in Headers /\ a \in Nat /\ m[a].size \in Nat /\ Behind(m, a) = a + m[a].size + 1
    BY TileFacts DEF Tiled
<1>4. m[a] = Header(m[a].owner, m[a].size, m[a].last)
    BY <1>3 DEF Header, Headers
<1>5. CASE m[a].owner = Free /\ Behind(m, a) \in G
    <2>1. new[a] = Header(m[a].owner, end(a) + m[end(a)].size - a, m[end(a)].last)
        BY <1>5
    <2> HIDE DEF new, end, G
    <2> QED BY <1>1, <1>2, <1>5, <2>1 DEF new, G, JoinedTo
<1>6. CASE ~(m[a].owner = Free /\ Behind(m, a) \in G)
    <2>1. new[a] = m[a]
        BY <1>6
    <2>2. Behind(m, a) \notin G
        <3>1. Behind(m, a) \in G => a \in FreeLow(m, link)
            BY GoneFacts
        <3> QED BY <1>6, <3>1 DEF FreeLow
    <2>3. \A c \in DOMAIN m : c \in Nat
        BY TileFacts
    <2>4. RunsTo(m, G, a, a)
        BY <1>3, <2>2, <2>3 DEF RunsTo
    <2>5. a + m[a].size - a = m[a].size
        BY <1>3
    <2> HIDE DEF end, G
    <2> QED BY <1>1, <1>4, <2>1, <2>4, <2>5 DEF G, JoinedTo
<1> QED BY <1>5, <1>6

\* Where the block at a ends after the joining: where the one at b did.
LEMMA BlockRuns ==
    ASSUME NEW m, NEW link \in BOOLEAN, Tiled(m, link), NEW n, NEW a \in DOMAIN m, NEW b \in DOMAIN m, b >= a,
           n[a] = Header(m[a].owner, b + m[b].size - a, m[b].last)
    PROVE  /\ n[a] \in Headers /\ n[a].owner = m[a].owner /\ n[a].last = m[b].last
           /\ Behind(n, a) = Behind(m, b)
<1>1. /\ a \in Nat /\ b \in Nat /\ m[b].size \in Nat /\ m[b].last \in BOOLEAN /\ m[a].owner \in Int
      /\ Behind(m, b) = b + m[b].size + 1
    BY TileFacts
<1>2. b + m[b].size - a \in Nat
    BY <1>1
<1>3. n[a].size = b + m[b].size - a /\ n[a].owner = m[a].owner /\ n[a].last = m[b].last
    BY DEF Header
<1>4. n[a] \in Headers
    BY <1>1, <1>2 DEF Header, Headers
<1>5. Behind(n, a) = a + (b + m[b].size - a) + 1
    BY <1>3 DEF Behind
<1> QED BY <1>1, <1>3, <1>4, <1>5

LEMMA CompressKeeps ==
    ASSUME NEW m, NEW link \in BOOLEAN, Tiled(m, link)
    PROVE  /\ Tiled(CompressMemory(m), link) /\ Held(CompressMemory(m)) = Held(m)
           /\ \A a \in DOMAIN m : m[a].owner # Free => /\ a \in DOMAIN CompressMemory(m)
                                                       /\ CompressMemory(m)[a] = m[a]
           /\ CompressMemory(CompressMemory(m)) = CompressMemory(m)
<1> DEFINE G == Gone(m, link)
           n == CompressMemory(m)
           D == DOMAIN m
<1>1. CASE G = {}
    <2>1. n = m
        BY <1>1, CompressIs DEF Compressed
    <2> QED BY <1>1, <2>1
<1>2. CASE G # {}
    <2>1. D \subseteq First .. UmbEnd - 1 /\ First \in D /\ UmbStart \in D /\ m[UmbStart].owner = Dos
        BY DEF Tiled
    <2>2. G \subseteq FreeLow(m, link) /\ FreeLow(m, link) \subseteq D /\ First \notin G /\ UmbStart \notin G
        BY GoneFacts
    <2>3. \A a \in G : m[a].owner = Free /\ a \in LowPart(m, link)
        BY <2>2 DEF FreeLow
    <2>4. /\ DOMAIN n = D \ G
          /\ \A a \in D \ G :
               \E b \in {a} \cup G : JoinedTo(m, n, G, a, b)
        <3>1. First \in D \ G
            BY <2>1, <2>2
        <3>2. DOMAIN n = D \ G
            BY <1>2, <3>1, CompressedBlock
        <3>3. ASSUME NEW a \in D \ G
              PROVE  \E b \in {a} \cup G : JoinedTo(m, n, G, a, b)
            BY <1>2, CompressedBlock
        <3> QED BY <3>2, <3>3
    <2>5. \A a \in D : /\ a \in Nat /\ Behind(m, a) \in Nat /\ a < UmbEnd
                       /\ Behind(m, a) # UmbEnd <=> Behind(m, a) \in D
                       /\ \A c \in D : a < c => Behind(m, a) <= c
        BY TileFacts
    <2> HIDE DEF n, G, D
    <2>6. ASSUME NEW a \in D \ G
          PROVE  \E b \in {a} \cup G :
                    /\ b \in D /\ b >= a /\ Behind(m, b) \notin G
                    /\ \A c \in D \ G : a < c => b < c
                    /\ n[a] \in Headers /\ n[a].owner = m[a].owner /\ n[a].last = m[b].last
                    /\ Behind(n, a) = Behind(m, b)
                    /\ m[a].owner # Free => n[a] = m[a]
        <3>0. PICK b \in {a} \cup G : JoinedTo(m, n, G, a, b)
            BY <2>4
        <3>1. /\ RunsTo(m, G, a, b)
              /\ n[a] = Header(m[a].owner, b + m[b].size - a, m[b].last)
              /\ m[a].owner # Free => b = a /\ n[a] = m[a]
            BY <3>0 DEF JoinedTo
        <3>2. b \in D /\ b >= a /\ Behind(m, b) \notin G /\ \A c \in D : a < c /\ c <= b => c \in G
            BY <2>2, <3>1 DEF RunsTo, D
        <3>3. \A c \in D \ G : a < c => b < c
            BY <2>5, <3>2
        <3>4. /\ n[a] \in Headers /\ n[a].owner = m[a].owner /\ n[a].last = m[b].last
              /\ Behind(n, a) = Behind(m, b)
            BY <3>1, <3>2, BlockRuns DEF D
        <3> QED BY <3>1, <3>2, <3>3, <3>4
    <2>7. Tiled(n, link)
        <3>1. First \in DOMAIN n /\ UmbStart \in DOMAIN n /\ DOMAIN n \subseteq First .. UmbEnd - 1
            BY <2>1, <2>2, <2>4
        <3>2. n[UmbStart].owner = Dos
            BY <2>1, <2>2, <2>6
        <3>3. ASSUME NEW a \in DOMAIN n
              PROVE  /\ n[a] \in Headers /\ Behind(n, a) \in DOMAIN n \cup {UmbEnd}
                     /\ \A c \in DOMAIN n : a < c => Behind(n, a) <= c
                     /\ n[a].last <=> Behind(n, a) = UmbEnd \/ (Behind(n, a) = UmbStart /\ ~link)
            <4>1. PICK b \in {a} \cup G :
                    /\ b \in D /\ b >= a /\ Behind(m, b) \notin G
                    /\ \A c \in D \ G : a < c => b < c
                    /\ n[a] \in Headers /\ n[a].owner = m[a].owner /\ n[a].last = m[b].last
                    /\ Behind(n, a) = Behind(m, b)
                BY <2>4, <2>6
            <4>2. m[b].last <=> Behind(m, b) = UmbEnd \/ (Behind(m, b) = UmbStart /\ ~link)
                BY <4>1 DEF Tiled, D
            <4> QED BY <4>1, <4>2, <2>4, <2>5
        <3> QED BY <3>1, <3>2, <3>3 DEF Tiled
    <2>8. \A a \in D : m[a].owner # Free => a \in DOMAIN n /\ n[a] = m[a]
        BY <2>3, <2>4, <2>6
    <2>9. Held(n) = Held(m)
        <3>1. \A a \in DOMAIN n : n[a].owner # Free => a \in D /\ n[a] = m[a]
            BY <2>4, <2>6
        <3> QED BY <2>8, <3>1, SameHeld DEF D
    <2>10. CompressMemory(n) = n
        <3>1. CompressMemory(n) = Compressed(n, Gone(n, link))
            BY <2>7, CompressIs
        <3>2. SUFFICES ASSUME NEW c \in Gone(n, link) PROVE FALSE
            BY <3>1 DEF Compressed
        <3>3. /\ c \in DOMAIN n /\ c \in LowPart(n, link) /\ n[c].owner = Free
              /\ \E a \in FreeLow(n, link) : ~Ends(n, a) /\ Behind(n, a) = c
            BY DEF Gone, FreeLow, LowPart
        <3>4. PICK a \in FreeLow(n, link) : ~Ends(n, a) /\ Behind(n, a) = c
            BY <3>3
        <3>5. a \in D \ G /\ n[a].owner = Free /\ ~n[a].last /\ (link \/ a < UmbStart)
            BY <2>4, <3>4 DEF FreeLow, LowPart, Ends
        <3>6. PICK b \in {a} \cup G :
                /\ b \in D /\ Behind(m, b) \notin G
                /\ n[a].owner = m[a].owner /\ n[a].last = m[b].last
                /\ Behind(n, a) = Behind(m, b)
            BY <2>6, <3>5
        <3>7. b \in FreeLow(m, link)
            <4>1. a \in FreeLow(m, link)
                BY <3>5, <3>6 DEF FreeLow, LowPart, D
            <4> QED BY <4>1, <2>2
        <3>8. c \in FreeLow(m, link)
            <4>1. c \in D \ G /\ (link \/ c < UmbStart)
                BY <2>4, <3>3 DEF LowPart
            <4>2. m[c].owner = Free
                BY <2>6, <3>3, <4>1
            <4> QED BY <4>1, <4>2 DEF FreeLow, LowPart, D
        <3>9. ~Ends(m, b)
            BY <3>3, <3>4, <3>5, <3>6, <2>4 DEF Ends, D
        <3>10. Behind(m, b) \in G
            BY <3>4, <3>6, <3>7, <3>8, <3>9, GoneFacts DEF G
        <3> QED BY <3>6, <3>10
    <2> QED BY <2>7, <2>8, <2>9, <2>10 DEF n, D
<1> QED BY <1>1, <1>2

-----------------------------------------------------------------------------
(* Changes of single blocks *)

Busy(m) == {a \in DOMAIN m : m[a].owner # Free}
Extent(owner, first, last) == [owner |-> owner, first |-> first, last |-> last]
Part(owner, first, last) == IF owner = Free THEN {} ELSE {Extent(owner, first, last)}
Without(held, at) == {e \in held : e.first \notin at}

\* Only the blocks at the addresses in at have changed.
LEMMA HeldChanged ==
    ASSUME NEW m, NEW n, NEW at,
           \A b : b \notin at => (b \in Busy(m) <=> b \in Busy(n)) /\ (b \in Busy(m) => n[b] = m[b])
    PROVE  Held(n) = Without(Held(m), at) \cup {ExtentOf(n, b) : b \in Busy(n) \cap at}
<1>1. Held(m) = {ExtentOf(m, b) : b \in Busy(m)} /\ Held(n) = {ExtentOf(n, b) : b \in Busy(n)}
    BY DEF Held, Busy
<1>2. \A b : ExtentOf(m, b).first = b /\ ExtentOf(n, b).first = b
    BY DEF ExtentOf
<1>3. ASSUME NEW e \in Held(n)
      PROVE  e \in Without(Held(m), at) \cup {ExtentOf(n, b) : b \in Busy(n) \cap at}
    <2>1. PICK b \in Busy(n) : e = ExtentOf(n, b)
        BY <1>1
    <2>2. CASE b \in at
        BY <2>1, <2>2
    <2>3. CASE b \notin at
        <3>1. b \in Busy(m) /\ e = ExtentOf(m, b)
            BY <2>1, <2>3 DEF ExtentOf
        <3> QED BY <3>1, <2>3, <1>1, <1>2 DEF Without
    <2> QED BY <2>2, <2>3
<1>4. ASSUME NEW e \in Without(Held(m), at) PROVE e \in Held(n)
    <2>1. PICK b \in Busy(m) : e = ExtentOf(m, b)
        BY <1>1 DEF Without
    <2>2. b \notin at
        BY <2>1, <1>2 DEF Without
    <2>3. b \in Busy(n) /\ e = ExtentOf(n, b)
        BY <2>1, <2>2 DEF ExtentOf
    <2> QED BY <2>3, <1>1
<1> QED BY <1>1, <1>3, <1>4

\* Nobody else holds an extent that begins at a header.
LEMMA HeldFirst ==
    ASSUME NEW m, NEW e \in Held(m)
    PROVE  e.first \in Busy(m) /\ e = ExtentOf(m, e.first) /\ e.owner = m[e.first].owner /\ e.owner # Free
BY DEF Held, Busy, ExtentOf

LEMMA HeldBusy ==
    ASSUME NEW m, NEW a \in DOMAIN m, m[a].owner # Free
    PROVE  Extent(m[a].owner, a, a + m[a].size) \in Held(m) /\ a \in Busy(m)
BY DEF Held, Busy, ExtentOf, Extent

\* A block gets another owner.
LEMMA SetOwner ==
    ASSUME NEW m, NEW link \in BOOLEAN, Tiled(m, link), NEW a \in DOMAIN m, a # UmbStart, NEW o \in Int
    PROVE  /\ Tiled([m EXCEPT ![a].owner = o], link)
           /\ Held([m EXCEPT ![a].owner = o]) = Without(Held(m), {a}) \cup Part(o, a, a + m[a].size)
<1> DEFINE n == [m EXCEPT ![a].owner = o]
<1>1. /\ DOMAIN n = DOMAIN m /\ n[a] = [m[a] EXCEPT !.owner = o]
      /\ \A b \in DOMAIN m : b # a => n[b] = m[b]
    OBVIOUS
<1>2. \A b \in DOMAIN m : m[b] \in Headers
    BY DEF Tiled
<1> HIDE DEF n
<1>3. \A b \in DOMAIN m : n[b] \in Headers /\ n[b].size = m[b].size /\ n[b].last = m[b].last
    BY <1>1, <1>2 DEF Headers
<1>4. \A b \in DOMAIN m : Behind(n, b) = Behind(m, b)
    BY <1>3 DEF Behind
<1>5. Tiled(n, link)
    BY <1>1, <1>3, <1>4 DEF Tiled
<1>6. Held(n) = Without(Held(m), {a}) \cup {ExtentOf(n, b) : b \in Busy(n) \cap {a}}
    <2>1. \A b : b \notin {a} => (b \in Busy(m) <=> b \in Busy(n)) /\ (b \in Busy(m) => n[b] = m[b])
        BY <1>1 DEF Busy
    <2> QED BY <2>1, HeldChanged
<1>7. {ExtentOf(n, b) : b \in Busy(n) \cap {a}} = Part(o, a, a + m[a].size)
    <2>1. n[a].owner = o /\ ExtentOf(n, a) = Extent(o, a, a + m[a].size)
        BY <1>1, <1>2, <1>3 DEF Headers, ExtentOf, Extent
    <2>2. Busy(n) \cap {a} = IF o = Free THEN {} ELSE {a}
        BY <2>1, <1>1 DEF Busy
    <2> QED BY <2>1, <2>2 DEF Part
<1> QED BY <1>5, <1>6, <1>7 DEF n

\* A block is cut into two.
Cut(m, n, link, a, k, lower, upper) ==
    /\ a + k + 1 \notin DOMAIN m
    /\ Tiled(n, link)
    /\ Held(n) = Without(Held(m), {a}) \cup Part(lower, a, a + k)
                    \cup Part(upper, a + k + 1, a + m[a].size)

LEMMA SplitKeeps ==
    ASSUME NEW m, NEW link \in BOOLEAN, Tiled(m, link), NEW a \in DOMAIN m, a # UmbStart,
           NEW k \in Nat, k < m[a].size, NEW lower \in Int, NEW upper \in Int
    PROVE  Cut(m, Split(m, a, k, lower, upper), link, a, k, lower, upper)
<1> DEFINE n == Split(m, a, k, lower, upper)
           x == a + k + 1
           s == m[a].size
<1>1. /\ a \in Nat /\ s \in Nat /\ Behind(m, a) = a + s + 1 /\ m[a].last \in BOOLEAN
      /\ \A b \in DOMAIN m : a < b => Behind(m, a) <= b
    BY TileFacts
<1>2. \A b \in DOMAIN m : b \in Nat /\ b < UmbEnd /\ Behind(m, b) \in Nat /\ b < Behind(m, b) /\ Behind(m, b) <= UmbEnd
                          /\ \A c \in DOMAIN m : b < c => Behind(m, b) <= c
    BY TileFacts
<1>a. First = 0 /\ UmbEnd \in Nat /\ UmbStart \in Nat
    BY Layout
<1>3. x \in Nat /\ a < x /\ x < Behind(m, a) /\ x + (s - k - 1) + 1 = Behind(m, a) /\ s - k - 1 \in Nat
      /\ x + (s - k - 1) = a + s
    BY <1>1
<1> HIDE DEF x
<1>4. x \notin DOMAIN m /\ x < UmbEnd /\ x # UmbStart
    <2>1. x \notin DOMAIN m
        BY <1>1, <1>3
    <2>2. UmbStart \in DOMAIN m
        BY DEF Tiled
    <2> QED BY <2>1, <2>2, <1>2, <1>3, <1>a
<1>5. /\ DOMAIN n = DOMAIN m \cup {x}
      /\ n[a] = Header(lower, k, FALSE) /\ n[x] = Header(upper, s - k - 1, m[a].last)
      /\ \A b \in DOMAIN m : b # a => n[b] = m[b]
    BY <1>3, <1>4 DEF Split, x
<1> HIDE DEF n
<1>6. /\ n[a].owner = lower /\ n[a].size = k /\ n[a].last = FALSE /\ n[a] \in Headers
      /\ n[x].owner = upper /\ n[x].size = s - k - 1 /\ n[x].last = m[a].last /\ n[x] \in Headers
    BY <1>1, <1>3, <1>5 DEF Header, Headers
<1> HIDE DEF s
<1>7. Behind(n, a) = x /\ Behind(n, x) = Behind(m, a) /\ \A b \in DOMAIN m : b # a => Behind(n, b) = Behind(m, b)
    <2>1. Behind(n, a) = x
        BY <1>6 DEF Behind, x
    <2>2. Behind(n, x) = Behind(m, a)
        BY <1>3, <1>6 DEF Behind
    <2>3. \A b \in DOMAIN m : b # a => Behind(n, b) = Behind(m, b)
        BY <1>5 DEF Behind
    <2> QED BY <2>1, <2>2, <2>3
<1>8. Tiled(n, link)
    <2>1. First \in DOMAIN n /\ UmbStart \in DOMAIN n /\ DOMAIN n \subseteq First .. UmbEnd - 1
        BY <1>2, <1>3, <1>4, <1>5, <1>a DEF Tiled
    <2>2. n[UmbStart].owner = Dos
        BY <1>5 DEF Tiled
    <2>3. \A b \in DOMAIN n : n[b] \in Headers
        BY <1>5, <1>6 DEF Tiled
    <2>4. \A b \in DOMAIN n : Behind(n, b) \in DOMAIN n \cup {UmbEnd}
        BY <1>5, <1>7 DEF Tiled
    <2>5. \A b \in DOMAIN m : b < x => b = a \/ Behind(m, b) <= x
        BY <1>1, <1>2, <1>3
    <2>6. \A b \in DOMAIN m : x < b => Behind(m, a) <= b
        BY <1>1, <1>2, <1>3
    <2>7. \A b, c \in DOMAIN n : b < c => Behind(n, b) <= c
        <3> SUFFICES ASSUME NEW b \in DOMAIN n, NEW c \in DOMAIN n, b < c PROVE Behind(n, b) <= c
            OBVIOUS
        <3>1. CASE b = x
            BY <3>1, <2>6, <1>3, <1>5, <1>7
        <3>2. CASE b = a
            <4>1. c = x \/ Behind(m, a) <= c
                BY <3>2, <1>1, <1>5
            <4>2. c \in Nat
                BY <1>2, <1>3, <1>5
            <4> QED BY <3>2, <4>1, <4>2, <1>2, <1>3, <1>7
        <3>3. CASE b # a /\ b # x
            BY <3>3, <2>5, <1>2, <1>5, <1>7
        <3> QED BY <3>1, <3>2, <3>3
    <2>8. \A b \in DOMAIN n : n[b].last <=> Behind(n, b) = UmbEnd \/ (Behind(n, b) = UmbStart /\ ~link)
        <3> SUFFICES ASSUME NEW b \in DOMAIN n
                     PROVE  n[b].last <=> Behind(n, b) = UmbEnd \/ (Behind(n, b) = UmbStart /\ ~link)
            OBVIOUS
        <3>1. CASE b = x
            BY <3>1, <1>6, <1>7 DEF Tiled
        <3>2. CASE b = a
            BY <3>2, <1>3, <1>4, <1>6, <1>7, <1>a
        <3>3. CASE b # a /\ b # x
            BY <3>3, <1>5, <1>7 DEF Tiled
        <3> QED BY <3>1, <3>2, <3>3
    <2> QED BY <2>1, <2>2, <2>3, <2>4, <2>7, <2>8 DEF Tiled
<1>9. Held(n) = Without(Held(m), {a, x}) \cup {ExtentOf(n, b) : b \in Busy(n) \cap {a, x}}
    <2>1. \A b : b \notin {a, x} => (b \in Busy(m) <=> b \in Busy(n)) /\ (b \in Busy(m) => n[b] = m[b])
        BY <1>5 DEF Busy
    <2> QED BY <2>1, HeldChanged
<1>10. Without(Held(m), {a, x}) = Without(Held(m), {a})
    BY <1>4, HeldFirst DEF Without, Busy
<1>11. {ExtentOf(n, b) : b \in Busy(n) \cap {a, x}} = Part(lower, a, a + k) \cup Part(upper, x, a + m[a].size)
    <2>1. ExtentOf(n, a) = Extent(lower, a, a + k) /\ ExtentOf(n, x) = Extent(upper, x, a + m[a].size)
        BY <1>3, <1>6 DEF ExtentOf, Extent, s
    <2>2. (a \in Busy(n) <=> lower # Free) /\ (x \in Busy(n) <=> upper # Free)
        BY <1>5, <1>6 DEF Busy
    <2>3. \A e : e \in {ExtentOf(n, b) : b \in Busy(n) \cap {a, x}} <=>
                   (lower # Free /\ e = ExtentOf(n, a)) \/ (upper # Free /\ e = ExtentOf(n, x))
        BY <2>2
    <2>4. \A e : e \in Part(lower, a, a + k) \cup Part(upper, x, a + m[a].size) <=>
                   (lower # Free /\ e = Extent(lower, a, a + k)) \/ (upper # Free /\ e = Extent(upper, x, a + m[a].size))
        BY DEF Part
    <2> QED BY <2>1, <2>3, <2>4
<1>12. Held(n) = Without(Held(m), {a}) \cup Part(lower, a, a + k) \cup Part(upper, x, a + m[a].size)
    BY <1>9, <1>10, <1>11
<1> QED BY <1>4, <1>8, <1>12 DEF n, x, Cut

\* A block is joined with the free one behind it.
LEMMA JoinedKeeps ==
    ASSUME NEW m, NEW link \in BOOLEAN, Tiled(m, link), NEW a \in DOMAIN m, a # UmbStart,
           NEW b \in DOMAIN m, b = Behind(m, a), m[b].owner = Free
    PROVE  /\ Tiled(Joined(m, a, b), link) /\ a \in DOMAIN Joined(m, a, b)
           /\ Joined(m, a, b)[a].owner = m[a].owner
           /\ Joined(m, a, b)[a].size = m[a].size + m[b].size + 1
           /\ Held(Joined(m, a, b)) =
                Without(Held(m), {a}) \cup Part(m[a].owner, a, a + Joined(m, a, b)[a].size)
<1> DEFINE n == Joined(m, a, b)
<1>1. \A c \in DOMAIN m : /\ c \in Nat /\ m[c].size \in Nat /\ c < UmbEnd
                          /\ Behind(m, c) \in Nat /\ c < Behind(m, c) /\ Behind(m, c) <= UmbEnd
                          /\ Behind(m, c) # UmbEnd <=> Behind(m, c) \in DOMAIN m
                          /\ Behind(m, c) = c + m[c].size + 1
                          /\ \A d \in DOMAIN m : c < d => Behind(m, c) <= d
    BY TileFacts
<1>2. a < b /\ b \in Nat /\ a \in Nat /\ \A d \in DOMAIN m : a < d => b <= d
    BY <1>1
<1>3. {d \in DOMAIN m : d <= a \/ d > b} = DOMAIN m \ {b}
    BY <1>1, <1>2
<1>4. /\ DOMAIN n = DOMAIN m \ {b} /\ n[a] = Header(m[a].owner, b + m[b].size - a, m[b].last)
      /\ \A c \in DOMAIN m \ {a, b} : n[c] = m[c]
    BY <1>2, <1>3 DEF Joined
<1> HIDE DEF n
<1>5. n[a] \in Headers /\ n[a].owner = m[a].owner /\ n[a].last = m[b].last /\ Behind(n, a) = Behind(m, b)
    BY <1>2, <1>4, BlockRuns
<1>6. n[a].size = m[a].size + m[b].size + 1
    <2>1. n[a].size = b + m[b].size - a /\ b = a + m[a].size + 1
        BY <1>1, <1>4 DEF Header
    <2> QED BY <2>1, <1>1
<1>7. b # UmbStart /\ b # First
    <2>1. b # UmbStart
        BY DEF Tiled, Free, Dos
    <2> QED BY <2>1, <1>2, Layout
<1>8. \A c \in DOMAIN m \ {a, b} : Behind(n, c) = Behind(m, c)
    BY <1>4 DEF Behind
<1>9. Tiled(n, link)
    <2>1. /\ First \in DOMAIN n /\ UmbStart \in DOMAIN n /\ DOMAIN n \subseteq First .. UmbEnd - 1
          /\ n[UmbStart].owner = Dos
        BY <1>4, <1>7 DEF Tiled
    <2>2. \A c \in DOMAIN n : n[c] \in Headers
        BY <1>4, <1>5 DEF Tiled
    <2>3. \A c \in DOMAIN m : Behind(m, c) = b => c = a
        <3>1. \A c \in DOMAIN m : c < a => Behind(m, c) <= a
            BY <1>1
        <3>2. \A c \in DOMAIN m : Behind(m, c) = b => c < b
            BY <1>1
        <3> QED BY <3>1, <3>2, <1>1, <1>2
    <2>4. \A c \in DOMAIN n : Behind(n, c) \in DOMAIN n \cup {UmbEnd}
        <3>1. Behind(m, b) \in (DOMAIN m \cup {UmbEnd}) \ {b}
            BY <1>1, <1>2
        <3> QED BY <3>1, <2>3, <1>1, <1>4, <1>5, <1>8
    <2>5. \A c, d \in DOMAIN n : c < d => Behind(n, c) <= d
        <3> SUFFICES ASSUME NEW c \in DOMAIN n, NEW d \in DOMAIN n, c < d PROVE Behind(n, c) <= d
            OBVIOUS
        <3>1. CASE c = a
            <4>1. b < d
                BY <3>1, <1>1, <1>2, <1>4
            <4> QED BY <4>1, <3>1, <1>1, <1>4, <1>5
        <3>2. CASE c # a
            BY <3>2, <1>1, <1>4, <1>8
        <3> QED BY <3>1, <3>2
    <2>6. \A c \in DOMAIN n : n[c].last <=> Behind(n, c) = UmbEnd \/ (Behind(n, c) = UmbStart /\ ~link)
        <3>1. \A c \in DOMAIN m : m[c].last <=> Behind(m, c) = UmbEnd \/ (Behind(m, c) = UmbStart /\ ~link)
            BY DEF Tiled
        <3> QED BY <3>1, <1>4, <1>5, <1>8
    <2> QED BY <2>1, <2>2, <2>4, <2>5, <2>6 DEF Tiled
<1>10. Held(n) = Without(Held(m), {a}) \cup {ExtentOf(n, c) : c \in Busy(n) \cap {a}}
    <2>1. \A c : c \notin {a} => (c \in Busy(m) <=> c \in Busy(n)) /\ (c \in Busy(m) => n[c] = m[c])
        BY <1>4 DEF Busy
    <2> QED BY <2>1, HeldChanged
<1>11. {ExtentOf(n, c) : c \in Busy(n) \cap {a}} = Part(m[a].owner, a, a + n[a].size)
    <2>1. ExtentOf(n, a) = Extent(m[a].owner, a, a + n[a].size)
        BY <1>5 DEF ExtentOf, Extent
    <2>2. Busy(n) \cap {a} = IF m[a].owner = Free THEN {} ELSE {a}
        BY <1>2, <1>4, <1>5 DEF Busy
    <2> QED BY <2>1, <2>2 DEF Part
<1>12. a \in DOMAIN n
    BY <1>2, <1>4
<1> QED BY <1>5, <1>6, <1>9, <1>10, <1>11, <1>12 DEF n

\* All blocks of a program become free.
LEMMA FreedKeeps ==
    ASSUME NEW m, NEW link \in BOOLEAN, Tiled(m, link), NEW owner, owner # Dos, NEW walk, DOMAIN m \subseteq walk
    PROVE  /\ Tiled(Freed(m, owner, walk), link)
           /\ Held(Freed(m, owner, walk)) = {e \in Held(m) : e.owner # owner}
<1> DEFINE n == Freed(m, owner, walk)
           at == {a \in DOMAIN m : m[a].owner = owner}
<1>1. DOMAIN n = DOMAIN m /\ \A a \in DOMAIN m : n[a] = IF a \in at THEN Header(Free, m[a].size, m[a].last) ELSE m[a]
    BY DEF Freed
<1>2. \A a \in DOMAIN m : m[a] \in Headers
    BY DEF Tiled
<1>3. at \subseteq DOMAIN m /\ \A a \in DOMAIN m : a \in at <=> m[a].owner = owner
    OBVIOUS
<1> HIDE DEF n, at
<1>4. \A a \in DOMAIN m : n[a] \in Headers /\ n[a].size = m[a].size /\ n[a].last = m[a].last
    BY <1>1, <1>2 DEF Headers, Header, Free
<1>5. \A a \in DOMAIN m : Behind(n, a) = Behind(m, a)
    BY <1>4 DEF Behind
<1>6. n[UmbStart].owner = Dos
    BY <1>1, <1>3 DEF Tiled
<1>7. Tiled(n, link)
    BY <1>1, <1>4, <1>5, <1>6 DEF Tiled
<1>8. \A a \in at : n[a].owner = Free
    BY <1>1, <1>3 DEF Header
<1>9. Held(n) = Without(Held(m), at) \cup {ExtentOf(n, b) : b \in Busy(n) \cap at}
    <2>1. \A b : b \notin at => (b \in Busy(m) <=> b \in Busy(n)) /\ (b \in Busy(m) => n[b] = m[b])
        BY <1>1 DEF Busy
    <2> QED BY <2>1, HeldChanged
<1>10. Busy(n) \cap at = {}
    BY <1>8 DEF Busy
<1>11. Held(n) = Without(Held(m), at)
    BY <1>9, <1>10
<1>12. \A e \in Held(m) : e.first \in DOMAIN m /\ e.owner = m[e.first].owner
    BY HeldFirst DEF Busy
<1>13. Without(Held(m), at) = {e \in Held(m) : e.owner # owner}
    BY <1>3, <1>12 DEF Without
<1> QED BY <1>7, <1>11, <1>13 DEF n

\* Linking and unlinking: only the mark of the last low block changes.
LEMMA LinkKeeps ==
    ASSUME NEW m, NEW was \in BOOLEAN, Tiled(m, was), NEW link \in BOOLEAN
    PROVE  Tiled(LinkUMBs(m, was, link), link) /\ Held(LinkUMBs(m, was, link)) = Held(m)
<1>1. CASE link = was
    BY <1>1 DEF LinkUMBs
<1>2. CASE link # was
    <2> DEFINE low == Walk(m, First)
               Fits(x) == Behind(m, x) = UmbStart \/ (m[x].last /\ UmbStart \notin Visited(low))
               a == LastLow(m, low)
               n == [m EXCEPT ![a].last = ~link]
    <2>1. /\ First = 0 /\ UmbStart \in Nat /\ UmbEnd \in Nat /\ First < UmbStart /\ UmbStart < UmbEnd
          /\ Visited(low) = LowPart(m, was)
        BY Layout, Walks
    <2>2. \A c \in DOMAIN m : /\ c \in Nat /\ c < Behind(m, c) /\ Behind(m, c) \in Nat
                              /\ Behind(m, c) # UmbEnd <=> Behind(m, c) \in DOMAIN m
                              /\ c < UmbStart => Behind(m, c) <= UmbStart
        BY TileFacts
    <2>3. \E x \in Visited(low) : Fits(x)
        <3> DEFINE S == {c \in DOMAIN m : c < UmbStart}
        <3>1. S \subseteq 0 .. UmbStart /\ S # {}
            BY <2>1, <2>2 DEF Tiled
        <3>2. PICK x \in S : \A y \in S : y <= x
            <4> HIDE DEF S
            <4> QED BY <2>1, <3>1, GreatestOf
        <3>3. Behind(m, x) <= UmbStart /\ Behind(m, x) \in DOMAIN m /\ x < Behind(m, x)
            BY <2>1, <2>2
        <3>4. Behind(m, x) = UmbStart
            BY <2>1, <2>2, <3>2, <3>3
        <3>5. x \in Visited(low)
            BY <2>1 DEF LowPart
        <3> QED BY <3>4, <3>5
    <2>4. a = CHOOSE x \in Visited(low) : Fits(x)
        BY DEF LastLow
    <2>5. a \in Visited(low) /\ Fits(a)
        <3> HIDE DEF Fits, low, a
        <3> QED BY <2>3, <2>4
    <2>6. a \in DOMAIN m /\ Behind(m, a) = UmbStart
        <3>1. a \in DOMAIN m /\ (was \/ a < UmbStart)
            BY <2>1, <2>5 DEF LowPart
        <3>2. was => UmbStart \in Visited(low)
            BY <2>1 DEF LowPart, Tiled
        <3>3. m[a].last => Behind(m, a) = UmbEnd \/ Behind(m, a) = UmbStart
            BY <3>1 DEF Tiled
        <3>0. Behind(m, a) = UmbStart \/ (m[a].last /\ UmbStart \notin Visited(low))
            BY <2>5
        <3> HIDE DEF a, low
        <3>4. CASE was
            BY <3>0, <3>1, <3>2, <3>4
        <3>5. CASE ~was
            BY <3>0, <3>1, <3>3, <3>5, <2>1, <2>2
        <3> QED BY <3>1, <3>4, <3>5
    <2> HIDE DEF a, low
    <2>7. LinkUMBs(m, was, link) = n
        BY <1>2 DEF LinkUMBs, a, low
    <2>8. /\ DOMAIN n = DOMAIN m /\ n[a] = [m[a] EXCEPT !.last = ~link]
          /\ \A b \in DOMAIN m : b # a => n[b] = m[b]
        BY <2>6
    <2>9. \A b \in DOMAIN m : m[b] \in Headers
        BY DEF Tiled
    <2> HIDE DEF n
    <2>10. \A b \in DOMAIN m : n[b] \in Headers /\ n[b].size = m[b].size /\ n[b].owner = m[b].owner
        BY <2>8, <2>9, ZenonT(60) DEF Headers
    <2>11. \A b \in DOMAIN m : Behind(n, b) = Behind(m, b)
        BY <2>10 DEF Behind
    <2>12. \A b \in DOMAIN m : n[b].last <=> Behind(m, b) = UmbEnd \/ (Behind(m, b) = UmbStart /\ ~link)
        <3> SUFFICES ASSUME NEW b \in DOMAIN m
                     PROVE  n[b].last <=> Behind(m, b) = UmbEnd \/ (Behind(m, b) = UmbStart /\ ~link)
            OBVIOUS
        <3>1. CASE b = a
            <4>1. n[a].last <=> ~link
                BY <2>6, <2>8, <2>9 DEF Headers
            <4>2. Behind(m, a) # UmbEnd /\ Behind(m, a) = UmbStart
                BY <2>1, <2>6
            <4>3. n[a].last <=> Behind(m, a) = UmbEnd \/ (Behind(m, a) = UmbStart /\ ~link)
                BY <4>1, <4>2
            <4> QED BY <3>1, <4>3
        <3>2. CASE b # a
            <4>1. Behind(m, b) # UmbStart
                <5>1. \A c, d \in DOMAIN m : c < d => Behind(m, c) <= d
                    BY DEF Tiled
                <5>2. ~(a < b /\ Behind(m, b) = UmbStart) /\ ~(b < a /\ Behind(m, b) = UmbStart)
                    BY <5>1, <2>2, <2>6
                <5> QED BY <5>2, <3>2, <2>2, <2>6
            <4>2. m[b].last <=> Behind(m, b) = UmbEnd \/ (Behind(m, b) = UmbStart /\ ~was)
                BY DEF Tiled
            <4>3. n[b].last = m[b].last
                BY <3>2, <2>8
            <4> QED BY <4>1, <4>2, <4>3
        <3> QED BY <3>1, <3>2
    <2>13. Tiled(n, link)
        BY <2>8, <2>10, <2>11, <2>12 DEF Tiled
    <2>14. Held(n) = Held(m)
        <3>1. \A b \in DOMAIN m : ExtentOf(n, b) = ExtentOf(m, b)
            BY <2>10 DEF ExtentOf
        <3>2. {b \in DOMAIN n : n[b].owner # Free} = {b \in DOMAIN m : m[b].owner # Free}
            BY <2>8, <2>10
        <3> QED BY <3>1, <3>2 DEF Held
    <2> QED BY <2>7, <2>13, <2>14
<1> QED BY <1>1, <1>2

-----------------------------------------------------------------------------
(* Allocation *)

LEMMA SearchedIn ==
    ASSUME NEW m, NEW link \in BOOLEAN, Tiled(m, link), NEW how \in Strategies
    PROVE  Searched(m, how.area) \in Seq(DOMAIN m)
<1>1. Walk(m, First) \in Seq(LowPart(m, link)) /\ Walk(m, UmbStart) \in Seq(HighPart(m))
    BY Walks
<1>2. LowPart(m, link) \subseteq DOMAIN m /\ HighPart(m) \subseteq DOMAIN m
    BY DEF LowPart, HighPart
<1> DEFINE low == Walk(m, First)
           high == Walk(m, UmbStart)
<1>3. low \in Seq(DOMAIN m) /\ high \in Seq(DOMAIN m)
    BY <1>1, <1>2
<1> HIDE DEF low, high
<1>4. high \o low \in Seq(DOMAIN m)
    BY <1>3
<1>5. how.area = "low" \/ how.area = "high" \/ how.area = "highlow"
    BY DEF Strategies
<1> QED BY <1>3, <1>4, <1>5 DEF Searched, low, high

\* Every fit has a block to take when there is one that fits.
LEMMA ChosenIn ==
    ASSUME NEW m, NEW link \in BOOLEAN, Tiled(m, link), NEW s \in Seq(DOMAIN m), NEW how \in Strategies,
           NEW fitting, fitting \subseteq 1 .. Len(s), fitting # {}
    PROVE  Chosen(m, s, fitting, how.fit) \in fitting
<1> DEFINE size(k) == m[s[k]].size
           Better(k, j) == CASE how.fit = "first" -> k <= j
                             [] how.fit = "last"  -> k >= j
                             [] how.fit = "best"  -> size(k) < size(j) \/ (size(k) = size(j) /\ k <= j)
<1>1. Len(s) \in Nat /\ \A k \in fitting : k \in Nat /\ k <= Len(s) /\ s[k] \in DOMAIN m
    OBVIOUS
<1>2. \A k \in fitting : size(k) \in Nat
    BY <1>1, TileFacts
<1>3. \E k \in fitting : \A j \in fitting : Better(k, j)
    <2>1. CASE how.fit = "first"
        <3>1. fitting \subseteq Nat
            BY <1>1
        <3>2. \E k \in fitting : \A j \in fitting : k <= j
            BY <3>1, LeastOf
        <3> HIDE DEF size
        <3> QED BY <2>1, <3>2
    <2>2. CASE how.fit = "last"
        <3>1. fitting \subseteq 0 .. Len(s)
            BY <1>1
        <3>2. PICK k \in fitting : \A j \in fitting : j <= k
            BY <1>1, <3>1, GreatestOf
        <3>3. \A j \in fitting : k >= j
            BY <3>2, <1>1
        <3> HIDE DEF size
        <3> QED BY <2>2, <3>3
    <2>3. CASE how.fit = "best"
        <3> HIDE DEF size
        <3> DEFINE sizes == {size(k) : k \in fitting}
        <3>1. sizes \subseteq Nat /\ sizes # {}
            BY <1>2
        <3>2. PICK n \in sizes : \A i \in sizes : n <= i
            <4> HIDE DEF sizes
            <4> QED BY <3>1, LeastOf
        <3> DEFINE least == {k \in fitting : size(k) = n}
        <3>3. least \subseteq Nat /\ least # {}
            BY <1>1
        <3>4. PICK k \in least : \A j \in least : k <= j
            <4> HIDE DEF least
            <4> QED BY <3>3, LeastOf
        <3>5. k \in fitting /\ size(k) = n /\ n \in Nat
            BY <3>1
        <3>6. ASSUME NEW j \in fitting PROVE size(k) < size(j) \/ (size(k) = size(j) /\ k <= j)
            <4>1. n <= size(j) /\ size(j) \in Nat
                BY <1>2, <3>2
            <4>2. size(j) = n => k <= j
                BY <3>4
            <4> QED BY <3>5, <4>1, <4>2
        <3> QED BY <2>3, <3>5, <3>6
    <2>4. how.fit = "first" \/ how.fit = "last" \/ how.fit = "best"
        BY DEF Strategies
    <2> QED BY <2>1, <2>2, <2>3, <2>4
<1>4. Chosen(m, s, fitting, how.fit) = CHOOSE k \in fitting : \A j \in fitting : Better(k, j)
    BY DEF Chosen
<1> HIDE DEF Better
<1> QED BY <1>3, <1>4

\* The largest size is that of a free block that was searched, or zero.
LEMMA LargestIs ==
    ASSUME NEW m, NEW link \in BOOLEAN, Tiled(m, link), NEW s \in Seq(DOMAIN m)
    PROVE  /\ Largest(m, s) \in Nat
           /\ Largest(m, s) # 0 =>
                \E k \in 1 .. Len(s) : m[s[k]].owner = Free /\ m[s[k]].size = Largest(m, s)
<1> DEFINE free == {b \in Visited(s) : m[b].owner = Free}
           sizes == {0} \cup {m[a].size : a \in free}
<1>1. \A a \in free : a \in DOMAIN m /\ \E k \in 1 .. Len(s) : a = s[k]
    BY DEF Visited
<1>2. \A a \in free : m[a].size \in Nat /\ m[a].size <= UmbEnd
    <2> SUFFICES ASSUME NEW a \in free PROVE m[a].size \in Nat /\ m[a].size <= UmbEnd
        OBVIOUS
    <2>1. a \in DOMAIN m
        BY <1>1
    <2>2. /\ a \in Nat /\ m[a].size \in Nat /\ Behind(m, a) <= UmbEnd /\ Behind(m, a) = a + m[a].size + 1
          /\ UmbEnd \in Nat
        BY <2>1, TileFacts, Layout
    <2> QED BY <2>2
<1>3. sizes \subseteq 0 .. UmbEnd /\ sizes # {} /\ UmbEnd \in Nat
    BY <1>2, Layout
<1>4. \E n \in sizes : \A i \in sizes : i <= n
    <2> HIDE DEF sizes
    <2> QED BY <1>3, GreatestOf
<1>5. Largest(m, s) = CHOOSE n \in sizes : \A i \in sizes : i <= n
    BY DEF Largest
<1>6. Largest(m, s) \in sizes
    <2> HIDE DEF sizes
    <2> QED BY <1>4, <1>5
<1>7. Largest(m, s) # 0 => \E a \in free : m[a].size = Largest(m, s)
    BY <1>6
<1>8. Largest(m, s) # 0 => \E k \in 1 .. Len(s) : m[s[k]].owner = Free /\ m[s[k]].size = Largest(m, s)
    <2> SUFFICES ASSUME Largest(m, s) # 0
                 PROVE  \E k \in 1 .. Len(s) : m[s[k]].owner = Free /\ m[s[k]].size = Largest(m, s)
        OBVIOUS
    <2>1. PICK a \in free : m[a].size = Largest(m, s)
        BY <1>7
    <2>2. PICK k \in 1 .. Len(s) : a = s[k]
        BY <1>1
    <2> QED BY <2>1, <2>2
<1>9. Largest(m, s) \in Nat
    BY <1>3, <1>6
<1> QED BY <1>8, <1>9

\* One more extent is held, and it begins where none began.
Gives(m, n, link, owner, at, size) ==
    /\ Tiled(n, link) /\ at \in 0 .. UmbEnd - 1 /\ at # UmbStart
    /\ \A e \in Held(m) : e.first # at
    /\ Held(n) = Held(m) \cup {Extent(owner, at, at + size)}

LEMMA TakenGives ==
    ASSUME NEW m, NEW link \in BOOLEAN, Tiled(m, link), NEW a \in DOMAIN m, m[a].owner = Free,
           NEW n \in Nat, m[a].size >= n, NEW owner \in Int, owner # Free, NEW fit
    PROVE  Gives(m, Taken(m, a, n, owner, fit).mcb, link, owner, Taken(m, a, n, owner, fit).at, n)
<1> DEFINE t == Taken(m, a, n, owner, fit)
           s == m[a].size
<1>1. a # UmbStart
    BY DEF Tiled, Free, Dos
<1>2. /\ a \in Nat /\ s \in Nat /\ Behind(m, a) = a + s + 1 /\ Behind(m, a) <= UmbEnd /\ UmbEnd \in Nat
      /\ a \in 0 .. UmbEnd - 1
    <2>1. a \in Nat /\ s \in Nat /\ Behind(m, a) = a + s + 1 /\ Behind(m, a) <= UmbEnd /\ UmbEnd \in Nat /\ a < UmbEnd
        BY TileFacts, Layout
    <2> HIDE DEF s
    <2> QED BY <2>1
<1>3. \A e \in Held(m) : e.first \in DOMAIN m /\ e.first # a
    BY HeldFirst DEF Busy
<1>4. Without(Held(m), {a}) = Held(m)
    BY <1>3 DEF Without
<1>5. CASE s = n
    <2>1. t.mcb = [m EXCEPT ![a].owner = owner] /\ t.at = a
        BY <1>5 DEF Taken
    <2>2. /\ Tiled([m EXCEPT ![a].owner = owner], link)
          /\ Held([m EXCEPT ![a].owner = owner]) = Without(Held(m), {a}) \cup Part(owner, a, a + m[a].size)
        BY <1>1, SetOwner
    <2>3. Part(owner, a, a + m[a].size) = {Extent(owner, a, a + n)}
        BY <1>5 DEF Part
    <2> HIDE DEF t
    <2> QED BY <1>1, <1>2, <1>3, <1>4, <2>1, <2>2, <2>3 DEF Gives, t
<1>6. CASE s # n /\ fit = "last"
    <2> DEFINE rest == s - n - 1
               x == a + rest + 1
    <2>0. t.mcb = Split(m, a, rest, Free, owner) /\ t.at = x
        BY <1>6 DEF Taken
    <2>1. rest \in Nat /\ rest < m[a].size /\ x + n = a + m[a].size /\ x \in 0 .. UmbEnd - 1
        BY <1>2, <1>6
    <2> HIDE DEF t, rest, s
    <2>2. /\ x \notin DOMAIN m /\ Tiled(t.mcb, link)
          /\ Held(t.mcb) = Without(Held(m), {a}) \cup Part(Free, a, a + rest) \cup Part(owner, x, a + m[a].size)
        <3>1. Free \in Int
            BY DEF Free
        <3>2. Cut(m, Split(m, a, rest, Free, owner), link, a, rest, Free, owner)
            BY <1>1, <2>1, <3>1, SplitKeeps
        <3> QED BY <2>0, <3>2 DEF Cut
    <2> HIDE DEF x
    <2>3. Part(Free, a, a + rest) = {} /\ Part(owner, x, a + m[a].size) = {Extent(owner, x, x + n)}
        BY <2>1 DEF Part
    <2>4. x # UmbStart /\ \A e \in Held(m) : e.first # x
        BY <1>3, <2>2 DEF Tiled
    <2> QED BY <1>4, <2>0, <2>1, <2>2, <2>3, <2>4 DEF Gives, t
<1>7. CASE s # n /\ fit # "last"
    <2>0. t.mcb = Split(m, a, n, owner, Free) /\ t.at = a
        BY <1>7 DEF Taken
    <2>1. n < m[a].size
        BY <1>2, <1>7
    <2> HIDE DEF t, s
    <2>2. /\ Tiled(t.mcb, link)
          /\ Held(t.mcb) = Without(Held(m), {a}) \cup Part(owner, a, a + n) \cup Part(Free, a + n + 1, a + m[a].size)
        <3>1. Free \in Int
            BY DEF Free
        <3>2. Cut(m, Split(m, a, n, owner, Free), link, a, n, owner, Free)
            BY <1>1, <2>1, <3>1, SplitKeeps
        <3> QED BY <2>0, <3>2 DEF Cut
    <2>3. Part(Free, a + n + 1, a + m[a].size) = {} /\ Part(owner, a, a + n) = {Extent(owner, a, a + n)}
        BY DEF Part
    <2> QED BY <1>1, <1>2, <1>3, <1>4, <2>0, <2>2, <2>3 DEF Gives, t
<1> QED BY <1>5, <1>6, <1>7

\* What an allocation does to the chains, whether it finds a block or not.
LEMMA AllocateKeeps ==
    ASSUME NEW m, NEW link \in BOOLEAN, Tiled(m, link), NEW how \in Strategies,
           NEW owner \in Int, owner # Free, NEW n \in Nat,
           NEW r, r = AllocateMemory(m, how, owner, n)
    PROVE  /\ r.ok \in BOOLEAN
           /\ r.ok => Gives(m, r.mcb, link, owner, r.at, n)
           /\ ~r.ok => r.mcb = CompressMemory(m)
           /\ n >= UmbEnd => ~r.ok
<1> DEFINE c == CompressMemory(m)
           s == Searched(c, how.area)
           fitting == Fitting(c, s, n)
           a == s[Chosen(c, s, fitting, how.fit)]
<1>1. Tiled(c, link) /\ Held(c) = Held(m)
    BY CompressKeeps
<1>2. s \in Seq(DOMAIN c)
    <2> HIDE DEF c
    <2> QED BY <1>1, SearchedIn
<1>3. r = Allocated(c, s, fitting, how.fit, owner, n)
    BY DEF AllocateMemory, AllocatedIn, AllocatedFrom
<1> HIDE DEF c, s
<1>4. fitting \subseteq 1 .. Len(s) /\ \A k \in fitting : s[k] \in DOMAIN c /\ c[s[k]].owner = Free /\ c[s[k]].size >= n
    BY <1>2 DEF Fitting
<1> HIDE DEF fitting
<1>5. CASE fitting # {}
    <2>1. Chosen(c, s, fitting, how.fit) \in fitting
        BY <1>1, <1>2, <1>4, <1>5, ChosenIn
    <2>2. a \in DOMAIN c /\ c[a].owner = Free /\ c[a].size >= n
        BY <1>4, <2>1
    <2> DEFINE t == Taken(c, a, n, owner, how.fit)
    <2>3. r.ok = TRUE /\ r.mcb = t.mcb /\ r.at = t.at
        BY <1>3, <1>5 DEF Allocated, Placed
    <2> HIDE DEF a
    <2>4. Gives(c, t.mcb, link, owner, t.at, n)
        BY <1>1, <2>2, TakenGives
    <2> HIDE DEF t
    <2>5. Gives(m, r.mcb, link, owner, r.at, n)
        BY <1>1, <2>3, <2>4 DEF Gives
    <2>6. n < UmbEnd
        <3>1. /\ a \in Nat /\ c[a].size \in Nat /\ Behind(c, a) <= UmbEnd /\ Behind(c, a) = a + c[a].size + 1
              /\ UmbEnd \in Nat
            BY <1>1, <2>2, TileFacts, Layout
        <3> QED BY <2>2, <3>1
    <2>7. ~(n >= UmbEnd)
        BY <2>6, Layout
    <2> QED BY <2>3, <2>5, <2>7
<1>6. CASE fitting = {}
    <2>1. r.ok = FALSE /\ r.mcb = c
        BY <1>3, <1>6 DEF Allocated
    <2> QED BY <2>1 DEF c
<1> QED BY <1>5, <1>6

\* The size that a failed allocation reports can be had at once.
LEMMA LargestCanBeHad ==
    ASSUME NEW m, NEW link \in BOOLEAN, Tiled(m, link), NEW how \in Strategies,
           NEW owner, NEW n \in Nat, NEW r, r = AllocateMemory(m, how, owner, n), ~r.ok,
           NEW k \in Nat, k <= r.largest, r.largest # 0
    PROVE  AllocateMemory(r.mcb, how, owner, k).ok
<1> DEFINE c == CompressMemory(m)
           s == Searched(c, how.area)
<1>1. Tiled(c, link) /\ CompressMemory(c) = c
    BY CompressKeeps
<1>2. s \in Seq(DOMAIN c)
    <2> HIDE DEF c
    <2> QED BY <1>1, SearchedIn
<1>3. r = Allocated(c, s, Fitting(c, s, n), how.fit, owner, n)
    BY DEF AllocateMemory, AllocatedIn, AllocatedFrom
<1> HIDE DEF c
<1>4. r.mcb = c /\ r.largest = Largest(c, s)
    BY <1>3 DEF Allocated, Placed
<1>5. AllocateMemory(c, how, owner, k) = Allocated(c, s, Fitting(c, s, k), how.fit, owner, k)
    BY <1>1 DEF AllocateMemory, AllocatedIn, AllocatedFrom
<1> HIDE DEF s
<1>6. PICK i \in 1 .. Len(s) : c[s[i]].owner = Free /\ c[s[i]].size = Largest(c, s)
    BY <1>1, <1>2, <1>4, LargestIs
<1>7. Largest(c, s) \in Nat
    BY <1>1, <1>2, LargestIs
<1>8. Fitting(c, s, k) # {}
    <2>1. c[s[i]].size >= k
        BY <1>4, <1>6, <1>7
    <2> QED BY <1>6, <2>1 DEF Fitting
<1> QED BY <1>4, <1>5, <1>8 DEF Allocated, Placed

-----------------------------------------------------------------------------
(* The calls *)

\* The block at an address has got another size.
Reheld(m, n, link, owner, a) ==
    /\ Tiled(n, link)
    /\ \E k \in Nat : Held(n) = Without(Held(m), {a}) \cup {Extent(owner, a, a + k)}

LEMMA Unchanged ==
    ASSUME NEW m, NEW a \in DOMAIN m, m[a].owner # Free
    PROVE  Held(m) = Without(Held(m), {a}) \cup {Extent(m[a].owner, a, a + m[a].size)}
<1>1. Extent(m[a].owner, a, a + m[a].size) = ExtentOf(m, a)
    BY DEF Extent, ExtentOf
<1>2. ExtentOf(m, a) \in Held(m)
    BY DEF Held
<1>3. \A e \in Held(m) : e.first = a => e = ExtentOf(m, a)
    BY HeldFirst
<1> QED BY <1>1, <1>2, <1>3 DEF Without

\* What is taken away at an address twice is taken away once.
LEMMA WithoutTwice ==
    ASSUME NEW H, NEW a, NEW owner, NEW last
    PROVE  Without(Without(H, {a}) \cup {Extent(owner, a, last)}, {a}) = Without(H, {a})
<1>1. Extent(owner, a, last).first = a
    BY DEF Extent
<1> QED BY <1>1 DEF Without

LEMMA GrownKeeps ==
    ASSUME NEW c, NEW link \in BOOLEAN, Tiled(c, link), NEW a \in DOMAIN c, a # UmbStart, c[a].owner # Free
    PROVE  /\ Tiled(Grown(c, a), link) /\ a \in DOMAIN Grown(c, a) /\ Grown(c, a)[a].owner = c[a].owner
           /\ Held(Grown(c, a)) = Without(Held(c), {a}) \cup
                                    {Extent(c[a].owner, a, a + Grown(c, a)[a].size)}
<1> DEFINE next == Behind(c, a)
<1>1. CASE ~c[a].last /\ c[next].owner = Free
    <2>1. Grown(c, a) = Joined(c, a, next)
        BY <1>1 DEF Grown
    <2>2. next # UmbEnd
        BY <1>1 DEF Tiled
    <2>3. next \in DOMAIN c
        BY <2>2, TileFacts
    <2>4. /\ Tiled(Joined(c, a, next), link) /\ a \in DOMAIN Joined(c, a, next)
          /\ Joined(c, a, next)[a].owner = c[a].owner
          /\ Held(Joined(c, a, next)) =
               Without(Held(c), {a}) \cup Part(c[a].owner, a, a + Joined(c, a, next)[a].size)
        BY <1>1, <2>3, JoinedKeeps, SMTT(40)
    <2> QED BY <2>1, <2>4 DEF Part
<1>2. CASE ~(~c[a].last /\ c[next].owner = Free)
    <2>1. Grown(c, a) = c
        BY <1>2 DEF Grown
    <2> QED BY <2>1, Unchanged
<1> QED BY <1>1, <1>2

LEMMA ResizeKeeps ==
    ASSUME NEW m, NEW link \in BOOLEAN, Tiled(m, link), NEW a \in DOMAIN m,
           NEW owner \in Int, m[a].owner = owner, owner # Free, owner # Dos, NEW n \in Nat
    PROVE  Reheld(m, ResizeMemory(m, owner, a, n).mcb, link, owner, a)
<1> DEFINE c == CompressMemory(m)
           g == Grown(c, a)
           r == ResizeMemory(m, owner, a, n).mcb
<1>1. Tiled(c, link) /\ Held(c) = Held(m) /\ a \in DOMAIN c /\ c[a] = m[a]
    BY CompressKeeps
<1>2. a # UmbStart
    BY DEF Tiled
<1>3. r = Resized(c, g, owner, a, n).mcb
    BY DEF ResizeMemory, ResizedIn
<1> HIDE DEF c
<1>4. c[a].owner = owner
    BY <1>1
<1>5. /\ Tiled(g, link) /\ a \in DOMAIN g /\ g[a].owner = owner
      /\ Held(g) = Without(Held(m), {a}) \cup {Extent(owner, a, a + g[a].size)}
    <2>1. /\ Tiled(Grown(c, a), link) /\ a \in DOMAIN Grown(c, a) /\ Grown(c, a)[a].owner = c[a].owner
          /\ Held(Grown(c, a)) = Without(Held(c), {a}) \cup
                                    {Extent(c[a].owner, a, a + Grown(c, a)[a].size)}
        BY <1>1, <1>2, <1>4, GrownKeeps
    <2> QED BY <1>1, <1>4, <2>1
<1> HIDE DEF g, r
<1>6. c[a].size \in Nat /\ g[a].size \in Nat
    BY <1>1, <1>5, TileFacts
<1>7. Without(Held(g), {a}) = Without(Held(m), {a})
    BY <1>5, WithoutTwice
<1>8. \A x, last : Part(owner, x, last) = {Extent(owner, x, last)} /\ Part(Free, x, last) = {}
    BY DEF Part
<1>9. Free \in Int
    BY DEF Free
<1>10. CASE n = c[a].size
    <2>1. r = c
        BY <1>3, <1>10 DEF Resized
    <2>2. Held(c) = Without(Held(c), {a}) \cup {Extent(c[a].owner, a, a + c[a].size)}
        BY <1>1, <1>4, Unchanged
    <2> QED BY <1>1, <1>4, <1>6, <2>1, <2>2 DEF Reheld, r
<1>11. CASE n < c[a].size
    <2>1. r = Split(c, a, n, owner, Free)
        BY <1>3, <1>6, <1>11 DEF Resized
    <2>2. Cut(c, Split(c, a, n, owner, Free), link, a, n, owner, Free)
        BY <1>1, <1>2, <1>9, <1>11, SplitKeeps
    <2>3. Tiled(r, link) /\ Held(r) = Without(Held(m), {a}) \cup {Extent(owner, a, a + n)}
        BY <1>1, <1>8, <2>1, <2>2 DEF Cut
    <2> QED BY <2>3 DEF Reheld, r
<1>12. CASE n > c[a].size /\ n < g[a].size
    <2>1. r = Split(g, a, n, owner, Free)
        BY <1>3, <1>6, <1>12 DEF Resized
    <2>2. Cut(g, Split(g, a, n, owner, Free), link, a, n, owner, Free)
        BY <1>2, <1>5, <1>9, <1>12, SplitKeeps
    <2>3. Tiled(r, link) /\ Held(r) = Without(Held(m), {a}) \cup {Extent(owner, a, a + n)}
        BY <1>7, <1>8, <2>1, <2>2 DEF Cut
    <2> QED BY <2>3 DEF Reheld, r
<1>13. CASE n > c[a].size /\ n >= g[a].size
    <2>1. r = [g EXCEPT ![a].owner = owner]
        BY <1>3, <1>6, <1>13 DEF Resized
    <2>2. /\ Tiled([g EXCEPT ![a].owner = owner], link)
          /\ Held([g EXCEPT ![a].owner = owner]) = Without(Held(g), {a}) \cup Part(owner, a, a + g[a].size)
        BY <1>2, <1>5, SetOwner
    <2>3. Tiled(r, link) /\ Held(r) = Without(Held(m), {a}) \cup {Extent(owner, a, a + g[a].size)}
        BY <1>7, <1>8, <2>1, <2>2
    <2> QED BY <1>6, <2>3 DEF Reheld, r
<1> QED BY <1>6, <1>10, <1>11, <1>12, <1>13

LEMMA FreeMemoryKeeps ==
    ASSUME NEW m, NEW link \in BOOLEAN, Tiled(m, link), NEW a \in DOMAIN m, a # UmbStart
    PROVE  Tiled(FreeMemory(m, a), link) /\ Held(FreeMemory(m, a)) = Without(Held(m), {a})
<1>1. Free \in Int /\ Part(Free, a, a + m[a].size) = {}
    BY DEF Free, Part
<1>2. /\ Tiled([m EXCEPT ![a].owner = Free], link)
      /\ Held([m EXCEPT ![a].owner = Free]) = Without(Held(m), {a}) \cup Part(Free, a, a + m[a].size)
    BY <1>1, SetOwner
<1> QED BY <1>1, <1>2 DEF FreeMemory

LEMMA ProcessFreed ==
    ASSUME NEW m, NEW link \in BOOLEAN, Tiled(m, link), NEW owner, owner # Dos
    PROVE  /\ Tiled(FreeProcessMemory(m, owner), link)
           /\ Held(FreeProcessMemory(m, owner)) = {e \in Held(m) : e.owner # owner}
<1> DEFINE walk == Visited(Walk(m, First)) \cup Visited(Walk(m, UmbStart))
           f == Freed(m, owner, walk)
<1>1. DOMAIN m \subseteq walk
    <2>1. walk = LowPart(m, link) \cup HighPart(m)
        BY Walks
    <2>2. \A a \in DOMAIN m : a \in Nat /\ UmbStart \in Nat
        BY TileFacts, Layout
    <2> QED BY <2>1, <2>2 DEF LowPart, HighPart
<1> HIDE DEF walk
<1>2. Tiled(f, link) /\ Held(f) = {e \in Held(m) : e.owner # owner}
    BY <1>1, FreedKeeps
<1> HIDE DEF f
<1>3. Tiled(CompressMemory(f), link) /\ Held(CompressMemory(f)) = Held(f)
    BY <1>2, CompressKeeps
<1> QED BY <1>2, <1>3 DEF FreeProcessMemory, f, walk

\* An allocation as the programs see it: one extent more, or none.
OneMore(m, n, link, owner) ==
    /\ Tiled(n, link)
    /\ \/ Held(n) = Held(m)
       \/ \E at \in Nat, k \in Nat : Held(n) = Held(m) \cup {Extent(owner, at, at + k)}

LEMMA AllocateOne ==
    ASSUME NEW m, NEW link \in BOOLEAN, Tiled(m, link), NEW how \in Strategies,
           NEW owner \in Int, owner # Free, NEW n \in Nat
    PROVE  OneMore(m, AllocateMemory(m, how, owner, n).mcb, link, owner)
<1> DEFINE r == AllocateMemory(m, how, owner, n)
<1>1. /\ r.ok \in BOOLEAN
      /\ r.ok => Gives(m, r.mcb, link, owner, r.at, n)
      /\ ~r.ok => r.mcb = CompressMemory(m)
    BY AllocateKeeps
<1> HIDE DEF r
<1>2. CASE r.ok
    <2>1. r.at \in Nat /\ Tiled(r.mcb, link) /\ Held(r.mcb) = Held(m) \cup {Extent(owner, r.at, r.at + n)}
        BY <1>1, <1>2 DEF Gives
    <2> QED BY <2>1 DEF OneMore, r
<1>3. CASE ~r.ok
    <2>1. Tiled(CompressMemory(m), link) /\ Held(CompressMemory(m)) = Held(m)
        BY CompressKeeps
    <2> QED BY <1>1, <1>3, <2>1 DEF OneMore, r
<1> QED BY <1>2, <1>3

LEMMA UmbOne ==
    ASSUME NEW m, NEW was \in BOOLEAN, Tiled(m, was), psp \in Int, psp # Free, NEW n \in Nat
    PROVE  OneMore(m, UmbAllocated(m, was, n), was, psp)
<1> DEFINE l == LinkUMBs(m, was, TRUE)
           x == AllocateMemory(l, HighOnly, psp, n).mcb
<1>1. Tiled(l, TRUE) /\ Held(l) = Held(m)
    BY LinkKeeps
<1>2. HighOnly \in Strategies
    BY DEF HighOnly, Strategies
<1> HIDE DEF l
<1>3. OneMore(l, x, TRUE, psp)
    BY <1>1, <1>2, AllocateOne
<1> HIDE DEF x
<1>4. Tiled(LinkUMBs(x, TRUE, was), was) /\ Held(LinkUMBs(x, TRUE, was)) = Held(x)
    BY <1>3, LinkKeeps DEF OneMore
<1>5. UmbAllocated(m, was, n) = LinkUMBs(x, TRUE, was)
    BY DEF UmbAllocated, x, l
<1> QED BY <1>1, <1>3, <1>4, <1>5 DEF OneMore

-----------------------------------------------------------------------------
(* The start of a program *)

\* A new program has the block of its prefix, where nobody's began, and one of its
\* environment; both were free.
Starts(m, n, link, new) ==
    /\ Tiled(n, link) /\ new \in 1 .. UmbEnd /\ \A e \in Held(m) : e.first # new - 1
    /\ \E last \in Nat, env \in Nat, end \in Nat :
          Held(n) = Held(m) \cup {Extent(new, new - 1, last), Extent(new, env, end)}

LoadKeeps(m, load, link) ==
    \/ load.result = "failed" /\ Tiled(load.mcb, link) /\ Held(load.mcb) = Held(m)
    \/ load.result = "loaded" /\ Starts(m, load.mcb, link, load.psp)

Assign(m, a, o) == [m EXCEPT ![a].owner = o]
Assigned(m, n, link, a, o) ==
    Tiled(n, link) /\ Held(n) = Without(Held(m), {a}) \cup Part(o, a, a + m[a].size)

LEMMA AssignKeeps ==
    ASSUME NEW m, NEW link \in BOOLEAN, Tiled(m, link), NEW a \in DOMAIN m, a # UmbStart, NEW o \in Int
    PROVE  Assigned(m, Assign(m, a, o), link, a, o)
BY SetOwner DEF Assign, Assigned

LEMMA OwnedStarts ==
    ASSUME NEW m, NEW link \in BOOLEAN, NEW free, NEW at, NEW n \in Nat, NEW k \in Nat,
           psp \in Int, psp # Free, NEW env, env.at = at,
           Gives(m, free, link, psp, at, k),
           NEW image, image.ok, Gives(free, image.mcb, link, psp, image.at, n)
    PROVE  LoadKeeps(m, Owned(env, image), link)
<1> DEFINE i == image.mcb
           x == image.at
           p == x + 1
           j == Assign(i, at, p)
           o == Assign(j, x, p)
           E == Extent(psp, at, at + k)
           F == Extent(psp, x, x + n)
<1>1. /\ Tiled(i, link) /\ x \in 0 .. UmbEnd - 1 /\ x # UmbStart /\ \A e \in Held(free) : e.first # x
      /\ Held(i) = Held(free) \cup {F}
    BY DEF Gives
<1>2. /\ at \in 0 .. UmbEnd - 1 /\ at # UmbStart /\ \A e \in Held(m) : e.first # at
      /\ Held(free) = Held(m) \cup {E}
    BY DEF Gives
<1>3. E.first = at /\ F.first = x
    BY DEF Extent
<1>4. x # at /\ \A e \in Held(m) : e.first # x
    BY <1>1, <1>2, <1>3
<1>5. at \in DOMAIN i /\ x \in DOMAIN i
    BY <1>1, <1>2, <1>3, HeldFirst DEF Busy
<1>6. p \in 1 .. UmbEnd /\ p \in Int /\ p # Free /\ p - 1 = x
    BY <1>1, Layout DEF Free
<1>7. Owned(env, image) = [result |-> "loaded", psp |-> p,
                           mcb |-> [i EXCEPT ![at].owner = p, ![x].owner = p]]
    BY DEF Owned
<1>8. [i EXCEPT ![at].owner = p, ![x].owner = p] = o
    BY <1>5 DEF Assign
<1> HIDE DEF i, x, p, E, F
<1>9. /\ Tiled(j, link) /\ x \in DOMAIN j
      /\ Held(j) = Without(Held(i), {at}) \cup Part(p, at, at + i[at].size)
    <2>1. x \in DOMAIN j
        BY <1>5 DEF Assign
    <2>2. Assigned(i, Assign(i, at, p), link, at, p)
        BY <1>1, <1>2, <1>5, <1>6, AssignKeeps
    <2> QED BY <2>1, <2>2 DEF Assigned
<1> HIDE DEF j
<1>11. /\ Tiled(o, link)
       /\ Held(o) = Without(Held(j), {x}) \cup Part(p, x, x + j[x].size)
    <2>1. Assigned(j, Assign(j, x, p), link, x, p)
        BY <1>1, <1>6, <1>9, AssignKeeps
    <2> QED BY <2>1 DEF Assigned
<1> HIDE DEF o
<1>12. Without(Held(i), {at}) = Held(m) \cup {F}
    BY <1>1, <1>2, <1>3, <1>4 DEF Without
<1> DEFINE G == Extent(p, at, at + i[at].size)
           K == Extent(p, x, x + j[x].size)
<1>13. Part(p, at, at + i[at].size) = {G} /\ G.first = at /\ Part(p, x, x + j[x].size) = {K}
    BY <1>6 DEF Part, Extent
<1> HIDE DEF G
<1>14. Without(Held(j), {x}) = Held(m) \cup {G}
    BY <1>3, <1>4, <1>9, <1>12, <1>13 DEF Without
<1>15. Held(o) = Held(m) \cup {K, G}
    BY <1>11, <1>13, <1>14
<1>16. at \in Nat /\ at + i[at].size \in Nat /\ x + j[x].size \in Nat
    <2>1. at \in Nat /\ i[at].size \in Nat /\ x \in Nat /\ j[x].size \in Nat
        BY <1>1, <1>5, <1>9, TileFacts
    <2> QED BY <2>1
<1>17. Starts(m, o, link, p)
    <2>1. Held(o) = Held(m) \cup {Extent(p, p - 1, x + j[x].size), Extent(p, at, at + i[at].size)}
        BY <1>6, <1>15 DEF G
    <2>2. \A e \in Held(m) : e.first # p - 1
        BY <1>4, <1>6
    <2> DEFINE end == at + i[at].size
               last == x + j[x].size
    <2>3. last \in Nat /\ end \in Nat /\ Held(o) = Held(m) \cup {Extent(p, p - 1, last), Extent(p, at, end)}
        BY <1>16, <2>1
    <2> HIDE DEF end, last
    <2>4. \E y \in Nat, z \in Nat, e \in Nat :
             Held(o) = Held(m) \cup {Extent(p, p - 1, y), Extent(p, z, e)}
        BY <1>16, <2>3
    <2>5. Tiled(o, link) /\ p \in 1 .. UmbEnd
        BY <1>6, <1>11
    <2> QED BY <2>2, <2>4, <2>5 DEF Starts
<1>18. Owned(env, image) = [result |-> "loaded", psp |-> p, mcb |-> o]
    BY <1>7, <1>8
<1> HIDE DEF K
<1> QED BY <1>17, <1>18 DEF LoadKeeps

LEMMA LoadedKeeps ==
    ASSUME NEW m, NEW link \in BOOLEAN, Tiled(m, link), NEW how \in Strategies,
           NEW least \in Nat \ {0}, NEW most \in Nat, psp \in Int, psp # Free
    PROVE  LoadKeeps(m, Loaded(m, how, least, most), link)
<1> DEFINE env == AllocateMemory(m, how, psp, EnvSize)
           free == AllocateMemory(env.mcb, how, psp, Huge)
           size == IF free.largest < most THEN free.largest ELSE most
           image == AllocateMemory(free.mcb, how, psp, size)
<1>0. EnvSize \in Nat /\ Huge \in Nat /\ Huge = UmbEnd /\ UmbEnd \in Nat
    BY ProcessAssumption, Layout DEF Huge
<1>1. /\ env.ok \in BOOLEAN
      /\ env.ok => Gives(m, env.mcb, link, psp, env.at, EnvSize)
      /\ ~env.ok => env.mcb = CompressMemory(m)
    BY <1>0, AllocateKeeps
<1>2. Loaded(m, how, least, most) = WithEnvironment(env, how, least, most)
    BY DEF Loaded
<1> HIDE DEF env
<1>3. CASE ~env.ok
    <2>1. Loaded(m, how, least, most) = Failed(CompressMemory(m))
        BY <1>1, <1>2, <1>3 DEF WithEnvironment
    <2>2. Tiled(CompressMemory(m), link) /\ Held(CompressMemory(m)) = Held(m)
        BY CompressKeeps
    <2> QED BY <2>1, <2>2 DEF Failed, LoadKeeps
<1>4. CASE env.ok
    <2>1. Gives(m, env.mcb, link, psp, env.at, EnvSize)
        BY <1>1, <1>4
    <2>2. Tiled(env.mcb, link)
        BY <2>1 DEF Gives
    <2>3. Loaded(m, how, least, most) = WithLargest(env, free, how, least, most)
        BY <1>2, <1>4 DEF WithEnvironment
    <2>4. ~free.ok /\ free.mcb = CompressMemory(env.mcb)
        <3>1. /\ free.ok \in BOOLEAN
              /\ ~free.ok => free.mcb = CompressMemory(env.mcb)
              /\ Huge >= UmbEnd => ~free.ok
            BY <1>0, <2>2, AllocateKeeps
        <3> QED BY <1>0, <3>1
    <2>5. Tiled(free.mcb, link) /\ Held(free.mcb) = Held(env.mcb)
        BY <2>2, <2>4, CompressKeeps
    <2>6. free.largest \in Nat
        <3> DEFINE c == CompressMemory(env.mcb)
                   s == Searched(c, how.area)
        <3>1. Tiled(c, link)
            BY <2>2, CompressKeeps
        <3>2. s \in Seq(DOMAIN c)
            <4> HIDE DEF c
            <4> QED BY <3>1, SearchedIn
        <3>3. free = Allocated(c, s, Fitting(c, s, Huge), how.fit, psp, Huge)
            BY DEF AllocateMemory, AllocatedIn, AllocatedFrom
        <3> HIDE DEF c, s
        <3>4. free.largest = Largest(c, s)
            BY <2>4, <3>3 DEF Allocated, Placed
        <3> QED BY <3>1, <3>2, <3>4, LargestIs
    <2>7. Gives(m, free.mcb, link, psp, env.at, EnvSize)
        BY <2>1, <2>5 DEF Gives
    <2>8. \A k \in Nat : k <= free.largest /\ free.largest # 0 => AllocateMemory(free.mcb, how, psp, k).ok
        BY <1>0, <2>2, <2>4, LargestCanBeHad
    <2> HIDE DEF free
    <2>9. CASE free.largest < least
        <3>1. Loaded(m, how, least, most) = Failed(FreeMemory(free.mcb, env.at))
            BY <2>3, <2>9 DEF WithLargest
        <3> DEFINE E == Extent(psp, env.at, env.at + EnvSize)
        <3>2. Held(free.mcb) = Held(m) \cup {E} /\ E.first = env.at /\ env.at # UmbStart
              /\ \A e \in Held(m) : e.first # env.at
            BY <2>7 DEF Gives, Extent
        <3> HIDE DEF E
        <3>3. env.at \in DOMAIN free.mcb
            BY <3>2, HeldFirst DEF Busy
        <3>4. Without(Held(free.mcb), {env.at}) = Held(m)
            BY <3>2 DEF Without
        <3>5. Tiled(FreeMemory(free.mcb, env.at), link) /\ Held(FreeMemory(free.mcb, env.at)) = Held(m)
            BY <2>5, <3>2, <3>3, <3>4, FreeMemoryKeeps
        <3> QED BY <3>1, <3>5 DEF Failed, LoadKeeps
    <2>10. CASE ~(free.largest < least)
        <3>1. Loaded(m, how, least, most) = Owned(env, image)
            BY <2>3, <2>10 DEF WithLargest
        <3>2. size \in Nat /\ size <= free.largest /\ free.largest # 0
            BY <2>6, <2>10
        <3> HIDE DEF size
        <3>3. image.ok
            BY <2>8, <3>2
        <3>4. Gives(free.mcb, image.mcb, link, psp, image.at, size)
            BY <2>5, <3>2, <3>3, AllocateKeeps
        <3> HIDE DEF image
        <3>5. LoadKeeps(m, Owned(env, image), link)
            BY <1>0, <2>7, <3>2, <3>3, <3>4, OwnedStarts
        <3> QED BY <3>1, <3>5
    <2> QED BY <2>9, <2>10
<1> QED BY <1>1, <1>3, <1>4

-----------------------------------------------------------------------------
(* Who holds what *)

\* Every extent belongs to the system or to one of the programs, and each of these has
\* the extent that its prefix is in.
Owners(held, programs) ==
    /\ \A e \in held : e.owner \in {Dos, Lock} \cup programs
    /\ \A p \in programs : p \in 1 .. UmbEnd /\ \E e \in held : e.owner = p /\ e.first = p - 1

\* What differs belongs to one owner.
OneOwner(held, next, owner) == \A e \in (held \ next) \cup (next \ held) : e.owner = owner

LEMMA OwnersAdd ==
    ASSUME NEW H, NEW L, Owners(H, L), NEW p \in L, NEW at, NEW last,
           NEW K, K = H \cup {Extent(p, at, last)}
    PROVE  Owners(K, L) /\ OneOwner(H, K, p)
<1>1. Extent(p, at, last).owner = p
    BY DEF Extent
<1>2. \A e \in K : e \in H \/ e.owner = p
    BY <1>1
<1> QED BY <1>2 DEF Owners, OneOwner

LEMMA OwnersDrop ==
    ASSUME NEW H, NEW L, Owners(H, L), NEW p \in L, NEW a, a # p - 1,
           \A e \in H : e.first = a => e.owner = p
    PROVE  Owners(Without(H, {a}), L) /\ OneOwner(H, Without(H, {a}), p)
<1> DEFINE K == Without(H, {a})
<1>1. K \subseteq H /\ \A e \in H : e \in K <=> e.first # a
    BY DEF Without
<1> HIDE DEF K
<1>2. ASSUME NEW q \in L PROVE q \in 1 .. UmbEnd /\ \E e \in K : e.owner = q /\ e.first = q - 1
    <2>1. PICK e \in H : q \in 1 .. UmbEnd /\ e.owner = q /\ e.first = q - 1
        BY DEF Owners
    <2>2. e.first # a
        BY <2>1
    <2> QED BY <2>1, <2>2, <1>1
<1> QED BY <1>1, <1>2 DEF Owners, OneOwner, K

LEMMA OwnersReheld ==
    ASSUME NEW H, NEW L, Owners(H, L), NEW p \in L, NEW a, NEW last,
           \A e \in H : e.first = a => e.owner = p,
           NEW K, K = Without(H, {a}) \cup {Extent(p, a, last)}
    PROVE  Owners(K, L) /\ OneOwner(H, K, p)
<1> DEFINE E == Extent(p, a, last)
<1>1. E.owner = p /\ E.first = a /\ E \in K
    BY DEF Extent
<1>2. /\ \A e \in H : e.first # a => e \in K
      /\ \A e \in K : (e \in H /\ e.first # a) \/ e = E
    BY DEF Without
<1> HIDE DEF E
<1>3. ASSUME NEW q \in L PROVE q \in 1 .. UmbEnd /\ \E e \in K : e.owner = q /\ e.first = q - 1
    <2>1. PICK e \in H : q \in 1 .. UmbEnd /\ e.owner = q /\ e.first = q - 1
        BY DEF Owners
    <2>2. CASE e.first = a
        BY <2>1, <2>2, <1>1
    <2>3. CASE e.first # a
        BY <2>1, <2>3, <1>2
    <2> QED BY <2>2, <2>3
<1>4. \A e \in K : e.owner \in {Dos, Lock} \cup L
    BY <1>1, <1>2 DEF Owners
<1>5. OneOwner(H, K, p)
    BY <1>1, <1>2 DEF OneOwner
<1> QED BY <1>3, <1>4, <1>5 DEF Owners

LEMMA OwnersEnd ==
    ASSUME NEW H, NEW L, Owners(H, L), NEW p, NEW K, K = {e \in H : e.owner # p}
    PROVE  Owners(K, L \ {p}) /\ OneOwner(H, K, p)
<1>1. ASSUME NEW q \in L \ {p} PROVE q \in 1 .. UmbEnd /\ \E e \in K : e.owner = q /\ e.first = q - 1
    <2>1. PICK e \in H : q \in 1 .. UmbEnd /\ e.owner = q /\ e.first = q - 1
        BY DEF Owners
    <2> QED BY <2>1
<1>2. \A e \in K : e.owner \in {Dos, Lock} \cup (L \ {p})
    BY DEF Owners
<1>3. OneOwner(H, K, p)
    BY DEF OneOwner
<1> QED BY <1>1, <1>2, <1>3 DEF Owners

LEMMA OwnersStart ==
    ASSUME NEW m, NEW L, Owners(Held(m), L), NEW n, NEW link, NEW new, Starts(m, n, link, new)
    PROVE  Owners(Held(n), L \cup {new}) /\ OneOwner(Held(m), Held(n), new) /\ new \notin L
<1> DEFINE H == Held(m)
           K == Held(n)
<1>1. new \in 1 .. UmbEnd /\ \A e \in H : e.first # new - 1
    BY DEF Starts
<1>2. PICK last \in Nat, env \in Nat, end \in Nat :
          K = H \cup {Extent(new, new - 1, last), Extent(new, env, end)}
    BY DEF Starts
<1> DEFINE E == Extent(new, new - 1, last)
           F == Extent(new, env, end)
<1>3. E.owner = new /\ F.owner = new /\ E.first = new - 1
    BY DEF Extent
<1> HIDE DEF H, K, E, F
<1>4. K = H \cup {E, F}
    BY <1>2 DEF E, F
<1>5. new \notin L
    BY <1>1 DEF Owners, H
<1>6. OneOwner(H, K, new)
    BY <1>3, <1>4 DEF OneOwner
<1>7. Owners(K, L \cup {new})
    <2>1. \A q \in L : q \in 1 .. UmbEnd /\ \E e \in H : e.owner = q /\ e.first = q - 1
        BY DEF Owners, H
    <2>2. \A q \in L \cup {new} : q \in 1 .. UmbEnd /\ \E e \in K : e.owner = q /\ e.first = q - 1
        BY <1>1, <1>3, <1>4, <2>1
    <2>3. \A e \in K : e.owner \in {Dos, Lock} \cup (L \cup {new})
        BY <1>3, <1>4 DEF Owners, H
    <2> QED BY <2>2, <2>3 DEF Owners
<1> QED BY <1>5, <1>6, <1>7 DEF H, K

\* Blocks do not overlap.
LEMMA TiledDisjoint ==
    ASSUME NEW m, NEW link \in BOOLEAN, Tiled(m, link)
    PROVE  Arena!Disjoint(Held(m))
<1> SUFFICES ASSUME NEW d \in Held(m), NEW e \in Held(m), d # e
             PROVE  d.last < e.first \/ e.last < d.first
    BY DEF Arena!Disjoint
<1> DEFINE a == d.first
           b == e.first
<1>1. a \in DOMAIN m /\ b \in DOMAIN m /\ d = ExtentOf(m, a) /\ e = ExtentOf(m, b)
    BY HeldFirst DEF Busy
<1>2. a # b
    BY <1>1
<1>3. d.last = a + m[a].size /\ e.last = b + m[b].size
    BY <1>1 DEF ExtentOf
<1> HIDE DEF a, b
<1>4. /\ a \in Nat /\ b \in Nat /\ m[a].size \in Nat /\ m[b].size \in Nat
      /\ a < b => a + m[a].size + 1 <= b
      /\ b < a => b + m[b].size + 1 <= a
    BY <1>1, TileFacts
<1>5. a + m[a].size < b \/ b + m[b].size < a
    BY <1>2, <1>4
<1> QED BY <1>3, <1>5 DEF a, b

-----------------------------------------------------------------------------
(* The invariant *)

Settings == [linked : BOOLEAN, strategy : Strategies]
Frames == [psp : 1 .. UmbEnd, saved : SUBSET Settings]
Programs == Live \cup resident

StackOK ==
    /\ stack \in Seq(Frames) /\ Len(stack) <= MaxDepth
    /\ \A i, j \in 1 .. Len(stack) : stack[i].psp = stack[j].psp => i = j
    /\ \A i \in 1 .. Len(stack) : stack[i].psp \notin resident

Inv ==
    /\ Tiled(mcb, linked)
    /\ linked \in BOOLEAN /\ strategy \in Strategies
    /\ StackOK
    /\ Cardinality(resident) <= MaxResident
    /\ Owners(Held(mcb), Programs)
    /\ status = "running"

\* The running program.
LEMMA TheRunning ==
    ASSUME Inv, Running
    PROVE  /\ Len(stack) \in Nat \ {0} /\ Len(stack) \in 1 .. Len(stack) /\ stack[Len(stack)] \in Frames
           /\ psp = stack[Len(stack)].psp
           /\ psp \in Live /\ psp \in Programs /\ psp \notin resident
           /\ psp \in 1 .. UmbEnd /\ psp \in Int /\ psp # Free /\ psp # Dos /\ psp # Lock
<1>1. stack \in Seq(Frames) /\ stack # <<>> /\ \A i \in 1 .. Len(stack) : stack[i].psp \notin resident
    BY DEF Inv, StackOK, Running
<1>2. Len(stack) \in Nat \ {0} /\ Len(stack) \in 1 .. Len(stack) /\ stack[Len(stack)] \in Frames
    BY <1>1
<1>3. psp = stack[Len(stack)].psp
    BY <1>1 DEF psp
<1>4. psp \in 1 .. UmbEnd
    BY <1>2, <1>3 DEF Frames
<1>5. psp \in Int /\ psp # Free /\ psp # Dos /\ psp # Lock
    BY <1>4, Layout DEF Free, Dos, Lock
<1>6. psp \in Live /\ psp \notin resident
    BY <1>1, <1>2, <1>3 DEF Live
<1> QED BY <1>2, <1>3, <1>4, <1>5, <1>6 DEF Programs

\* Nothing at an address that a program owns is somebody else's.
LEMMA OwnBlock ==
    ASSUME Inv, NEW a \in Own, psp # Dos, psp # Free
    PROVE  /\ a \in DOMAIN mcb /\ mcb[a].owner = psp /\ a # UmbStart
           /\ \A e \in Held(mcb) : e.first = a => e.owner = psp
<1>1. a \in DOMAIN mcb /\ mcb[a].owner = psp
    BY DEF Own
<1>2. a # UmbStart
    BY <1>1 DEF Inv, Tiled
<1> QED BY <1>1, <1>2, HeldFirst

LEMMA InitHolds == Init => Inv
<1> SUFFICES ASSUME Init PROVE Inv
    OBVIOUS
<1>0. GapSize \in Nat /\ LockSize \in Nat /\ LowSize \in Nat /\ CoverSize \in Nat /\ UmbSize \in Nat
    BY ArenaAssumption
<1> DEFINE A == {First, Gap, LockAt, Low, UmbStart, Umb}
<1>1. /\ First = 0 /\ Gap = 2 /\ LockAt = Gap + GapSize + 1 /\ Low = LockAt + LockSize + 1
      /\ UmbStart = Low + LowSize + 1 /\ Umb = UmbStart + CoverSize + 1 /\ UmbEnd = Umb + UmbSize + 1
      /\ Gap \in Nat /\ LockAt \in Nat /\ Low \in Nat /\ UmbStart \in Nat /\ Umb \in Nat /\ UmbEnd \in Nat
    BY Layout
<1>2. 0 < Gap /\ Gap < LockAt /\ LockAt < Low /\ Low < UmbStart /\ UmbStart < Umb /\ Umb < UmbEnd
    BY <1>0, <1>1
<1>3. mcb = SetupMemory /\ DOMAIN mcb = A
    BY DEF Init, SetupMemory
<1>4. /\ mcb[First] = Header(Dos, 1, FALSE) /\ mcb[Gap] = Header(Free, GapSize, FALSE)
      /\ mcb[LockAt] = Header(Lock, LockSize, FALSE) /\ mcb[Low] = Header(Free, LowSize, TRUE)
      /\ mcb[UmbStart] = Header(Dos, CoverSize, FALSE) /\ mcb[Umb] = Header(Free, UmbSize, TRUE)
    <2>1. \A a \in A : mcb[a] = CASE a = First    -> Header(Dos, 1, FALSE)
                                  [] a = Gap      -> Header(Free, GapSize, FALSE)
                                  [] a = LockAt   -> Header(Lock, LockSize, FALSE)
                                  [] a = Low      -> Header(Free, LowSize, TRUE)
                                  [] a = UmbStart -> Header(Dos, CoverSize, FALSE)
                                  [] a = Umb      -> Header(Free, UmbSize, TRUE)
        BY DEF Init, SetupMemory
    <2>2.
        /\ Gap # First
        /\ LockAt # First /\ LockAt # Gap
        /\ Low # First /\ Low # Gap /\ Low # LockAt
        /\ UmbStart # First /\ UmbStart # Gap /\ UmbStart # LockAt /\ UmbStart # Low
        /\ Umb # First /\ Umb # Gap /\ Umb # LockAt /\ Umb # Low /\ Umb # UmbStart
        BY <1>1, <1>2
    <2> HIDE DEF A
    <2>a. First \in A /\ Gap \in A /\ LockAt \in A /\ Low \in A /\ UmbStart \in A /\ Umb \in A
        BY DEF A
    <2>3. mcb[First] = Header(Dos, 1, FALSE)
        BY <2>1, <2>2, <2>a
    <2>4. mcb[Gap] = Header(Free, GapSize, FALSE)
        BY <2>1, <2>2, <2>a
    <2>5. mcb[LockAt] = Header(Lock, LockSize, FALSE)
        BY <2>1, <2>2, <2>a
    <2>6. mcb[Low] = Header(Free, LowSize, TRUE)
        BY <2>1, <2>2, <2>a
    <2>7. mcb[UmbStart] = Header(Dos, CoverSize, FALSE)
        BY <2>1, <2>2, <2>a
    <2>8. mcb[Umb] = Header(Free, UmbSize, TRUE)
        BY <2>1, <2>2, <2>a
    <2> QED BY <2>3, <2>4, <2>5, <2>6, <2>7, <2>8
<1>5. /\ Behind(mcb, First) = Gap /\ Behind(mcb, Gap) = LockAt /\ Behind(mcb, LockAt) = Low
      /\ Behind(mcb, Low) = UmbStart /\ Behind(mcb, UmbStart) = Umb /\ Behind(mcb, Umb) = UmbEnd
    BY <1>1, <1>4 DEF Behind, Header
<1>6. Tiled(mcb, FALSE)
    <2>1. \A a \in A : a = First \/ a = Gap \/ a = LockAt \/ a = Low \/ a = UmbStart \/ a = Umb
        OBVIOUS
    <2>2. \A a \in A : a \in Nat /\ a < UmbEnd
        BY <2>1, <1>1, <1>2
    <2>3. A \subseteq First .. UmbEnd - 1 /\ First \in A /\ UmbStart \in A
        BY <2>2, <1>1
    <2>4. \A a \in A : mcb[a] \in Headers
        <3>1. \A o \in Int, n \in Nat, l \in BOOLEAN : Header(o, n, l) \in Headers
            BY DEF Header, Headers
        <3>2. Free \in Int /\ Dos \in Int /\ Lock \in Int
            BY DEF Free, Dos, Lock
        <3> QED BY <2>1, <3>1, <3>2, <1>0, <1>4
    <2>5. \A a \in A : Behind(mcb, a) \in A \cup {UmbEnd}
        BY <2>1, <1>5
    <2>6. \A a, b \in A : a < b => Behind(mcb, a) <= b
        <3> HIDE DEF A
        <3> SUFFICES ASSUME NEW a \in A, NEW b \in A, a < b PROVE Behind(mcb, a) <= b
            OBVIOUS
        <3>1. (a = First \/ a = Gap \/ a = LockAt \/ a = Low \/ a = UmbStart \/ a = Umb)
              /\ (b = First \/ b = Gap \/ b = LockAt \/ b = Low \/ b = UmbStart \/ b = Umb)
            BY <2>1
        <3>2. First = 0
            BY <1>1
        <3>3. /\ Gap \in Nat /\ LockAt \in Nat /\ Low \in Nat /\ UmbStart \in Nat /\ Umb \in Nat
            BY <1>1
        <3> QED BY <3>1, <3>2, <3>3, <1>2, <1>5
    <2>7. \A a \in A : mcb[a].last <=> Behind(mcb, a) = UmbEnd \/ (Behind(mcb, a) = UmbStart /\ ~FALSE)
        <3>1. /\ mcb[First].last = FALSE /\ mcb[Gap].last = FALSE /\ mcb[LockAt].last = FALSE
              /\ mcb[Low].last = TRUE /\ mcb[UmbStart].last = FALSE /\ mcb[Umb].last = TRUE
            BY <1>4 DEF Header
        <3>2. /\ Gap # UmbEnd /\ Gap # UmbStart /\ LockAt # UmbEnd /\ LockAt # UmbStart
              /\ Low # UmbEnd /\ Low # UmbStart /\ Umb # UmbEnd /\ Umb # UmbStart
            BY <1>1, <1>2
        <3> QED BY <2>1, <3>1, <3>2, <1>5
    <2>8. mcb[UmbStart].owner = Dos
        BY <1>4 DEF Header
    <2> HIDE DEF A
    <2> QED BY <1>3, <2>3, <2>4, <2>5, <2>6, <2>7, <2>8 DEF Tiled
<1>7. Programs = {}
    BY DEF Init, Programs, Live
<1>8. \A a \in DOMAIN mcb : mcb[a].owner \in {Free, Dos, Lock}
    BY <1>3, <1>4 DEF Header
<1>9. Owners(Held(mcb), Programs)
    <2>1. \A e \in Held(mcb) : e.owner \in {Dos, Lock}
        BY <1>8, HeldFirst DEF Busy
    <2> QED BY <1>7, <2>1 DEF Owners
<1>10. StackOK
    BY ProcessAssumption DEF Init, StackOK
<1>11. Cardinality(resident) <= MaxResident
    BY FS_EmptySet, ProcessAssumption DEF Init
<1>12. strategy \in Strategies
    BY DEF Init, Strategies
<1> QED BY <1>6, <1>9, <1>10, <1>11, <1>12 DEF Init, Inv

\* A step that leaves the programs as they are.
LEMMA SameStack ==
    ASSUME Inv, UNCHANGED <<stack, resident>>
    PROVE  StackOK' /\ Programs' = Programs /\ Cardinality(resident') <= MaxResident
BY DEF Inv, StackOK, Programs, Live

\* What a step may do to the blocks: one program's.
Moves == \E p \in 1 .. UmbEnd : OneOwner(Held(mcb), Held(mcb'), p)

LEMMA SameBlocks ==
    ASSUME Held(mcb') = Held(mcb)
    PROVE  Moves
<1>1. 1 \in 1 .. UmbEnd
    BY Layout
<1> QED BY <1>1 DEF Moves, OneOwner

LEMMA OneMoreMoves ==
    ASSUME Inv, Running, OneMore(mcb, mcb', linked, psp), UNCHANGED <<settings, stack, resident, status>>
    PROVE  Inv' /\ Moves
<1>1. psp \in Programs /\ psp \in 1 .. UmbEnd
    BY TheRunning
<1>2. StackOK' /\ Programs' = Programs /\ Cardinality(resident') <= MaxResident
    BY SameStack
<1>3. Tiled(mcb', linked') /\ linked' \in BOOLEAN /\ strategy' \in Strategies /\ status' = "running"
    BY DEF OneMore, Inv, settings
<1>4. Owners(Held(mcb'), Programs) /\ Moves
    <2>1. CASE Held(mcb') = Held(mcb)
        BY <2>1, SameBlocks DEF Inv
    <2>2. CASE \E at \in Nat, k \in Nat : Held(mcb') = Held(mcb) \cup {Extent(psp, at, at + k)}
        <3>1. PICK at \in Nat, k \in Nat : Held(mcb') = Held(mcb) \cup {Extent(psp, at, at + k)}
            BY <2>2
        <3> DEFINE last == at + k
        <3>2. Held(mcb') = Held(mcb) \cup {Extent(psp, at, last)} /\ Owners(Held(mcb), Programs)
            BY <3>1 DEF Inv
        <3> HIDE DEF last
        <3>3. Owners(Held(mcb'), Programs) /\ OneOwner(Held(mcb), Held(mcb'), psp)
            BY <1>1, <3>2, OwnersAdd
        <3> QED BY <1>1, <3>3 DEF Moves
    <2> QED BY <2>1, <2>2 DEF OneMore
<1>5. Held(mcb)' = Held(mcb') /\ Tiled(mcb, linked)' = Tiled(mcb', linked')
    BY DEF Held, ExtentOf, Tiled, Behind
<1> QED BY <1>2, <1>3, <1>4, <1>5 DEF Inv

-----------------------------------------------------------------------------
(* The steps *)

\* What a start may assume of its caller: a program, or the shell.
LEMMA TheCaller ==
    ASSUME Inv
    PROVE  psp \in Int /\ psp # Free /\ (stack = <<>> => psp = Shell)
<1>1. CASE stack = <<>>
    BY <1>1 DEF psp, Shell, Free
<1>2. CASE stack # <<>>
    BY <1>2, TheRunning DEF Running, Inv
<1> QED BY <1>1, <1>2

LEMMA Shorter ==
    ASSUME NEW S, NEW s \in Seq(S), Len(s) # 0
    PROVE  /\ SubSeq(s, 1, Len(s) - 1) \in Seq(S) /\ Len(SubSeq(s, 1, Len(s) - 1)) = Len(s) - 1
           /\ \A i \in 1 .. Len(s) - 1 : SubSeq(s, 1, Len(s) - 1)[i] = s[i]
<1>1. Len(s) \in Nat \ {0} /\ Len(s) - 1 \in Nat
    OBVIOUS
<1>2. \A i \in 1 .. Len(s) - 1 : i \in 1 .. Len(s) /\ s[i] \in S
    BY <1>1
<1> DEFINE n == Len(s) - 1
<1>3. n \in Int /\ n \in Nat /\ 1 \in Int /\ \A i \in 1 .. n : s[i] \in S
    BY <1>1, <1>2
<1> HIDE DEF n
<1>4. /\ SubSeq(s, 1, n) \in Seq(S)
      /\ Len(SubSeq(s, 1, n)) = IF 1 <= n THEN n - 1 + 1 ELSE 0
      /\ \A i \in 1 .. n - 1 + 1 : SubSeq(s, 1, n)[i] = s[1 + i - 1]
    BY <1>3, SubSeqProperties
<1>5. Len(SubSeq(s, 1, n)) = n /\ 1 .. n - 1 + 1 = 1 .. n /\ \A i \in 1 .. n : 1 + i - 1 = i
    BY <1>3, <1>4
<1> QED BY <1>4, <1>5 DEF n

LEMMA Popped ==
    ASSUME Inv, Running, stack' = SubSeq(stack, 1, Len(stack) - 1)
    PROVE  /\ stack' \in Seq(Frames) /\ Len(stack') <= MaxDepth
           /\ \A i, j \in 1 .. Len(stack') : stack'[i].psp = stack'[j].psp => i = j
           /\ \A i \in 1 .. Len(stack') : stack'[i].psp \notin resident \cup {psp}
           /\ Live' = Live \ {psp}
<1> DEFINE l == Len(stack)
<1>1. /\ stack \in Seq(Frames) /\ l \in Nat \ {0} /\ l <= MaxDepth /\ MaxDepth \in Nat
      /\ \A i, j \in 1 .. l : stack[i].psp = stack[j].psp => i = j
      /\ \A i \in 1 .. l : stack[i].psp \notin resident
      /\ psp = stack[l].psp
    BY TheRunning, ProcessAssumption DEF Inv, StackOK
<1>2. stack' \in Seq(Frames) /\ Len(stack') = l - 1 /\ \A i \in 1 .. l - 1 : stack'[i] = stack[i]
    BY <1>1, Shorter
<1> HIDE DEF l
<1>3. \A i \in 1 .. l - 1 : i \in 1 .. l /\ i # l /\ l \in 1 .. l
    BY <1>1
<1>4. \A i \in 1 .. l - 1 : stack[i].psp # psp
    BY <1>1, <1>3
<1>5. \A i \in 1 .. l : i = l \/ i \in 1 .. l - 1
    BY <1>1
<1>6. Live = {stack[i].psp : i \in 1 .. l} /\ Live' = {stack'[i].psp : i \in 1 .. l - 1}
    BY <1>2 DEF Live, l
<1>7. Live' = {stack[i].psp : i \in 1 .. l - 1}
    BY <1>2, <1>6
<1>8. Live' = Live \ {psp}
    BY <1>1, <1>3, <1>4, <1>5, <1>6, <1>7
<1>9. l - 1 <= MaxDepth
    BY <1>1
<1> QED BY <1>1, <1>2, <1>3, <1>4, <1>8, <1>9

LEMMA Pushed ==
    ASSUME Inv, NEW f \in Frames, f.psp \notin Programs, Len(stack) < MaxDepth,
           stack' = Append(stack, f), UNCHANGED resident
    PROVE  StackOK' /\ Programs' = Programs \cup {f.psp}
<1> DEFINE l == Len(stack)
<1>1. /\ stack \in Seq(Frames) /\ l \in Nat /\ MaxDepth \in Nat
      /\ \A i, j \in 1 .. l : stack[i].psp = stack[j].psp => i = j
      /\ \A i \in 1 .. l : stack[i].psp \notin resident
    BY ProcessAssumption DEF Inv, StackOK
<1>2. /\ stack' \in Seq(Frames) /\ Len(stack') = l + 1 /\ stack'[l + 1] = f
      /\ \A i \in 1 .. l : stack'[i] = stack[i]
    BY <1>1
<1>3. l + 1 <= MaxDepth
    BY <1>1
<1> HIDE DEF l
<1>4. \A i \in 1 .. l + 1 : i = l + 1 \/ i \in 1 .. l
    BY <1>1
<1>5. \A i \in 1 .. l : i \in 1 .. l + 1 /\ stack[i].psp # f.psp
    BY <1>1 DEF Programs, Live, l
<1>6. f.psp \notin resident
    BY DEF Programs
<1>7. \A i, j \in 1 .. l + 1 : stack'[i].psp = stack'[j].psp => i = j
    BY <1>1, <1>2, <1>4, <1>5
<1>8. \A i \in 1 .. l + 1 : stack'[i].psp \notin resident
    BY <1>1, <1>2, <1>4, <1>6
<1>9. StackOK'
    BY <1>2, <1>3, <1>7, <1>8 DEF StackOK
<1>10. Live = {stack[i].psp : i \in 1 .. l} /\ Live' = {stack'[i].psp : i \in 1 .. l + 1}
    BY <1>2 DEF Live, l
<1>11. Live' = Live \cup {f.psp}
    <2>1. l + 1 \in 1 .. l + 1
        BY <1>1
    <2> QED BY <1>2, <1>4, <1>5, <1>10, <2>1
<1> QED BY <1>9, <1>11 DEF Programs

LEMMA ReturnKeeps ==
    ASSUME Inv, Running, NEW m, Tiled(m, linked), Return(m)
    PROVE  /\ Tiled(mcb', linked') /\ Held(mcb') = Held(m)
           /\ linked' \in BOOLEAN /\ strategy' \in Strategies
           /\ stack' = SubSeq(stack, 1, Len(stack) - 1)
<1> DEFINE frame == stack[Len(stack)]
<1>1. /\ stack' = SubSeq(stack, 1, Len(stack) - 1)
      /\ IF frame.saved = {}
         THEN mcb' = m /\ UNCHANGED settings
         ELSE \E kept \in frame.saved :
                /\ mcb' = LinkUMBs(m, linked, kept.linked)
                /\ linked' = kept.linked /\ strategy' = kept.strategy
    BY DEF Return
<1>2. frame \in Frames /\ linked \in BOOLEAN /\ strategy \in Strategies
    BY TheRunning DEF Inv
<1> HIDE DEF frame
<1>3. CASE frame.saved = {}
    BY <1>1, <1>2, <1>3 DEF settings
<1>4. CASE frame.saved # {}
    <2>1. PICK kept \in frame.saved :
              /\ mcb' = LinkUMBs(m, linked, kept.linked)
              /\ linked' = kept.linked /\ strategy' = kept.strategy
        BY <1>1, <1>4
    <2>2. kept.linked \in BOOLEAN /\ kept.strategy \in Strategies
        BY <1>2, <2>1 DEF Frames, Settings
    <2>3. Tiled(LinkUMBs(m, linked, kept.linked), kept.linked) /\ Held(LinkUMBs(m, linked, kept.linked)) = Held(m)
        BY <1>2, <2>2, LinkKeeps
    <2> QED BY <1>1, <2>1, <2>2, <2>3
<1> QED BY <1>1, <1>3, <1>4

LEMMA ResidentFinite ==
    ASSUME Inv
    PROVE  IsFiniteSet(resident) /\ Cardinality(resident) \in Nat
<1>1. resident \subseteq 1 .. UmbEnd
    BY DEF Inv, Owners, Programs
<1>2. IsFiniteSet(1 .. UmbEnd)
    BY Layout, FS_Interval
<1> QED BY <1>1, <1>2, FS_Subset, FS_CardinalityType

\* The invariant of the next state from its parts.
LEMMA InvNext ==
    ASSUME Tiled(mcb', linked'), linked' \in BOOLEAN, strategy' \in Strategies, StackOK',
           Cardinality(resident') <= MaxResident, Owners(Held(mcb'), Programs'), status' = "running"
    PROVE  Inv'
<1>1. Held(mcb)' = Held(mcb') /\ Tiled(mcb, linked)' = Tiled(mcb', linked')
    BY DEF Held, ExtentOf, Tiled, Behind
<1>2. Owners(Held(mcb), Programs)' = Owners(Held(mcb'), Programs')
    BY <1>1 DEF Owners
<1> QED BY <1>1, <1>2 DEF Inv

LEMMA AllocateStep ==
    ASSUME Inv, NEW n \in Nat, Allocate(n)
    PROVE  Inv' /\ Moves
<1>1. Running /\ mcb' = AllocateMemory(mcb, strategy, psp, n).mcb /\ UNCHANGED <<settings, stack, resident, status>>
    BY DEF Allocate
<1>2. psp \in Int /\ psp # Free /\ Tiled(mcb, linked) /\ linked \in BOOLEAN /\ strategy \in Strategies
    BY <1>1, TheRunning DEF Inv
<1>3. OneMore(mcb, AllocateMemory(mcb, strategy, psp, n).mcb, linked, psp)
    BY <1>2, AllocateOne
<1> QED BY <1>1, <1>3, OneMoreMoves

LEMMA XmsAllocateUmbStep ==
    ASSUME Inv, NEW n \in Nat, XmsAllocateUmb(n)
    PROVE  Inv' /\ Moves
<1>1. Running /\ mcb' = UmbAllocated(mcb, linked, n) /\ UNCHANGED <<settings, stack, resident, status>>
    BY DEF XmsAllocateUmb
<1>2. psp \in Int /\ psp # Free /\ Tiled(mcb, linked) /\ linked \in BOOLEAN
    BY <1>1, TheRunning DEF Inv
<1>3. OneMore(mcb, UmbAllocated(mcb, linked, n), linked, psp)
    BY <1>2, UmbOne
<1> QED BY <1>1, <1>3, OneMoreMoves

LEMMA ReleaseStep ==
    ASSUME Inv, NEW a, Release(a)
    PROVE  Inv' /\ Moves
<1>1. /\ Running /\ a \in Own /\ a # psp - 1 /\ mcb' = FreeMemory(mcb, a)
      /\ UNCHANGED <<settings, stack, resident, status>>
    BY DEF Release
<1>2. psp \in Programs /\ psp \in 1 .. UmbEnd /\ psp # Dos /\ psp # Free
    BY <1>1, TheRunning
<1>3. a \in DOMAIN mcb /\ a # UmbStart /\ \A e \in Held(mcb) : e.first = a => e.owner = psp
    BY <1>1, <1>2, OwnBlock
<1>4. Tiled(mcb', linked) /\ Held(mcb') = Without(Held(mcb), {a})
    BY <1>1, <1>3, FreeMemoryKeeps DEF Inv
<1>5. Owners(Held(mcb), Programs)
    BY DEF Inv
<1>6. Owners(Without(Held(mcb), {a}), Programs) /\ OneOwner(Held(mcb), Without(Held(mcb), {a}), psp)
    BY <1>1, <1>2, <1>3, <1>5, OwnersDrop
<1>7. StackOK' /\ Programs' = Programs /\ Cardinality(resident') <= MaxResident
    BY <1>1, SameStack
<1>8. linked' = linked /\ linked' \in BOOLEAN /\ strategy' \in Strategies /\ status' = "running"
    BY <1>1 DEF Inv, settings
<1>9. Inv'
    BY <1>4, <1>6, <1>7, <1>8, InvNext
<1> QED BY <1>2, <1>4, <1>6, <1>9 DEF Moves

\* The facts that a resize of an own block leaves.
LEMMA ResizedOwn ==
    ASSUME Inv, Running, NEW a \in Own, NEW n \in Nat, NEW m, m = ResizeMemory(mcb, psp, a, n).mcb
    PROVE  Tiled(m, linked) /\ Owners(Held(m), Programs) /\ OneOwner(Held(mcb), Held(m), psp)
<1>1. psp \in Programs /\ psp \in 1 .. UmbEnd /\ psp \in Int /\ psp # Dos /\ psp # Free
    BY TheRunning
<1>2. a \in DOMAIN mcb /\ mcb[a].owner = psp /\ \A e \in Held(mcb) : e.first = a => e.owner = psp
    BY <1>1, OwnBlock
<1>3. Tiled(mcb, linked) /\ linked \in BOOLEAN /\ Owners(Held(mcb), Programs)
    BY DEF Inv
<1>4. Reheld(mcb, m, linked, psp, a)
    BY <1>1, <1>2, <1>3, ResizeKeeps
<1>5. PICK k \in Nat : Held(m) = Without(Held(mcb), {a}) \cup {Extent(psp, a, a + k)}
    BY <1>4 DEF Reheld
<1> DEFINE last == a + k
<1>6. Held(m) = Without(Held(mcb), {a}) \cup {Extent(psp, a, last)}
    BY <1>5
<1> HIDE DEF last
<1>7. Owners(Held(m), Programs) /\ OneOwner(Held(mcb), Held(m), psp)
    BY <1>1, <1>2, <1>3, <1>6, OwnersReheld
<1> QED BY <1>4, <1>7 DEF Reheld

LEMMA ResizeStep ==
    ASSUME Inv, NEW a, NEW n \in Nat, Resize(a, n)
    PROVE  Inv' /\ Moves
<1>1. /\ Running /\ a \in Own /\ mcb' = ResizeMemory(mcb, psp, a, n).mcb
      /\ UNCHANGED <<settings, stack, resident, status>>
    BY DEF Resize
<1>2. Tiled(mcb', linked) /\ Owners(Held(mcb'), Programs) /\ OneOwner(Held(mcb), Held(mcb'), psp)
    BY <1>1, ResizedOwn
<1>3. StackOK' /\ Programs' = Programs /\ Cardinality(resident') <= MaxResident
    BY <1>1, SameStack
<1>4. linked' = linked /\ linked' \in BOOLEAN /\ strategy' \in Strategies /\ status' = "running"
    BY <1>1 DEF Inv, settings
<1>5. Inv'
    BY <1>2, <1>3, <1>4, InvNext
<1>6. psp \in 1 .. UmbEnd
    BY <1>1, TheRunning
<1> QED BY <1>2, <1>5, <1>6 DEF Moves

LEMMA SetStrategyStep ==
    ASSUME Inv, NEW new \in Settable, SetStrategy(new)
    PROVE  Inv' /\ Moves
<1>1. strategy' = new /\ new \in Strategies /\ UNCHANGED <<mcb, linked, stack, resident, status>>
    BY ProcessAssumption DEF SetStrategy
<1>2. StackOK' /\ Programs' = Programs /\ Cardinality(resident') <= MaxResident
    BY <1>1, SameStack
<1>3. Tiled(mcb', linked') /\ linked' \in BOOLEAN /\ Owners(Held(mcb'), Programs') /\ status' = "running"
    BY <1>1, <1>2 DEF Inv
<1> QED BY <1>1, <1>2, <1>3, InvNext, SameBlocks

LEMMA SetLinkStep ==
    ASSUME Inv, NEW link \in BOOLEAN, SetLink(link)
    PROVE  Inv' /\ Moves
<1>1. mcb' = LinkUMBs(mcb, linked, link) /\ linked' = link /\ UNCHANGED <<strategy, stack, resident, status>>
    BY DEF SetLink
<1>2. StackOK' /\ Programs' = Programs /\ Cardinality(resident') <= MaxResident
    BY <1>1, SameStack
<1>3. Tiled(mcb', linked') /\ Held(mcb') = Held(mcb)
    BY <1>1, LinkKeeps DEF Inv
<1>4. linked' \in BOOLEAN /\ Owners(Held(mcb'), Programs') /\ status' = "running" /\ strategy' \in Strategies
    BY <1>1, <1>2, <1>3 DEF Inv
<1> QED BY <1>2, <1>3, <1>4, InvNext, SameBlocks

LEMMA ExecuteStep ==
    ASSUME Inv, NEW least \in Nat \ {0}, NEW most \in Nat, Execute(least, most)
    PROVE  Inv' /\ Moves
<1> DEFINE load == Loaded(mcb, strategy, least, most)
<1>1. /\ status = "running" /\ Len(stack) < MaxDepth /\ mcb' = load.mcb
      /\ stack' = IF load.result = "loaded" THEN Append(stack, [psp |-> load.psp, saved |-> {}]) ELSE stack
      /\ status' = IF load.result = "exited" THEN "exited" ELSE status
      /\ UNCHANGED <<settings, resident>>
    BY DEF Execute
<1>2. /\ Tiled(mcb, linked) /\ linked \in BOOLEAN /\ strategy \in Strategies /\ Owners(Held(mcb), Programs)
      /\ Cardinality(resident) <= MaxResident
    BY DEF Inv
<1>3. LoadKeeps(mcb, load, linked)
    BY <1>2, TheCaller, LoadedKeeps
<1> HIDE DEF load
<1>4. linked' = linked /\ strategy' = strategy /\ resident' = resident
    BY <1>1 DEF settings
<1>5. CASE load.result = "failed" /\ Tiled(load.mcb, linked) /\ Held(load.mcb) = Held(mcb)
    <2>1. stack' = stack /\ status' = "running" /\ Held(mcb') = Held(mcb) /\ Tiled(mcb', linked')
        BY <1>1, <1>4, <1>5
    <2>2. StackOK' /\ Programs' = Programs
        BY <1>4, <2>1, SameStack
    <2> QED BY <1>2, <1>4, <2>1, <2>2, InvNext, SameBlocks
<1>6. CASE load.result = "loaded" /\ Starts(mcb, load.mcb, linked, load.psp)
    <2> DEFINE f == [psp |-> load.psp, saved |-> {}]
    <2>1. stack' = Append(stack, f) /\ status' = "running"
        BY <1>1, <1>6
    <2>2. f \in Frames /\ f.psp = load.psp /\ load.psp \in 1 .. UmbEnd
        BY <1>6 DEF Frames, Starts
    <2>3. /\ Owners(Held(load.mcb), Programs \cup {load.psp})
          /\ OneOwner(Held(mcb), Held(load.mcb), load.psp) /\ load.psp \notin Programs
        BY <1>2, <1>6, OwnersStart
    <2> HIDE DEF f
    <2>4. StackOK' /\ Programs' = Programs \cup {f.psp}
        BY <1>1, <1>4, <2>1, <2>2, <2>3, Pushed
    <2>5. Tiled(mcb', linked')
        BY <1>1, <1>4, <1>6 DEF Starts
    <2>6. Inv'
        BY <1>1, <1>2, <1>4, <2>1, <2>2, <2>3, <2>4, <2>5, InvNext
    <2> QED BY <1>1, <2>2, <2>3, <2>6 DEF Moves
<1> QED BY <1>3, <1>5, <1>6 DEF LoadKeeps

LEMMA LoadHighStep ==
    ASSUME Inv, NEW least \in Nat \ {0}, NEW most \in Nat, LoadHigh(least, most)
    PROVE  Inv' /\ Moves
<1> DEFINE l == LinkUMBs(mcb, linked, TRUE)
           load == Loaded(l, HighFirst, least, most)
           f == [psp |-> load.psp, saved |-> {[linked |-> linked, strategy |-> strategy]}]
<1>1. /\ status = "running" /\ stack = <<>>
      /\ status' = IF load.result = "exited" THEN "exited" ELSE status
      /\ IF load.result = "loaded"
         THEN /\ mcb' = load.mcb /\ linked' = TRUE /\ strategy' = HighFirst /\ stack' = <<f>>
         ELSE /\ mcb' = LinkUMBs(load.mcb, TRUE, linked)
              /\ UNCHANGED <<settings, stack>>
      /\ UNCHANGED resident
    BY DEF LoadHigh
<1>2. /\ Tiled(mcb, linked) /\ linked \in BOOLEAN /\ strategy \in Strategies /\ Owners(Held(mcb), Programs)
      /\ Cardinality(resident) <= MaxResident
    BY DEF Inv
<1>3. Tiled(l, TRUE) /\ Held(l) = Held(mcb)
    BY <1>2, LinkKeeps
<1>4. HighFirst \in Strategies
    BY DEF HighFirst, Strategies
<1> HIDE DEF l
<1>5. LoadKeeps(l, load, TRUE)
    BY <1>3, <1>4, TheCaller, LoadedKeeps
<1> HIDE DEF load
<1>6. CASE load.result = "failed" /\ Tiled(load.mcb, TRUE) /\ Held(load.mcb) = Held(l)
    <2>1. /\ mcb' = LinkUMBs(load.mcb, TRUE, linked) /\ UNCHANGED <<stack, resident>>
          /\ linked' = linked /\ strategy' = strategy /\ status' = "running"
        BY <1>1, <1>6 DEF settings
    <2>2. Tiled(mcb', linked') /\ Held(mcb') = Held(mcb)
        <3>1. /\ Tiled(LinkUMBs(load.mcb, TRUE, linked), linked)
              /\ Held(LinkUMBs(load.mcb, TRUE, linked)) = Held(load.mcb)
            BY <1>2, <1>6, LinkKeeps
        <3> QED BY <1>3, <1>6, <2>1, <3>1
    <2>3. StackOK' /\ Programs' = Programs /\ Cardinality(resident') <= MaxResident
        BY <2>1, SameStack
    <2> QED BY <1>2, <2>1, <2>2, <2>3, InvNext, SameBlocks
<1>7. CASE load.result = "loaded" /\ Starts(l, load.mcb, TRUE, load.psp)
    <2>1. stack' = <<f>> /\ status' = "running" /\ mcb' = load.mcb /\ linked' = TRUE /\ strategy' = HighFirst
        BY <1>1, <1>7
    <2>2. f \in Frames /\ f.psp = load.psp /\ load.psp \in 1 .. UmbEnd
        <3>1. [linked |-> linked, strategy |-> strategy] \in Settings
            BY <1>2 DEF Settings
        <3>2. load.psp \in 1 .. UmbEnd
            BY <1>7 DEF Starts
        <3> QED BY <3>1, <3>2 DEF Frames
    <2> HIDE DEF f
    <2>3. /\ Owners(Held(load.mcb), Programs \cup {load.psp})
          /\ OneOwner(Held(mcb), Held(load.mcb), load.psp) /\ load.psp \notin Programs
        BY <1>2, <1>3, <1>7, OwnersStart
    <2>4. StackOK' /\ Programs' = Programs \cup {f.psp}
        <3>1. stack' = Append(stack, f) /\ Len(stack) < MaxDepth
            BY <1>1, <2>1, ProcessAssumption
        <3> QED BY <1>1, <2>2, <2>3, <3>1, Pushed
    <2>5. Tiled(mcb', linked')
        BY <1>7, <2>1 DEF Starts
    <2>6. Inv'
        BY <1>1, <1>2, <1>4, <2>1, <2>2, <2>3, <2>4, <2>5, InvNext
    <2> QED BY <2>1, <2>2, <2>3, <2>6 DEF Moves
<1> QED BY <1>5, <1>6, <1>7 DEF LoadKeeps

LEMMA TerminateStep ==
    ASSUME Inv, Terminate
    PROVE  Inv' /\ Moves
<1> DEFINE m == FreeProcessMemory(mcb, psp)
<1>1. Running /\ Return(m) /\ resident' = resident /\ status' = "running"
    BY DEF Terminate, Inv
<1>2. psp \in 1 .. UmbEnd /\ psp # Dos /\ psp \notin resident
    BY <1>1, TheRunning
<1>3. Tiled(m, linked) /\ Held(m) = {e \in Held(mcb) : e.owner # psp}
    BY <1>2, ProcessFreed DEF Inv
<1> HIDE DEF m
<1>4. /\ Tiled(mcb', linked') /\ Held(mcb') = Held(m)
      /\ linked' \in BOOLEAN /\ strategy' \in Strategies
      /\ stack' = SubSeq(stack, 1, Len(stack) - 1)
    BY <1>1, <1>3, ReturnKeeps
<1>5. /\ stack' \in Seq(Frames) /\ Len(stack') <= MaxDepth
      /\ \A i, j \in 1 .. Len(stack') : stack'[i].psp = stack'[j].psp => i = j
      /\ \A i \in 1 .. Len(stack') : stack'[i].psp \notin resident \cup {psp}
      /\ Live' = Live \ {psp}
    BY <1>1, <1>4, Popped
<1>6. StackOK' /\ Programs' = Programs \ {psp}
    BY <1>1, <1>2, <1>5 DEF StackOK, Programs
<1>7. Owners(Held(mcb), Programs)
    BY DEF Inv
<1>8. Owners(Held(mcb'), Programs \ {psp}) /\ OneOwner(Held(mcb), Held(mcb'), psp)
    BY <1>3, <1>4, <1>7, OwnersEnd
<1>9. Inv'
    <2>1. Cardinality(resident') <= MaxResident
        BY <1>1 DEF Inv
    <2> QED BY <1>1, <1>4, <1>6, <1>8, <2>1, InvNext
<1> QED BY <1>2, <1>8, <1>9 DEF Moves

LEMMA StayResidentStep ==
    ASSUME Inv, NEW n \in Nat, NEW strict \in BOOLEAN, StayResident(n, strict)
    PROVE  Inv' /\ Moves
<1> DEFINE resized == ResizeMemory(mcb, psp, psp - 1, n)
           m == resized.mcb
<1>1. /\ Running /\ Cardinality(resident) < MaxResident /\ status' = "running"
      /\ IF strict /\ ~resized.ok
         THEN mcb' = m /\ UNCHANGED <<settings, stack, resident>>
         ELSE Return(m) /\ resident' = resident \cup {psp}
    BY DEF StayResident, Inv
<1>2. psp \in Programs /\ psp \in Live /\ psp \in 1 .. UmbEnd /\ psp \notin resident
    BY <1>1, TheRunning
<1>3. psp - 1 \in Own
    <2>1. PICK e \in Held(mcb) : e.owner = psp /\ e.first = psp - 1
        BY <1>2 DEF Inv, Owners
    <2> QED BY <2>1, HeldFirst DEF Own, Busy
<1> DEFINE a == psp - 1
<1>4. Tiled(m, linked) /\ Owners(Held(m), Programs) /\ OneOwner(Held(mcb), Held(m), psp)
    <2>1. m = ResizeMemory(mcb, psp, a, n).mcb /\ a \in Own
        BY <1>3
    <2> HIDE DEF m, a
    <2> QED BY <1>1, <2>1, ResizedOwn
<1> HIDE DEF resized, m, a
<1>5. CASE mcb' = m /\ UNCHANGED <<settings, stack, resident>>
    <2>1. StackOK' /\ Programs' = Programs /\ Cardinality(resident') <= MaxResident
        BY <1>5, SameStack
    <2>2. linked' = linked /\ linked' \in BOOLEAN /\ strategy' \in Strategies
        BY <1>5 DEF Inv, settings
    <2>3. Inv'
        BY <1>1, <1>4, <1>5, <2>1, <2>2, InvNext
    <2> QED BY <1>2, <1>4, <1>5, <2>3 DEF Moves
<1>6. CASE Return(m) /\ resident' = resident \cup {psp}
    <2>1. /\ Tiled(mcb', linked') /\ Held(mcb') = Held(m)
          /\ linked' \in BOOLEAN /\ strategy' \in Strategies
          /\ stack' = SubSeq(stack, 1, Len(stack) - 1)
        BY <1>1, <1>4, <1>6, ReturnKeeps
    <2>2. /\ stack' \in Seq(Frames) /\ Len(stack') <= MaxDepth
          /\ \A i, j \in 1 .. Len(stack') : stack'[i].psp = stack'[j].psp => i = j
          /\ \A i \in 1 .. Len(stack') : stack'[i].psp \notin resident \cup {psp}
          /\ Live' = Live \ {psp}
        BY <1>1, <2>1, Popped
    <2>3. StackOK' /\ Programs' = Programs
        BY <1>2, <1>6, <2>2 DEF StackOK, Programs
    <2>4. Cardinality(resident') <= MaxResident
        <3>1. Cardinality(resident') = Cardinality(resident) + 1 /\ Cardinality(resident) \in Nat
            BY <1>2, <1>6, ResidentFinite, FS_AddElement
        <3>2. MaxResident \in Nat
            BY ProcessAssumption
        <3> QED BY <1>1, <3>1, <3>2
    <2>5. Inv'
        BY <1>1, <1>4, <2>1, <2>3, <2>4, InvNext
    <2> QED BY <1>2, <1>4, <2>1, <2>5 DEF Moves
<1> QED BY <1>1, <1>5, <1>6

LEMMA StepHolds ==
    ASSUME Inv, [Next]_vars
    PROVE  Inv' /\ (Moves \/ UNCHANGED mcb)
<1>1. CASE UNCHANGED vars
    <2>1. /\ mcb' = mcb /\ linked' = linked /\ strategy' = strategy /\ status' = status
          /\ UNCHANGED <<stack, resident>>
        BY <1>1 DEF vars, settings
    <2>2. StackOK' /\ Programs' = Programs /\ Cardinality(resident') <= MaxResident
        BY <2>1, SameStack
    <2> QED BY <2>1, <2>2, InvNext DEF Inv
<1>2. ASSUME NEW n \in Sizes, Allocate(n) \/ XmsAllocateUmb(n) PROVE Inv' /\ Moves
    <2>1. n \in Nat
        BY ProcessAssumption
    <2> QED BY <1>2, <2>1, AllocateStep, XmsAllocateUmbStep
<1>3. ASSUME NEW a \in DOMAIN mcb, Release(a) PROVE Inv' /\ Moves
    BY <1>3, ReleaseStep
<1>4. ASSUME NEW a \in DOMAIN mcb, NEW n \in Sizes, Resize(a, n) PROVE Inv' /\ Moves
    <2>1. n \in Nat
        BY ProcessAssumption
    <2> QED BY <1>4, <2>1, ResizeStep
<1>5. ASSUME NEW new \in Settable, SetStrategy(new) PROVE Inv' /\ Moves
    BY <1>5, SetStrategyStep
<1>6. ASSUME NEW link \in BOOLEAN, SetLink(link) PROVE Inv' /\ Moves
    BY <1>6, SetLinkStep
<1>7. ASSUME NEW need \in Needs, Execute(need[1], need[2]) \/ LoadHigh(need[1], need[2]) PROVE Inv' /\ Moves
    <2>1. need[1] \in Nat \ {0} /\ need[2] \in Nat
        BY ProcessAssumption
    <2> DEFINE least == need[1]
               most == need[2]
    <2>2. least \in Nat \ {0} /\ most \in Nat /\ (Execute(least, most) \/ LoadHigh(least, most))
        BY <1>7, <2>1
    <2> HIDE DEF least, most
    <2> QED BY <2>2, ExecuteStep, LoadHighStep
<1>8. CASE Terminate
    BY <1>8, TerminateStep
<1>9. ASSUME NEW n \in Sizes \ {0}, NEW strict \in BOOLEAN, StayResident(n, strict) PROVE Inv' /\ Moves
    <2>1. n \in Nat
        BY ProcessAssumption
    <2> QED BY <1>9, <2>1, StayResidentStep
<1> QED BY <1>1, <1>2, <1>3, <1>4, <1>5, <1>6, <1>7, <1>8, <1>9 DEF Next, CallMemory, CallProcess

LEMMA Always == Spec => []Inv
<1>1. Inv /\ [Next]_vars => Inv'
    BY StepHolds
<1> QED BY InitHolds, <1>1, PTL DEF Spec

-----------------------------------------------------------------------------
(* The theorems *)

LEMMA TypesHold == Inv => TypeOK
<1> SUFFICES ASSUME Inv PROVE TypeOK
    OBVIOUS
<1>1. /\ Tiled(mcb, linked) /\ linked \in BOOLEAN /\ strategy \in Strategies
      /\ Len(stack) <= MaxDepth /\ Cardinality(resident) <= MaxResident
      /\ Owners(Held(mcb), Programs) /\ status = "running"
    BY DEF Inv, StackOK
<1>2. ASSUME NEW a \in DOMAIN mcb
      PROVE  mcb[a].owner \in {Free, Dos, Lock} \cup 1 .. UmbEnd /\ mcb[a].size \in 0 .. UmbEnd /\ mcb[a].last \in BOOLEAN
    <2>1. /\ a \in Nat /\ mcb[a].size \in Nat /\ mcb[a].last \in BOOLEAN /\ UmbEnd \in Nat
          /\ Behind(mcb, a) <= UmbEnd /\ Behind(mcb, a) = a + mcb[a].size + 1
        BY <1>1, TileFacts, Layout
    <2>2. mcb[a].owner # Free => mcb[a].owner \in {Dos, Lock} \cup 1 .. UmbEnd
        <3>1. mcb[a].owner # Free => ExtentOf(mcb, a) \in Held(mcb)
            BY DEF Held
        <3>2. ExtentOf(mcb, a).owner = mcb[a].owner
            BY DEF ExtentOf
        <3>3. \A e \in Held(mcb) : e.owner \in {Dos, Lock} \cup 1 .. UmbEnd
            BY <1>1 DEF Owners
        <3> QED BY <3>1, <3>2, <3>3
    <2> QED BY <2>1, <2>2
<1>3. DOMAIN mcb \subseteq First .. UmbEnd - 1
    BY <1>1 DEF Tiled
<1> QED BY <1>1, <1>2, <1>3 DEF TypeOK

LEMMA WholeHolds == Inv => ChainsWhole
<1> SUFFICES ASSUME Inv PROVE ChainsWhole
    OBVIOUS
<1> DEFINE low == Walk(mcb, First)
           high == Walk(mcb, UmbStart)
           a == low[Len(low)]
           b == high[Len(high)]
<1>1. Tiled(mcb, linked) /\ linked \in BOOLEAN
    BY DEF Inv
<1>2. /\ Visited(low) = LowPart(mcb, linked) /\ Visited(high) = HighPart(mcb)
      /\ low \in Seq(LowPart(mcb, linked)) /\ high \in Seq(HighPart(mcb)) /\ low # <<>> /\ high # <<>>
      /\ Behind(mcb, a) = EndOfLow(linked) /\ Behind(mcb, b) = UmbEnd
    BY <1>1, Walks
<1> HIDE DEF low, high
<1>3. a \in LowPart(mcb, linked) /\ b \in HighPart(mcb)
    BY <1>2
<1>4. a \in DOMAIN mcb /\ b \in DOMAIN mcb
    BY <1>3 DEF LowPart, HighPart
<1>5. \A c \in DOMAIN mcb : mcb[c].last <=> Behind(mcb, c) = UmbEnd \/ (Behind(mcb, c) = UmbStart /\ ~linked)
    BY <1>1 DEF Tiled
<1>6. mcb[b].last /\ Behind(mcb, b) = UmbEnd
    BY <1>2, <1>4, <1>5
<1>7. mcb[a].last /\ Behind(mcb, a) = IF linked THEN UmbEnd ELSE UmbStart
    BY <1>2, <1>4, <1>5 DEF EndOfLow
<1>8. \A c \in DOMAIN mcb : c \in Nat
    BY <1>1, TileFacts
<1>9. UmbStart \in Nat /\ UmbStart \in DOMAIN mcb
    BY <1>1, Layout DEF Tiled
<1>10. Visited(low) \cup Visited(high) = DOMAIN mcb
    <2>1. \A c \in DOMAIN mcb : c < UmbStart \/ UmbStart <= c
        BY <1>8, <1>9
    <2>2. LowPart(mcb, linked) \cup HighPart(mcb) = DOMAIN mcb
        BY <2>1 DEF LowPart, HighPart
    <2> QED BY <1>2, <2>2
<1>11. linked <=> UmbStart \in Visited(low)
    BY <1>1, <1>2, <1>9 DEF LowPart
<1>12. TypeOK
    BY TypesHold
<1> QED BY <1>6, <1>7, <1>10, <1>11, <1>12 DEF ChainsWhole, low, high

\* Both chains are whole in every state: joining and cutting blocks, freeing a program's
\* and linking upper memory never lose a header or run past an end (DOS_AllocateMemory,
\* DOS_ResizeMemory, DOS_CompressMemory, DOS_LinkUMBsToMemChain).
THEOREM ChainsStayWhole == Spec => []ChainsWhole
BY Always, WholeHolds, PTL

LEMMA NoLeak == Inv => NothingLeaks
<1> SUFFICES ASSUME Inv, NEW a \in DOMAIN mcb
             PROVE  mcb[a].owner \in {Free, Dos, Lock} \cup Live \cup resident
    BY DEF NothingLeaks
<1>1. CASE mcb[a].owner = Free
    BY <1>1
<1>2. CASE mcb[a].owner # Free
    <2>1. ExtentOf(mcb, a) \in Held(mcb) /\ ExtentOf(mcb, a).owner = mcb[a].owner
        BY <1>2 DEF Held, ExtentOf
    <2>2. \A e \in Held(mcb) : e.owner \in {Dos, Lock} \cup Programs
        BY DEF Inv, Owners
    <2>3. mcb[a].owner \in {Dos, Lock} \cup Programs
        BY <2>1, <2>2
    <2> QED BY <2>3 DEF Programs
<1> QED BY <1>1, <1>2

\* A program that has ended leaves no block behind in either chain, whatever the link was
\* (DOS_FreeProcessMemory), nor a start that failed its environment (DOS_Execute).
THEOREM NothingIsLeft == Spec => []NothingLeaks
BY Always, NoLeak, PTL

LEMMA Prefixes == Inv => PrefixKept
<1> SUFFICES ASSUME Inv, NEW p \in Live \cup resident PROVE p - 1 \in DOMAIN mcb /\ mcb[p - 1].owner = p
    BY DEF PrefixKept
<1>1. PICK e \in Held(mcb) : e.owner = p /\ e.first = p - 1
    BY DEF Inv, Owners, Programs
<1> QED BY <1>1, HeldFirst DEF Busy

\* A program keeps the block that its prefix is in until it ends, and a resident one for ever:
\* no call of another program, and none of its own, frees it or gives it away.
THEOREM PrefixesKept == Spec => []PrefixKept
BY Always, Prefixes, PTL

\* A start takes what the failed request for everything reported, and finds it in every
\* strategy and on either chain (DOS_Execute's E_Exit is never reached).
THEOREM StartNeverExits == Spec => []ExecNeverExits
<1>1. Inv => ExecNeverExits
    BY DEF Inv, ExecNeverExits
<1> QED BY Always, <1>1, PTL

LEMMA ExtentsHeld == Extents = Held(mcb)
BY DEF Extents, Held, ExtentOf

\* Blocks never overlap, and each step changes the blocks of one program only: the model
\* implements the arena that DosArena promises.
THEOREM ArenaImplemented == Spec => ArenaSpec
<1>1. Init => Arena!Init
    <2> SUFFICES ASSUME Init PROVE Arena!Init
        OBVIOUS
    <2>1. Inv /\ Programs = {}
        BY InitHolds DEF Init, Programs, Live
    <2>2. Arena!Disjoint(Held(mcb))
        BY <2>1, TiledDisjoint DEF Inv
    <2>3. \A e \in Held(mcb) : e.owner \in {Dos, Lock}
        BY <2>1 DEF Inv, Owners
    <2> QED BY <2>2, <2>3, ExtentsHeld DEF Arena!Init
<1>2. Inv /\ [Next]_vars => [Arena!Next]_Extents
    <2> SUFFICES ASSUME Inv, [Next]_vars PROVE [Arena!Next]_Extents
        OBVIOUS
    <2>1. Inv' /\ (Moves \/ UNCHANGED mcb)
        BY StepHolds
    <2>2. Extents = Held(mcb) /\ Extents' = Held(mcb')
        BY DEF Extents, Held, ExtentOf
    <2>3. Arena!Disjoint(Held(mcb'))
        <3>1. Tiled(mcb', linked') /\ linked' \in BOOLEAN
            <4>1. Tiled(mcb, linked)' = Tiled(mcb', linked')
                BY DEF Tiled, Behind
            <4> QED BY <2>1, <4>1 DEF Inv
        <3> QED BY <3>1, TiledDisjoint
    <2>4. CASE Extents' = Extents
        BY <2>4
    <2>5. CASE Extents' # Extents
        <3> DEFINE changed == (Extents \ Extents') \cup (Extents' \ Extents)
        <3>1. mcb' # mcb
            BY <2>2, <2>5
        <3>2. PICK p \in 1 .. UmbEnd : OneOwner(Held(mcb), Held(mcb'), p)
            BY <2>1, <3>1 DEF Moves
        <3>3. \A e \in changed : e.owner = p
            BY <2>2, <3>2 DEF OneOwner
        <3>4. changed # {}
            BY <2>5
        <3>5. p \in {e.owner : e \in changed} \ {Dos, Lock}
            <4>1. p # Dos /\ p # Lock
                BY Layout DEF Dos, Lock
            <4> QED BY <3>3, <3>4, <4>1
        <3>6. Arena!Next
            BY <2>2, <2>3, <3>3, <3>5 DEF Arena!Next
        <3> QED BY <3>6
    <2> QED BY <2>4, <2>5
<1> QED BY <1>1, <1>2, Always, PTL DEF Spec, ArenaSpec, Arena!Spec
=============================================================================
