------------------------ MODULE ExtendedMemoryProofs ------------------------
(***************************************************************************)
(* Proofs about ExtendedMemory for every amount of memory and every number *)
(* and size of blocks: the chains of the blocks never meet and no page is  *)
(* lost, blocks of XMS stay consecutive, the window shows what the table   *)
(* says, and an allocation that was checked before never ends in an exit.  *)
(***************************************************************************)
EXTENDS ExtendedMemory, FiniteSetTheorems, SequenceTheorems, TLAPS

-----------------------------------------------------------------------------
(* Numbers *)

LEMMA LeastOf ==
    ASSUME NEW S, S \subseteq Nat, S # {}
    PROVE  \E x \in S : \A y \in S : x <= y
<1> DEFINE less == {p \in Nat \X Nat : p[1] < p[2]}
<1>1. IsWellFoundedOn(less, Nat)
    BY NatLessThanWellFounded DEF OpToRel
<1> HIDE DEF less
<1>2. PICK x \in S : \A y \in S : <<y, x>> \notin less
    BY <1>1, WFMin
<1> USE DEF less
<1>3. \A y \in S : ~(y < x)
    BY <1>2
<1>4. \A y \in S : x <= y
    BY <1>3
<1> QED BY <1>4

LEMMA PagesFinite ==
    /\ LastPage \in Nat /\ LastPage > 0 /\ Pages \subseteq Nat /\ Cardinality(Pages) = LastPage
    /\ \A p : p \in Pages <=> p \in Nat /\ 1 <= p /\ p <= LastPage
    /\ \A S \in SUBSET Pages : IsFiniteSet(S) /\ Cardinality(S) \in Nat /\ Cardinality(S) <= LastPage
<1>1. LastPage \in Nat /\ LastPage > 0
    BY PagesAssumption
<1>2. IsFiniteSet(Pages) /\ Cardinality(Pages) = LastPage
    BY <1>1, FS_Interval DEF Pages
<1>3. \A p : p \in Pages <=> p \in Nat /\ 1 <= p /\ p <= LastPage
    BY <1>1 DEF Pages
<1>4. ASSUME NEW S \in SUBSET Pages
      PROVE  IsFiniteSet(S) /\ Cardinality(S) \in Nat /\ Cardinality(S) <= LastPage
    BY <1>2, FS_Subset, FS_CardinalityType
<1> QED BY <1>1, <1>2, <1>3, <1>4

\* A rank of two parts, the second of them below the base, tells its pages apart.
LEMMA RankApart ==
    ASSUME NEW n \in Nat, NEW a \in Nat, NEW b \in Nat, NEW p \in 1 .. n, NEW q \in 1 .. n,
           a * (n + 1) + p = b * (n + 1) + q
    PROVE  p = q
<1>1. ASSUME NEW x \in Nat, NEW y \in Nat, x < y PROVE x * (n + 1) + n + 1 <= y * (n + 1)
    <2>1. x + 1 <= y
        BY <1>1
    <2>2. (x + 1) * (n + 1) <= y * (n + 1)
        BY <2>1
    <2>3. (x + 1) * (n + 1) = x * (n + 1) + n + 1
        OBVIOUS
    <2> QED BY <2>2, <2>3
<1> DEFINE s == a * (n + 1)
           t == b * (n + 1)
<1>2. s \in Nat /\ t \in Nat
    OBVIOUS
<1>3. (a < b => s + n + 1 <= t) /\ (b < a => t + n + 1 <= s) /\ (a = b => s = t)
    BY <1>1
<1>4. s + p = t + q
    OBVIOUS
<1> HIDE DEF s, t
<1>5. p \in Nat /\ q \in Nat /\ p >= 1 /\ q >= 1 /\ p <= n /\ q <= n
    OBVIOUS
<1> QED BY <1>2, <1>3, <1>4, <1>5

\* Of the pages of a finite set that a rank tells apart, one has k - 1 below it.
Below(D, rank, p) == {q \in D : rank[q] < rank[p]}

LEMMA KthRank ==
    ASSUME NEW D, D \subseteq Pages, NEW rank, \A p \in D : rank[p] \in Nat,
           \A p, q \in D : rank[p] = rank[q] => p = q, NEW k \in 1 .. Cardinality(D)
    PROVE  \E p \in D : Cardinality(Below(D, rank, p)) = k - 1
<1> DEFINE n == Cardinality(D)
           f == [p \in D |-> Cardinality(Below(D, rank, p)) + 1]
<1>1. IsFiniteSet(D) /\ n \in Nat
    BY PagesFinite
<1>2. ASSUME NEW p \in D
      PROVE  /\ Below(D, rank, p) \cup {p} \subseteq D /\ p \notin Below(D, rank, p) /\ IsFiniteSet(Below(D, rank, p))
             /\ Cardinality(Below(D, rank, p)) \in Nat /\ Cardinality(Below(D, rank, p)) + 1 <= n
    <2>1. Below(D, rank, p) \cup {p} \subseteq D
        BY DEF Below
    <2>2. p \notin Below(D, rank, p)
        BY DEF Below
    <2>3. IsFiniteSet(Below(D, rank, p)) /\ Cardinality(Below(D, rank, p)) \in Nat
        BY <1>1, <2>1, FS_Subset, FS_CardinalityType
    <2>4. Cardinality(Below(D, rank, p) \cup {p}) = Cardinality(Below(D, rank, p)) + 1
        BY <2>2, <2>3, FS_AddElement
    <2>5. Cardinality(Below(D, rank, p) \cup {p}) <= n
        BY <1>1, <2>1, FS_Subset
    <2> QED BY <2>1, <2>2, <2>3, <2>4, <2>5
<1>3. ASSUME NEW p \in D, NEW q \in D, rank[p] < rank[q]
      PROVE  Cardinality(Below(D, rank, p)) < Cardinality(Below(D, rank, q))
    <2>1. Below(D, rank, p) \cup {p} \subseteq Below(D, rank, q)
        BY <1>3 DEF Below
    <2>2. Cardinality(Below(D, rank, p) \cup {p}) = Cardinality(Below(D, rank, p)) + 1
        BY <1>2, FS_AddElement
    <2>3. Cardinality(Below(D, rank, p) \cup {p}) <= Cardinality(Below(D, rank, q))
        BY <1>2, <2>1, FS_Subset
    <2> QED BY <1>2, <2>2, <2>3
<1>4. f \in Injection(D, 1 .. n)
    <2>1. f \in [D -> 1 .. n]
        BY <1>1, <1>2
    <2>2. ASSUME NEW p \in D, NEW q \in D, f[p] = f[q] PROVE p = q
        <3>1. Cardinality(Below(D, rank, p)) = Cardinality(Below(D, rank, q))
            BY <1>2, <2>2
        <3>2. ~(rank[p] < rank[q]) /\ ~(rank[q] < rank[p])
            BY <1>2, <1>3, <3>1
        <3> QED BY <3>2
    <2> HIDE DEF f
    <2> QED BY <2>1, <2>2 DEF Injection, IsInjective
<1>5. f \in Surjection(D, 1 .. n)
    <2>1. IsFiniteSet(1 .. n) /\ Cardinality(1 .. n) = n
        BY <1>1, FS_Interval
    <2> HIDE DEF f
    <2>2. Cardinality(D) = Cardinality(1 .. n) <=> f \in Surjection(D, 1 .. n)
        BY <1>4, <2>1, FS_Injection
    <2> QED BY <2>1, <2>2
<1>6. PICK p \in D : f[p] = k
    <2> HIDE DEF f
    <2> QED BY <1>5 DEF Surjection
<1> QED BY <1>2, <1>6

-----------------------------------------------------------------------------
(* Chains *)

\* Below mh is any value of memory.mhandles.
Types == [Pages -> {-1, 0} \cup Pages]

LEMMA TypesAre ==
    ASSUME NEW mh \in Types, NEW p \in Pages
    PROVE  mh[p] \in Int /\ (mh[p] = 0 \/ mh[p] = -1 \/ mh[p] \in Pages) /\ DOMAIN mh = Pages
BY PagesFinite DEF Types

\* A chain of pages: each links to the next one, and the last one ends it.
IsChain(mh, c) ==
    /\ c \in Seq(Pages) /\ c # <<>>
    /\ \A i, j \in 1 .. Len(c) : c[i] = c[j] => i = j
    /\ \A k \in 1 .. Len(c) : mh[c[k]] = IF k = Len(c) THEN -1 ELSE c[k + 1]

LEMMA CellsOf ==
    ASSUME NEW c \in Seq(Pages)
    PROVE  /\ Cells(c) \subseteq Pages
           /\ \A k \in 1 .. Len(c) : c[k] \in Cells(c) /\ c[k] \in Pages
           /\ \A p \in Cells(c) : \E k \in 1 .. Len(c) : c[k] = p
BY DEF Cells

\* A sequence without repetition has as many cells as places, and so fits into memory.
LEMMA CellsCounted ==
    ASSUME NEW c \in Seq(Pages), \A i, j \in 1 .. Len(c) : c[i] = c[j] => i = j
    PROVE  Cardinality(Cells(c)) = Len(c) /\ Len(c) \in Nat /\ Len(c) <= LastPage
<1> DEFINE S == 1 .. Len(c)
           f == [k \in S |-> c[k]]
<1>1. Len(c) \in Nat /\ IsFiniteSet(S) /\ Cardinality(S) = Len(c)
    BY FS_Interval
<1>2. f \in Surjection(S, Cells(c))
    <2>1. f \in [S -> Cells(c)]
        BY CellsOf
    <2>2. \A p \in Cells(c) : \E k \in S : f[k] = p
        BY CellsOf
    <2> HIDE DEF f, S
    <2> QED BY <2>1, <2>2 DEF Surjection
<1>3. f \in Injection(S, Cells(c))
    <2>1. \A i, j \in S : f[i] = f[j] => i = j
        OBVIOUS
    <2> HIDE DEF f, S
    <2> QED BY <1>2, <2>1 DEF Surjection, Injection, IsInjective
<1> HIDE DEF f, S
<1>4. Cardinality(Cells(c)) = Cardinality(S)
    BY <1>1, <1>2, <1>3, FS_Surjection
<1>5. Cardinality(Cells(c)) <= LastPage
    BY CellsOf, PagesFinite
<1> QED BY <1>1, <1>4, <1>5

LEMMA ChainFacts ==
    ASSUME NEW mh, NEW c, IsChain(mh, c)
    PROVE  /\ c \in Seq(Pages) /\ Len(c) \in Nat /\ Len(c) >= 1 /\ Len(c) <= LastPage
           /\ Cardinality(Cells(c)) = Len(c)
           /\ c[1] \in Pages /\ c[Len(c)] \in Pages
           /\ \A k \in 1 .. Len(c) : c[k] \in Pages /\ c[k] \in Nat /\ c[k] > 0 /\ c[k] \in Cells(c)
           /\ \A k \in 1 .. Len(c) : mh[c[k]] = IF k = Len(c) THEN -1 ELSE c[k + 1]
<1>1. c \in Seq(Pages) /\ c # <<>> /\ Len(c) \in Nat
    BY DEF IsChain
<1>2. Len(c) # 0
    BY <1>1
<1>3. \A i, j \in 1 .. Len(c) : c[i] = c[j] => i = j
    BY DEF IsChain
<1>4. Len(c) <= LastPage /\ Cardinality(Cells(c)) = Len(c)
    BY <1>1, <1>3, CellsCounted
<1>5. \A k \in 1 .. Len(c) : c[k] \in Pages /\ c[k] \in Nat /\ c[k] > 0 /\ c[k] \in Cells(c)
    BY <1>1, CellsOf, PagesFinite
<1> QED BY <1>1, <1>2, <1>4, <1>5 DEF IsChain

\* The function behind Chain and NextHandleAt, over a chain: its pages, and then nothing.
Visits(mh, first, g, from, to) ==
    g = [k \in from .. to |-> IF k = from THEN first ELSE After(mh, g[k - 1])]

LEMMA AfterIs ==
    ASSUME NEW mh, NEW c, IsChain(mh, c), NEW k \in 1 .. Len(c)
    PROVE  After(mh, c[k]) = IF k = Len(c) THEN -1 ELSE c[k + 1]
BY ChainFacts DEF After

\* The page in the k-th place, counted from one.
Place(c, k) == IF k <= Len(c) THEN c[k] ELSE -1

LEMMA AfterPlace ==
    ASSUME NEW mh, NEW c, IsChain(mh, c), NEW k \in Nat, k >= 1
    PROVE  After(mh, Place(c, k)) = Place(c, k + 1)
<1>1. Len(c) \in Nat
    BY ChainFacts
<1>2. CASE k <= Len(c)
    <2>1. k \in 1 .. Len(c)
        BY <1>1, <1>2
    <2> QED BY <1>1, <1>2, <2>1, AfterIs DEF Place
<1>3. CASE k > Len(c)
    BY <1>1, <1>3 DEF Place, After
<1> QED BY <1>1, <1>2, <1>3

LEMMA VisitsOnce ==
    ASSUME NEW mh, NEW first, NEW from \in {0, 1}, NEW to \in Nat,
           NEW g, Visits(mh, first, g, from, to), NEW h, Visits(mh, first, h, from, to)
    PROVE  g = h
<1> DEFINE Bad == {k \in from .. to : g[k] # h[k]}
<1>1. /\ \A k \in from .. to : g[k] = IF k = from THEN first ELSE After(mh, g[k - 1])
      /\ \A k \in from .. to : h[k] = IF k = from THEN first ELSE After(mh, h[k - 1])
    BY DEF Visits
<1>2. g = [k \in from .. to |-> g[k]] /\ h = [k \in from .. to |-> h[k]]
    BY DEF Visits
<1>3. ASSUME Bad # {} PROVE FALSE
    <2>1. Bad \subseteq Nat
        OBVIOUS
    <2>2. PICK k \in Bad : \A j \in Bad : k <= j
        <3> HIDE DEF Bad
        <3> QED BY <1>3, <2>1, LeastOf
    <2>3. k \in from .. to /\ k \in Nat /\ g[k] # h[k]
        BY <2>2
    <2>4. k # from
        BY <1>1, <2>3
    <2>5. k - 1 \in from .. to /\ k - 1 < k
        BY <2>3, <2>4
    <2>6. k - 1 \notin Bad
        <3> HIDE DEF Bad
        <3> QED BY <2>2, <2>3, <2>5
    <2>7. g[k - 1] = h[k - 1]
        BY <2>5, <2>6
    <2> QED BY <1>1, <2>3, <2>4, <2>7
<1>4. \A k \in from .. to : g[k] = h[k]
    BY <1>3
<1> QED BY <1>2, <1>4

\* Chain ends where what it visits is no page any more.
Firsts(h, n) == [k \in 1 .. n |-> h[k]]

LEMMA ChainOf ==
    ASSUME NEW mh, NEW first, NEW h, Visits(mh, first, h, 1, LastPage),
           NEW n \in 0 .. LastPage, \A k \in 1 .. LastPage : h[k] > 0 <=> k <= n
    PROVE  Chain(mh, first) = Firsts(h, n)
<1> DEFINE at == CHOOSE g : Visits(mh, first, g, 1, LastPage)
           S  == {k \in 1 .. LastPage : at[k] > 0}
<1>1. LastPage \in Nat /\ n \in Nat /\ n <= LastPage
    BY PagesFinite
<1>2. Visits(mh, first, at, 1, LastPage)
    OBVIOUS
<1> HIDE DEF at
<1>3. at = h
    BY <1>1, <1>2, VisitsOnce
<1>4. S = 1 .. n
    BY <1>1, <1>3
<1>5. Cardinality(S) = n
    <2>1. Cardinality(1 .. n) = n
        BY <1>1, FS_Interval
    <2> HIDE DEF S
    <2> QED BY <1>4, <2>1
<1>6. Chain(mh, first) = [k \in 1 .. Cardinality(S) |-> at[k]]
    BY DEF Chain, at, Visits
<1> HIDE DEF S
<1> QED BY <1>3, <1>5, <1>6 DEF Firsts

LEMMA VisitsChain ==
    ASSUME NEW mh, NEW c, IsChain(mh, c), NEW from \in {0, 1}, NEW to \in Nat
    PROVE  Visits(mh, c[1], [k \in from .. to |-> Place(c, k + 1 - from)], from, to)
<1> DEFINE g == [k \in from .. to |-> Place(c, k + 1 - from)]
<1>1. ASSUME NEW k \in from .. to
      PROVE  g[k] = IF k = from THEN c[1] ELSE After(mh, g[k - 1])
    <2>1. CASE k = from
        <3>1. k + 1 - from = 1
            BY <2>1
        <3>2. Place(c, 1) = c[1]
            BY ChainFacts DEF Place
        <3> QED BY <2>1, <3>1, <3>2
    <2>2. CASE k # from
        <3>1. k - 1 \in from .. to /\ k - 1 + 1 - from = k - from
            BY <2>2
        <3>2. g[k - 1] = Place(c, k - from)
            BY <3>1
        <3>3. k - from \in Nat /\ k - from >= 1 /\ k - from + 1 = k + 1 - from
            BY <2>2
        <3>4. After(mh, Place(c, k - from)) = Place(c, k + 1 - from)
            BY <3>3, AfterPlace
        <3> QED BY <2>2, <3>2, <3>4
    <2> QED BY <2>1, <2>2
<1>2. g = [k \in from .. to |-> g[k]]
    OBVIOUS
<1> HIDE DEF g
<1>3. g = [k \in from .. to |-> IF k = from THEN c[1] ELSE After(mh, g[k - 1])]
    BY <1>1, <1>2
<1>4. Visits(mh, c[1], g, from, to)
    BY <1>3 DEF Visits
<1> QED BY <1>4 DEF g

\* Every loop over a chain visits its pages and no other.
LEMMA ChainIs ==
    ASSUME NEW mh, NEW c, IsChain(mh, c)
    PROVE  Chain(mh, c[1]) = c
<1> DEFINE h == [k \in 1 .. LastPage |-> Place(c, k + 1 - 1)]
<1>1. LastPage \in Nat /\ Len(c) \in Nat /\ Len(c) <= LastPage /\ Len(c) \in 0 .. LastPage
    BY PagesFinite, ChainFacts
<1>2. Visits(mh, c[1], h, 1, LastPage)
    BY <1>1, VisitsChain
<1>3. \A k \in 1 .. LastPage : h[k] = Place(c, k)
    <2>1. \A k \in 1 .. LastPage : k + 1 - 1 = k
        OBVIOUS
    <2> QED BY <2>1
<1> HIDE DEF h
<1>4. \A k \in 1 .. LastPage : h[k] > 0 <=> k <= Len(c)
    <2> TAKE k \in 1 .. LastPage
    <2>1. CASE k <= Len(c)
        <3>1. k \in 1 .. Len(c)
            BY <1>1, <2>1
        <3>2. h[k] = c[k]
            BY <1>3, <2>1 DEF Place
        <3> QED BY <2>1, <3>1, <3>2, ChainFacts
    <2>2. CASE ~(k <= Len(c))
        BY <1>3, <2>2 DEF Place
    <2> QED BY <2>1, <2>2
<1>5. Chain(mh, c[1]) = Firsts(h, Len(c))
    BY <1>1, <1>2, <1>4, ChainOf
<1>6. c = [k \in 1 .. Len(c) |-> c[k]]
    BY ChainFacts
<1>7. \A k \in 1 .. Len(c) : h[k] = c[k]
    BY <1>1, <1>3 DEF Place
<1> QED BY <1>5, <1>6, <1>7 DEF Firsts

LEMMA HandleAtIs ==
    ASSUME NEW mh, NEW c, IsChain(mh, c), NEW n \in Nat
    PROVE  NextHandleAt(mh, c[1], n) = Place(c, n + 1)
<1> DEFINE at == CHOOSE g : Visits(mh, c[1], g, 0, n)
           h  == [k \in 0 .. n |-> Place(c, k + 1 - 0)]
<1>1. Visits(mh, c[1], h, 0, n)
    BY VisitsChain
<1>2. h[n] = Place(c, n + 1)
    OBVIOUS
<1> HIDE DEF h
<1>3. Visits(mh, c[1], at, 0, n)
    BY <1>1
<1>4. NextHandleAt(mh, c[1], n) = at[n]
    BY DEF NextHandleAt, Visits
<1> HIDE DEF at
<1>5. at = h
    BY <1>1, <1>3, VisitsOnce
<1> QED BY <1>2, <1>4, <1>5

\* What is no page has no chain, and a free page is taken for a chain of its own.
LEMMA NoChain ==
    ASSUME NEW mh, NEW first \in {-1, 0}
    PROVE  Chain(mh, first) = <<>>
<1> DEFINE h == [k \in 1 .. LastPage |-> IF k = 1 THEN first ELSE -1]
<1>1. \A k \in 1 .. LastPage : h[k] \in {-1, 0} /\ ~(h[k] > 0) /\ ~(k <= 0)
    OBVIOUS
<1>2. \A k \in 1 .. LastPage : h[k] = IF k = 1 THEN first ELSE After(mh, h[k - 1])
    <2>1. \A k \in 1 .. LastPage : k # 1 => k - 1 \in 1 .. LastPage
        BY PagesFinite
    <2>2. \A k \in 1 .. LastPage : k # 1 => After(mh, h[k - 1]) = -1
        BY <1>1, <2>1 DEF After
    <2>3. \A k \in 1 .. LastPage : h[k] = IF k = 1 THEN first ELSE -1
        OBVIOUS
    <2> HIDE DEF h
    <2> QED BY <2>2, <2>3
<1>3. h = [k \in 1 .. LastPage |-> h[k]]
    OBVIOUS
<1> HIDE DEF h
<1>4. Visits(mh, first, h, 1, LastPage)
    BY <1>2, <1>3 DEF Visits
<1>5. 0 \in 0 .. LastPage
    BY PagesFinite
<1>6. Chain(mh, first) = Firsts(h, 0)
    BY <1>1, <1>4, <1>5, ChainOf
<1> QED BY <1>6 DEF Firsts

LEMMA FreeChain ==
    ASSUME NEW mh, NEW first \in Pages, mh[first] = 0
    PROVE  Chain(mh, first) = <<first>>
<1> DEFINE h == [k \in 1 .. LastPage |-> IF k = 1 THEN first ELSE IF k = 2 THEN 0 ELSE -1]
<1>0. first \in Nat /\ first > 0 /\ LastPage \in Nat
    BY PagesFinite
<1>1. \A k \in 1 .. LastPage : h[k] > 0 <=> k <= 1
    BY <1>0
<1>2. \A k \in 1 .. LastPage : h[k] = IF k = 1 THEN first ELSE After(mh, h[k - 1])
    BY <1>0 DEF After
<1>3. h = [k \in 1 .. LastPage |-> h[k]]
    OBVIOUS
<1>a. 1 \in 1 .. LastPage => h[1] = first
    OBVIOUS
<1> HIDE DEF h
<1>4. Visits(mh, first, h, 1, LastPage)
    BY <1>2, <1>3 DEF Visits
<1>5. 1 \in 0 .. LastPage /\ 1 \in 1 .. LastPage
    BY PagesFinite
<1>6. Chain(mh, first) = Firsts(h, 1)
    BY <1>1, <1>4, <1>5, ChainOf
<1>7. Firsts(h, 1) = <<first>>
    BY <1>a, <1>5 DEF Firsts
<1> QED BY <1>6, <1>7

-----------------------------------------------------------------------------
(* Where free pages are found *)

Distinct(c) == \A i, j \in 1 .. Len(c) : c[i] = c[j] => i = j

\* What an allocation may take: so many pages, all free, no page twice.
Takes(mh, c, count) ==
    c \in Seq(Pages) /\ Len(c) = count /\ Distinct(c) /\ Cells(c) \subseteq FreePages(mh)

LEMMA ConsecutiveIs ==
    ASSUME NEW first \in Pages, NEW count \in Nat \ {0}, first + count - 1 <= LastPage
    PROVE  /\ Consecutive(first, count) \in Seq(Pages) /\ Len(Consecutive(first, count)) = count
           /\ Distinct(Consecutive(first, count)) /\ Consecutive(first, count) # <<>>
           /\ \A k \in 1 .. count : Consecutive(first, count)[k] = first + k - 1
           /\ Cells(Consecutive(first, count)) = first .. first + count - 1
<1> DEFINE c == Consecutive(first, count)
<1>0. first \in Nat /\ first >= 1 /\ count \in Nat /\ count >= 1
    BY PagesFinite
<1>1. \A k \in 1 .. count : first + k - 1 \in Pages
    BY <1>0, PagesFinite
<1>2. c = [k \in 1 .. count |-> first + k - 1]
    BY DEF Consecutive
<1>3. c \in [1 .. count -> Pages]
    BY <1>1, <1>2
<1>4. \A k \in 1 .. count : c[k] = first + k - 1
    BY <1>2
<1> HIDE DEF c
<1>5. c \in Seq(Pages) /\ Len(c) = count
    BY <1>0, <1>3
<1>6. Distinct(c)
    BY <1>0, <1>4, <1>5 DEF Distinct
<1>7. Cells(c) = first .. first + count - 1
    <2>1. \A p \in first .. first + count - 1 : p - first + 1 \in 1 .. count /\ c[p - first + 1] = p
        BY <1>0, <1>4
    <2>2. \A k \in 1 .. count : c[k] \in first .. first + count - 1
        BY <1>0, <1>4
    <2> QED BY <1>5, <2>1, <2>2 DEF Cells
<1>8. c # <<>>
    BY <1>0, <1>5
<1> QED BY <1>4, <1>5, <1>6, <1>7, <1>8 DEF c

LEMMA RunOfIs ==
    ASSUME NEW mh \in Types, NEW p \in FreePages(mh)
    PROVE  RunOf(mh, p) \in Pages
<1> DEFINE S == {q \in 1 .. p : \A r \in q .. p : mh[r] = 0}
<1>1. p \in Pages /\ p \in Nat /\ 1 <= p /\ mh[p] = 0 /\ 1 .. p \subseteq Pages
    BY PagesFinite DEF FreePages
<1>2. p \in S
    BY <1>1
<1>3. S \subseteq Nat
    BY <1>1
<1>4. PICK q \in S : \A r \in S : q <= r
    <2> HIDE DEF S
    <2> QED BY <1>2, <1>3, LeastOf
<1>5. q \in 1 .. p /\ \A r \in q .. p : mh[r] = 0
    BY <1>4
<1>6. q = 1 \/ mh[q - 1] # 0
    <2>1. SUFFICES ASSUME q # 1, mh[q - 1] = 0 PROVE FALSE
        OBVIOUS
    <2>2. q - 1 \in 1 .. p /\ q - 1 < q
        BY <1>1, <1>5, <2>1
    <2>3. \A r \in q - 1 .. p : r = q - 1 \/ r \in q .. p
        BY <1>1, <1>5
    <2>4. q - 1 \in S
        BY <1>5, <2>1, <2>2, <2>3
    <2> HIDE DEF S
    <2> QED BY <1>4, <2>2, <2>4, <1>3
<1>7. RunOf(mh, p) \in 1 .. p
    BY <1>5, <1>6 DEF RunOf
<1> QED BY <1>1, <1>7

\* All the pages of a run's length are free.
LEMMA RunIsFree ==
    ASSUME NEW mh \in Types, NEW q \in Pages
    PROVE  /\ RunLength(mh, q) \in Nat
           /\ \A n \in Nat \ {0} : RunLength(mh, q) >= n =>
                 q + n - 1 <= LastPage /\ q .. q + n - 1 \subseteq FreePages(mh)
<1> DEFINE S == {r \in q .. LastPage : \A s \in q .. r : mh[s] = 0}
<1>0. q \in Nat /\ q >= 1 /\ LastPage \in Nat /\ q <= LastPage /\ q .. LastPage \subseteq Pages
    BY PagesFinite
<1>1. S \subseteq q .. LastPage /\ S \subseteq Pages
    BY <1>0
<1>2. RunLength(mh, q) = Cardinality(S)
    BY DEF RunLength
<1>3. Cardinality(S) \in Nat
    <2> HIDE DEF S
    <2> QED BY <1>1, PagesFinite
<1>4. ASSUME NEW n \in Nat \ {0}, Cardinality(S) >= n,
             NEW j \in 0 .. n - 1, q + j \notin FreePages(mh)
      PROVE  FALSE
    <2>1. j \in Nat /\ j < n /\ q + j \in Nat
        BY <1>0
    <2>2. ASSUME NEW r \in S PROVE r \in q .. q + j - 1
        <3>1. r \in q .. LastPage /\ \A s \in q .. r : mh[s] = 0
            OBVIOUS
        <3>2. SUFFICES ASSUME r >= q + j PROVE FALSE
            BY <1>0, <2>1, <3>1
        <3>3. q + j \in q .. r /\ q + j \in Pages
            BY <1>0, <2>1, <3>1, <3>2, PagesFinite
        <3> QED BY <1>4, <3>1, <3>3 DEF FreePages
    <2>3. IsFiniteSet(q .. q + j - 1) /\ Cardinality(q .. q + j - 1) = j
        <3>1. q \in Int /\ q + j - 1 \in Int
            BY <1>0, <2>1
        <3>2. Cardinality(q .. q + j - 1) = IF q > q + j - 1 THEN 0 ELSE q + j - 1 - q + 1
            BY <3>1, FS_Interval
        <3> QED BY <1>0, <2>1, <3>1, <3>2, FS_Interval
    <2> HIDE DEF S
    <2>4. Cardinality(S) <= j
        <3>1. S \in SUBSET (q .. q + j - 1)
            BY <2>2
        <3> QED BY <2>3, <3>1, FS_Subset
    <2> QED BY <1>3, <1>4, <2>1, <2>4
<1>5. ASSUME NEW n \in Nat \ {0}, Cardinality(S) >= n
      PROVE  q + n - 1 <= LastPage /\ q .. q + n - 1 \subseteq FreePages(mh)
    <2>1. \A j \in 0 .. n - 1 : q + j \in FreePages(mh)
        BY <1>4, <1>5
    <2>2. \A p \in q .. q + n - 1 : p - q \in 0 .. n - 1 /\ q + (p - q) = p
        BY <1>0
    <2>3. q .. q + n - 1 \subseteq FreePages(mh)
        BY <2>1, <2>2
    <2>4. n - 1 \in 0 .. n - 1
        OBVIOUS
    <2>5. q + (n - 1) \in Pages
        BY <2>1, <2>4 DEF FreePages
    <2> QED BY <1>0, <2>3, <2>5, PagesFinite
<1> QED BY <1>2, <1>3, <1>5

LEMMA BestMatchIs ==
    ASSUME NEW mh \in Types, NEW size \in Nat \ {0}, BestMatch(mh, size) # 0
    PROVE  /\ BestMatch(mh, size) \in Pages
           /\ BestMatch(mh, size) + size - 1 <= LastPage
           /\ BestMatch(mh, size) .. BestMatch(mh, size) + size - 1 \subseteq FreePages(mh)
<1> DEFINE length == [q \in Runs(mh) |-> RunLength(mh, q)]
           fits   == {q \in DOMAIN length : length[q] >= size}
           key(q) == length[q] * (LastPage + 1) + q
           keys   == {key(q) : q \in fits}
           best   == CHOOSE q \in fits : \A r \in fits : length[q] * (LastPage + 1) + q <= length[r] * (LastPage + 1) + r
<1>1. BestMatch(mh, size) = IF fits = {} THEN 0 ELSE best
    BY DEF BestMatch
<1>2. fits # {} /\ BestMatch(mh, size) = best
    <2> HIDE DEF fits, best
    <2> QED BY <1>1
<1>3. \A q \in fits : q \in Pages /\ length[q] = RunLength(mh, q) /\ length[q] \in Nat /\ length[q] >= size
    BY RunIsFree DEF Runs, FreePages
<1>4. keys \subseteq Nat
    <2>1. ASSUME NEW q \in fits PROVE key(q) \in Nat
        <3>1. q \in Nat /\ length[q] \in Nat /\ LastPage \in Nat
            BY <1>3, PagesFinite
        <3> HIDE DEF length
        <3>2. length[q] * (LastPage + 1) \in Nat
            BY <3>1
        <3> QED BY <3>1, <3>2
    <2> HIDE DEF key, fits
    <2> QED BY <2>1
<1>5. PICK q \in fits : \A r \in fits : key(q) <= key(r)
    <2> HIDE DEF fits, key
    <2>1. keys # {}
        BY <1>2
    <2> HIDE DEF keys
    <2>2. PICK x \in keys : \A y \in keys : x <= y
        BY <1>4, <2>1, LeastOf
    <2> QED BY <2>2 DEF keys
<1>6. best \in fits
    <2> HIDE DEF fits, length
    <2> QED BY <1>5
<1> HIDE DEF fits, length, best
<1> QED BY <1>2, <1>3, <1>6, RunIsFree

LEMMA ScatteredIs ==
    ASSUME NEW mh \in Types, NEW count \in Nat \ {0}, count <= FreeTotal(mh)
    PROVE  Takes(mh, Scattered(mh, count), count)
<1> DEFINE D    == FreePages(mh)
           rank == [p \in D |-> RunLength(mh, RunOf(mh, p)) * (LastPage + 1) + p]
           c    == Scattered(mh, count)
<1>1. D \subseteq Pages /\ IsFiniteSet(D) /\ Cardinality(D) \in Nat /\ count <= Cardinality(D)
    BY PagesFinite DEF FreePages, FreeTotal
<1>2. ASSUME NEW p \in D PROVE p \in 1 .. LastPage /\ RunLength(mh, RunOf(mh, p)) \in Nat
    BY RunOfIs, RunIsFree, PagesFinite DEF FreePages
<1>3. ASSUME NEW p \in D PROVE rank[p] \in Nat
    <2> DEFINE l == RunLength(mh, RunOf(mh, p))
    <2>1. l \in Nat /\ p \in Nat /\ LastPage \in Nat /\ rank[p] = l * (LastPage + 1) + p
        BY <1>2, PagesFinite
    <2> HIDE DEF l, rank
    <2>2. l * (LastPage + 1) \in Nat
        BY <2>1
    <2> QED BY <2>1, <2>2
<1>4. ASSUME NEW p \in D, NEW q \in D, rank[p] = rank[q] PROVE p = q
    <2> DEFINE l == RunLength(mh, RunOf(mh, p))
               m == RunLength(mh, RunOf(mh, q))
    <2>1. l * (LastPage + 1) + p = m * (LastPage + 1) + q
        BY <1>4
    <2>2. l \in Nat /\ m \in Nat /\ p \in 1 .. LastPage /\ q \in 1 .. LastPage /\ LastPage \in Nat
        BY <1>2, PagesFinite
    <2> HIDE DEF l, m
    <2> QED BY <2>1, <2>2, RankApart
<1>5. DOMAIN rank = D
    OBVIOUS
<1>6. c = [k \in 1 .. count |-> CHOOSE p \in DOMAIN rank : Cardinality({q \in DOMAIN rank : rank[q] < rank[p]}) = k - 1]
    BY DEF Scattered
<1> HIDE DEF rank, D
<1>7. c = [k \in 1 .. count |-> CHOOSE p \in D : Cardinality(Below(D, rank, p)) = k - 1]
    BY <1>5, <1>6 DEF Below
<1> HIDE DEF c
<1>8. ASSUME NEW k \in 1 .. count PROVE c[k] \in D /\ Cardinality(Below(D, rank, c[k])) = k - 1
    <2>1. k \in 1 .. Cardinality(D)
        BY <1>1
    <2>2. \E p \in D : Cardinality(Below(D, rank, p)) = k - 1
        BY <1>1, <1>3, <1>4, <2>1, KthRank
    <2>3. c[k] = CHOOSE p \in D : Cardinality(Below(D, rank, p)) = k - 1
        BY <1>7
    <2> QED BY <2>2, <2>3
<1>9. c \in [1 .. count -> Pages]
    <2>1. c = [k \in 1 .. count |-> c[k]]
        BY <1>7
    <2>2. \A k \in 1 .. count : c[k] \in Pages
        BY <1>1, <1>8
    <2> QED BY <2>1, <2>2
<1>10. c \in Seq(Pages) /\ Len(c) = count
    BY <1>9
<1>11. Distinct(c)
    <2>1. ASSUME NEW i \in 1 .. count, NEW j \in 1 .. count, c[i] = c[j] PROVE i = j
        <3>1. i - 1 = j - 1
            BY <1>8, <2>1
        <3> QED BY <3>1
    <2> QED BY <1>10, <2>1 DEF Distinct
<1>12. Cells(c) \subseteq D
    BY <1>8, <1>10 DEF Cells
<1> QED BY <1>10, <1>11, <1>12 DEF Takes, D, c

\* The pages that MEM_AllocatePages finds, and when it finds none.
LEMMA FoundIs ==
    ASSUME NEW mh \in Types, NEW count \in Nat \ {0}, NEW sequence \in BOOLEAN
    PROVE  /\ Found(mh, count, sequence) # <<>> =>
                 /\ Takes(mh, Found(mh, count, sequence), count)
                 /\ sequence => Found(mh, count, sequence) = Consecutive(Found(mh, count, sequence)[1], count)
           /\ ~sequence => (Found(mh, count, sequence) = <<>> <=> FreeTotal(mh) < count)
<1> DEFINE best == BestMatch(mh, count)
<1>1. CASE sequence
    <2>1. CASE best = 0
        BY <1>1, <2>1 DEF Found
    <2>2. CASE best # 0
        <3>1. /\ best \in Pages /\ best + count - 1 <= LastPage
              /\ best .. best + count - 1 \subseteq FreePages(mh)
            BY <2>2, BestMatchIs
        <3>2. Found(mh, count, sequence) = Consecutive(best, count)
            BY <1>1, <2>2 DEF Found
        <3> HIDE DEF best
        <3>3. /\ Consecutive(best, count) \in Seq(Pages) /\ Len(Consecutive(best, count)) = count
              /\ Distinct(Consecutive(best, count)) /\ Consecutive(best, count)[1] = best + 1 - 1
              /\ Cells(Consecutive(best, count)) = best .. best + count - 1
            <4>1. 1 \in 1 .. count
                OBVIOUS
            <4> QED BY <3>1, <4>1, ConsecutiveIs
        <3>4. best + 1 - 1 = best
            BY <3>1, PagesFinite
        <3> QED BY <1>1, <3>1, <3>2, <3>3, <3>4 DEF Takes
    <2> QED BY <2>1, <2>2
<1>2. CASE ~sequence
    <2>1. FreeTotal(mh) \in Nat
        BY PagesFinite DEF FreeTotal, FreePages
    <2>2. CASE FreeTotal(mh) < count
        BY <1>2, <2>2 DEF Found
    <2>3. CASE ~(FreeTotal(mh) < count)
        <3>1. Found(mh, count, sequence) = Scattered(mh, count)
            BY <1>2, <2>3 DEF Found
        <3>2. Takes(mh, Scattered(mh, count), count)
            BY <2>1, <2>3, ScatteredIs
        <3>3. Scattered(mh, count) # <<>>
            BY <3>2 DEF Takes
        <3> QED BY <1>2, <2>3, <3>1, <3>2, <3>3
    <2> QED BY <2>2, <2>3
<1> QED BY <1>1, <1>2

-----------------------------------------------------------------------------
(* What an operation does to the pages *)

\* The pages of old were given back, and the chain c was made of free ones and of them;
\* all other pages are as they were.
Changed(mh, new, old, c) ==
    /\ new \in Types
    /\ c \in Seq(Pages) /\ (c # <<>> => IsChain(new, c))
    /\ Cells(c) \subseteq FreePages(mh) \cup old
    /\ FreePages(new) = (FreePages(mh) \cup old) \ Cells(c)
    /\ \A p \in Pages : p \notin FreePages(mh) \cup old => new[p] = mh[p]

LEMMA NoCells == Cells(<<>>) = {} /\ <<>> \in Seq(Pages) /\ Len(<<>>) = 0
BY DEF Cells

LEMMA ChainInUse ==
    ASSUME NEW mh \in Types, NEW c, IsChain(mh, c)
    PROVE  Cells(c) \subseteq Pages \ FreePages(mh)
<1>1. ASSUME NEW p \in Cells(c) PROVE p \in Pages /\ mh[p] # 0
    <2>1. PICK k \in 1 .. Len(c) : c[k] = p
        BY DEF Cells
    <2>2. mh[p] = IF k = Len(c) THEN -1 ELSE c[k + 1]
        BY <2>1, ChainFacts
    <2>3. k # Len(c) => k + 1 \in 1 .. Len(c)
        BY ChainFacts
    <2> QED BY <2>1, <2>2, <2>3, ChainFacts
<1> QED BY <1>1 DEF FreePages

LEMMA SameLinks ==
    ASSUME NEW mh, NEW new, NEW d, IsChain(mh, d), \A p \in Cells(d) : new[p] = mh[p]
    PROVE  IsChain(new, d)
<1>1. \A k \in 1 .. Len(d) : new[d[k]] = mh[d[k]]
    BY ChainFacts
<1> QED BY <1>1 DEF IsChain

\* A chain that has no page of the old one is not touched.
LEMMA ChainKept ==
    ASSUME NEW mh \in Types, NEW new, NEW old, NEW c, Changed(mh, new, old, c),
           NEW d, IsChain(mh, d), Cells(d) \cap old = {}
    PROVE  IsChain(new, d) /\ Cells(d) \cap Cells(c) = {}
<1>1. \A p \in Cells(d) : p \in Pages /\ p \notin FreePages(mh) \cup old
    BY ChainInUse
<1>2. IsChain(new, d)
    BY <1>1, SameLinks DEF Changed
<1> QED BY <1>1, <1>2 DEF Changed

LEMMA NothingChanged ==
    ASSUME NEW mh \in Types
    PROVE  /\ Changed(mh, mh, {}, <<>>)
           /\ \A c : IsChain(mh, c) => Changed(mh, mh, Cells(c), c)
<1>1. Changed(mh, mh, {}, <<>>)
    BY NoCells DEF Changed
<1>2. ASSUME NEW c, IsChain(mh, c) PROVE Changed(mh, mh, Cells(c), c)
    BY <1>2, ChainInUse, ChainFacts DEF Changed
<1> QED BY <1>1, <1>2

LEMMA LinkedIs ==
    ASSUME NEW mh \in Types, NEW c \in Seq(Pages), c # <<>>, Distinct(c)
    PROVE  /\ Linked(mh, c) \in Types
           /\ \A k \in 1 .. Len(c) : Linked(mh, c)[c[k]] = IF k = Len(c) THEN -1 ELSE c[k + 1]
           /\ \A p \in Pages \ Cells(c) : Linked(mh, c)[p] = mh[p]
<1> DEFINE new == Linked(mh, c)
           place(p) == CHOOSE j \in 1 .. Len(c) : c[j] = p
<1>0. DOMAIN mh = Pages
    BY DEF Types
<1>1. new = [p \in Pages |-> IF p \notin Cells(c) THEN mh[p]
                             ELSE IF place(p) = Len(c) THEN -1 ELSE c[place(p) + 1]]
    BY <1>0 DEF Linked
<1> HIDE DEF new, place
<1>2. \A p \in Pages \ Cells(c) : new[p] = mh[p]
    BY <1>1
<1>3. ASSUME NEW k \in 1 .. Len(c) PROVE new[c[k]] = IF k = Len(c) THEN -1 ELSE c[k + 1]
    <2>1. c[k] \in Cells(c) /\ c[k] \in Pages
        BY CellsOf
    <2>2. place(c[k]) = k
        <3>1. \A j \in 1 .. Len(c) : c[j] = c[k] => j = k
            BY DEF Distinct
        <3> QED BY <3>1 DEF place
    <2> QED BY <1>1, <2>1, <2>2
<1>4. ASSUME NEW p \in Pages PROVE new[p] \in {-1, 0} \cup Pages
    <2>1. CASE p \in Cells(c)
        <3>1. PICK k \in 1 .. Len(c) : c[k] = p
            BY <2>1, CellsOf
        <3>2. k # Len(c) => k + 1 \in 1 .. Len(c)
            OBVIOUS
        <3> QED BY <1>3, <3>1, <3>2, CellsOf
    <2>2. CASE p \notin Cells(c)
        BY <1>2, <2>2 DEF Types
    <2> QED BY <2>1, <2>2
<1>5. new \in Types
    BY <1>1, <1>4 DEF Types
<1> QED BY <1>2, <1>3, <1>5 DEF new

LEMMA ChainMade ==
    ASSUME NEW new, NEW c \in Seq(Pages), c # <<>>, Distinct(c),
           \A k \in 1 .. Len(c) : new[c[k]] = IF k = Len(c) THEN -1 ELSE c[k + 1]
    PROVE  IsChain(new, c)
BY DEF IsChain, Distinct

\* A chain of free pages.
LEMMA TakenIs ==
    ASSUME NEW mh \in Types, NEW count \in Nat \ {0}, NEW c, Takes(mh, c, count)
    PROVE  Changed(mh, Linked(mh, c), {}, c)
<1> DEFINE new == Linked(mh, c)
<1>1. c \in Seq(Pages) /\ c # <<>> /\ Distinct(c) /\ Cells(c) \subseteq FreePages(mh)
    BY DEF Takes
<1>2. /\ new \in Types
      /\ \A k \in 1 .. Len(c) : new[c[k]] = IF k = Len(c) THEN -1 ELSE c[k + 1]
      /\ \A p \in Pages \ Cells(c) : new[p] = mh[p]
    BY <1>1, LinkedIs
<1> HIDE DEF new
<1>3. IsChain(new, c)
    BY <1>1, <1>2, ChainMade
<1>4. FreePages(new) = FreePages(mh) \ Cells(c)
    <2>1. Cells(c) \cap FreePages(new) = {}
        BY <1>2, <1>3, ChainInUse
    <2> QED BY <1>1, <1>2, <2>1 DEF FreePages
<1>5. Changed(mh, new, {}, c)
    BY <1>1, <1>2, <1>3, <1>4 DEF Changed, FreePages
<1> QED BY <1>5 DEF new

\* What MEM_AllocatePages returns.
Allocated(mh, count, sequence, r) ==
    /\ \/ r.handle = 0 /\ r.links = mh
       \/ /\ count > 0 /\ r.handle \in Pages /\ r.handle # 0
          /\ \E c : /\ Takes(mh, c, count) /\ Changed(mh, r.links, {}, c) /\ c[1] = r.handle
                    /\ sequence => c = Consecutive(r.handle, count)
    /\ ~sequence /\ count > 0 => (r.handle = 0 <=> FreeTotal(mh) < count)
    /\ count = 0 => r.handle = 0

LEMMA AllocateIs ==
    ASSUME NEW mh \in Types, NEW count \in Nat, NEW sequence \in BOOLEAN,
           NEW r, r = AllocatePages(mh, count, sequence)
    PROVE  Allocated(mh, count, sequence, r)
<1> DEFINE found == IF count = 0 THEN <<>> ELSE Found(mh, count, sequence)
<1>1. r.links = Linked(mh, found) /\ r.handle = IF found = <<>> THEN 0 ELSE found[1]
    BY DEF AllocatePages
<1>2. CASE found = <<>>
    <2>1. Linked(mh, <<>>) = mh
        BY NoCells DEF Linked, Types
    <2>2. r.handle = 0 /\ r.links = mh
        BY <1>1, <1>2, <2>1
    <2>3. count > 0 /\ ~sequence => FreeTotal(mh) < count
        BY <1>2, FoundIs
    <2> QED BY <2>2, <2>3 DEF Allocated
<1>3. CASE found # <<>>
    <2>1. count # 0 /\ count \in Nat \ {0} /\ found = Found(mh, count, sequence)
        BY <1>3
    <2>2. /\ Takes(mh, found, count) /\ (sequence => found = Consecutive(found[1], count))
          /\ ~sequence => ~(FreeTotal(mh) < count)
        BY <1>3, <2>1, FoundIs
    <2> HIDE DEF found
    <2>3. Changed(mh, r.links, {}, found)
        BY <1>1, <2>1, <2>2, TakenIs
    <2>4. r.handle = found[1] /\ r.handle \in Pages
        <3>1. found \in Seq(Pages) /\ 1 \in 1 .. Len(found)
            BY <2>1, <2>2 DEF Takes
        <3> QED BY <1>1, <1>3, <3>1
    <2>5. r.handle # 0
        BY <2>4, PagesFinite
    <2> QED BY <2>1, <2>2, <2>3, <2>4, <2>5 DEF Allocated
<1> QED BY <1>2, <1>3

\* MEM_ReleasePages.
LEMMA ReleaseTyped ==
    ASSUME NEW mh \in Types, NEW first
    PROVE  ReleasePages(mh, first) \in Types
BY DEF ReleasePages, Types

LEMMA ReleaseIs ==
    ASSUME NEW mh \in Types, NEW c, IsChain(mh, c)
    PROVE  Changed(mh, ReleasePages(mh, c[1]), Cells(c), <<>>)
<1> DEFINE new == ReleasePages(mh, c[1])
<1>1. new = [p \in Pages |-> IF p \in Cells(c) THEN 0 ELSE mh[p]]
    BY ChainIs DEF ReleasePages, Types
<1>2. new \in Types
    BY ReleaseTyped
<1> HIDE DEF new
<1>3. Cells(c) \subseteq Pages
    BY ChainInUse
<1>4. FreePages(new) = FreePages(mh) \cup Cells(c)
    BY <1>1, <1>3 DEF FreePages
<1>5. Changed(mh, new, Cells(c), <<>>)
    BY <1>1, <1>2, <1>4, NoCells DEF Changed
<1> QED BY <1>5 DEF new

LEMMA ReleaseNothing ==
    ASSUME NEW mh \in Types, NEW first, first \in {-1, 0} \cup FreePages(mh)
    PROVE  ReleasePages(mh, first) = mh
<1>1. \A p \in Cells(Chain(mh, first)) : p \in Pages /\ mh[p] = 0
    <2>1. CASE first \in {-1, 0}
        BY <2>1, NoChain, NoCells
    <2>2. CASE first \in FreePages(mh)
        <3>1. Chain(mh, first) = <<first>>
            BY <2>2, FreeChain DEF FreePages
        <3>2. Cells(<<first>>) = {first}
            BY DEF Cells
        <3> QED BY <2>2, <3>1, <3>2 DEF FreePages
    <2> QED BY <2>1, <2>2
<1>2. mh = [p \in DOMAIN mh |-> mh[p]]
    BY DEF Types
<1> QED BY <1>1, <1>2 DEF ReleasePages

-----------------------------------------------------------------------------
(* MEM_ReAllocatePages *)

\* d is the part of c from one place to another.
IsPart(d, c, m, n) ==
    /\ d \in Seq(Pages) /\ Len(d) = n - m + 1 /\ Len(d) \in Nat /\ d # <<>> /\ Distinct(d)
    /\ \A k \in 1 .. n - m + 1 : d[k] = c[m + k - 1] /\ m + k - 1 \in 1 .. Len(c)

LEMMA PartIs ==
    ASSUME NEW mh, NEW c, IsChain(mh, c), NEW m \in 1 .. Len(c), NEW n \in m .. Len(c)
    PROVE  IsPart(SubSeq(c, m, n), c, m, n)
<1> DEFINE d == SubSeq(c, m, n)
<1>1. c \in Seq(Pages) /\ Len(c) \in Nat
    BY ChainFacts
<1>2. m \in Nat /\ n \in Nat /\ m >= 1 /\ m <= n /\ n <= Len(c)
    BY <1>1
<1>3. \A i \in m .. n : c[i] \in Pages
    BY <1>1, <1>2
<1>4. m \in Int /\ n \in Int
    BY <1>2
<1>5. /\ d \in Seq(Pages) /\ Len(d) = IF m <= n THEN n - m + 1 ELSE 0
      /\ \A k \in 1 .. n - m + 1 : d[k] = c[m + k - 1]
    BY <1>3, <1>4, SubSeqProperties
<1> HIDE DEF d
<1>6. Len(d) = n - m + 1 /\ d # <<>> /\ Len(d) \in Nat
    BY <1>2, <1>5
<1>7. \A k \in 1 .. n - m + 1 : m + k - 1 \in 1 .. Len(c)
    BY <1>1, <1>2
<1>8. Distinct(d)
    <2>1. ASSUME NEW i \in 1 .. n - m + 1, NEW j \in 1 .. n - m + 1, d[i] = d[j] PROVE i = j
        <3>1. c[m + i - 1] = c[m + j - 1] /\ m + i - 1 \in 1 .. Len(c) /\ m + j - 1 \in 1 .. Len(c)
            BY <1>5, <1>7, <2>1
        <3>2. m + i - 1 = m + j - 1
            BY <3>1 DEF IsChain
        <3> QED BY <1>2, <3>2
    <2> QED BY <1>6, <2>1 DEF Distinct
<1>9. IsPart(d, c, m, n)
    BY <1>2, <1>5, <1>6, <1>7, <1>8 DEF IsPart
<1> QED BY <1>9 DEF d

\* From any of its pages on, a chain is a chain.
LEMMA Suffix ==
    ASSUME NEW mh, NEW c, IsChain(mh, c), NEW m \in 1 .. Len(c)
    PROVE  IsChain(mh, SubSeq(c, m, Len(c))) /\ SubSeq(c, m, Len(c))[1] = c[m]
<1> DEFINE d == SubSeq(c, m, Len(c))
<1>1. Len(c) \in Nat /\ Len(c) \in m .. Len(c) /\ m \in Nat
    BY ChainFacts
<1>a. IsPart(d, c, m, Len(c))
    BY <1>1, PartIs
<1> HIDE DEF d
<1>2. /\ d \in Seq(Pages) /\ Len(d) = Len(c) - m + 1 /\ d # <<>> /\ Distinct(d)
      /\ \A k \in 1 .. Len(c) - m + 1 : d[k] = c[m + k - 1] /\ m + k - 1 \in 1 .. Len(c)
    BY <1>a DEF IsPart
<1>3. ASSUME NEW k \in 1 .. Len(d) PROVE mh[d[k]] = IF k = Len(d) THEN -1 ELSE d[k + 1]
    <2>1. d[k] = c[m + k - 1] /\ m + k - 1 \in 1 .. Len(c)
        BY <1>2
    <2>2. mh[c[m + k - 1]] = IF m + k - 1 = Len(c) THEN -1 ELSE c[m + k - 1 + 1]
        BY <2>1, ChainFacts
    <2>3. k = Len(d) <=> m + k - 1 = Len(c)
        BY <1>1, <1>2
    <2>4. k # Len(d) => d[k + 1] = c[m + (k + 1) - 1]
        <3>1. Len(c) \in Int /\ m \in Int /\ k \in 1 .. Len(c) - m + 1 /\ Len(d) = Len(c) - m + 1
            BY <1>1, <1>2
        <3>2. k # Len(d) => k + 1 \in 1 .. Len(c) - m + 1
            BY <3>1
        <3> QED BY <1>2, <3>2
    <2>5. m + k - 1 + 1 = m + (k + 1) - 1
        BY <1>1
    <2> QED BY <2>1, <2>2, <2>3, <2>4, <2>5
<1>4. IsChain(mh, d)
    BY <1>2, <1>3, ChainMade
<1>5. d[1] = c[m]
    <2>1. 1 \in 1 .. Len(c) - m + 1 /\ m + 1 - 1 = m
        BY <1>1
    <2> QED BY <1>2, <2>1
<1> QED BY <1>4, <1>5 DEF d

\* A chain cut off after some of its pages.
LEMMA ShrunkIs ==
    ASSUME NEW mh \in Types, NEW c, IsChain(mh, c), NEW count \in 1 .. Len(c) - 1
    PROVE  Changed(mh, Shrunk(mh, c, count), Cells(c), SubSeq(c, 1, count))
<1> DEFINE new == Shrunk(mh, c, count)
           d == SubSeq(c, 1, count)
           cut(p) == \E k \in count + 1 .. Len(c) : c[k] = p
<1>1. /\ Len(c) \in Nat /\ count \in Nat /\ count < Len(c) /\ 1 \in 1 .. Len(c) /\ count \in 1 .. Len(c)
      /\ \A k \in 1 .. Len(c) : c[k] \in Pages /\ mh[c[k]] = IF k = Len(c) THEN -1 ELSE c[k + 1]
      /\ \A i, j \in 1 .. Len(c) : c[i] = c[j] => i = j
    BY ChainFacts DEF IsChain
<1>a. IsPart(d, c, 1, count)
    <2>1. count \in 1 .. Len(c) /\ 1 \in 1 .. Len(c)
        BY <1>1
    <2> HIDE DEF new, cut
    <2> QED BY <2>1, PartIs
<1>2. /\ d \in Seq(Pages) /\ Len(d) = count - 1 + 1 /\ d # <<>> /\ Distinct(d)
      /\ \A k \in 1 .. count - 1 + 1 : d[k] = c[1 + k - 1]
    <2> HIDE DEF d
    <2> QED BY <1>a DEF IsPart
<1>3. Len(d) = count /\ \A k \in 1 .. count : d[k] = c[k]
    <2>1. \A k \in 1 .. count : 1 + k - 1 = k /\ k \in 1 .. count - 1 + 1
        BY <1>1
    <2> HIDE DEF d
    <2> QED BY <1>1, <1>2, <2>1
<1>4. new = [p \in Pages |-> IF p = c[count] THEN -1 ELSE IF cut(p) THEN 0 ELSE mh[p]]
    BY DEF Shrunk, Types
<1>5. new \in Types
    BY <1>4 DEF Types
<1> HIDE DEF new, d
<1>6. ASSUME NEW k \in 1 .. count PROVE new[d[k]] = IF k = count THEN -1 ELSE d[k + 1]
    <2>1. d[k] = c[k] /\ c[k] \in Pages /\ k \in 1 .. Len(c)
        BY <1>1, <1>3
    <2>2. ~cut(c[k])
        BY <1>1, <2>1
    <2>3. CASE k = count
        BY <1>4, <2>1, <2>3
    <2>4. CASE k # count
        <3>1. c[k] # c[count]
            BY <1>1, <2>1, <2>4
        <3>2. new[c[k]] = mh[c[k]]
            BY <1>4, <2>1, <2>2, <3>1
        <3>3. k # Len(c) /\ k + 1 \in 1 .. count
            BY <1>1, <2>4
        <3> QED BY <1>1, <1>3, <2>1, <2>4, <3>2, <3>3
    <2> QED BY <2>3, <2>4
<1>7. IsChain(new, d)
    BY <1>2, <1>3, <1>6, ChainMade
<1>8. Cells(d) = {c[k] : k \in 1 .. count} /\ Cells(c) = {c[k] : k \in 1 .. Len(c)}
    BY <1>3 DEF Cells
<1>9. Cells(d) \subseteq Cells(c)
    BY <1>1, <1>8
<1>10. \A p \in Pages : p \notin Cells(c) => new[p] = mh[p]
    BY <1>1, <1>4, <1>8
<1>11. \A p \in Cells(c) : p \in Pages /\ (new[p] = 0 <=> p \notin Cells(d))
    <2>1. ASSUME NEW k \in 1 .. Len(c) PROVE c[k] \in Pages /\ (new[c[k]] = 0 <=> c[k] \notin Cells(d))
        <3>1. CASE k \in 1 .. count
            <4>1. c[k] \in Cells(d) /\ c[k] \in Pages
                BY <1>1, <1>8, <3>1
            <4>2. Cells(d) \subseteq Pages \ FreePages(new)
                BY <1>5, <1>7, ChainInUse
            <4> QED BY <4>1, <4>2 DEF FreePages
        <3>2. CASE k \notin 1 .. count
            <4>1. k \in count + 1 .. Len(c) /\ k # count
                BY <1>1, <3>2
            <4>2. c[k] # c[count] /\ c[k] \notin Cells(d)
                BY <1>1, <1>8, <3>2, <4>1
            <4>3. cut(c[k])
                BY <4>1
            <4> HIDE DEF cut
            <4> QED BY <1>1, <1>4, <4>2, <4>3
        <3> QED BY <3>1, <3>2
    <2> QED BY <1>8, <2>1
<1>12. FreePages(new) = (FreePages(mh) \cup Cells(c)) \ Cells(d)
    BY <1>9, <1>10, <1>11, ChainInUse DEF FreePages
<1>13. Changed(mh, new, Cells(c), d)
    BY <1>2, <1>5, <1>7, <1>9, <1>10, <1>12 DEF Changed
<1> QED BY <1>13 DEF new, d

\* A chain that another one, of free pages, continues.
LEMMA GluedIs ==
    ASSUME NEW mh \in Types, NEW c, IsChain(mh, c), NEW count \in Nat \ {0},
           NEW n, Takes(mh, n, count), NEW new \in Types,
           new[c[Len(c)]] = n[1],
           \A k \in 1 .. Len(n) : new[n[k]] = IF k = Len(n) THEN -1 ELSE n[k + 1],
           \A p \in Pages : p \notin Cells(n) /\ p # c[Len(c)] => new[p] = mh[p]
    PROVE  /\ Changed(mh, new, Cells(c), c \o n) /\ Len(c \o n) = Len(c) + count
           /\ \A k \in 1 .. Len(c) : (c \o n)[k] = c[k]
           /\ \A k \in 1 .. count : (c \o n)[Len(c) + k] = n[k]
<1> DEFINE d == c \o n
<1>1. /\ c \in Seq(Pages) /\ Len(c) \in Nat /\ Len(c) >= 1 /\ Len(c) \in 1 .. Len(c)
      /\ \A k \in 1 .. Len(c) : c[k] \in Pages /\ c[k] \in Cells(c) /\ mh[c[k]] = IF k = Len(c) THEN -1 ELSE c[k + 1]
      /\ \A i, j \in 1 .. Len(c) : c[i] = c[j] => i = j
    BY ChainFacts DEF IsChain
<1>2. n \in Seq(Pages) /\ Len(n) = count /\ Distinct(n) /\ Cells(n) \subseteq FreePages(mh) /\ count \in Nat /\ count >= 1
    BY DEF Takes
<1>3. /\ d \in Seq(Pages) /\ Len(d) = Len(c) + Len(n)
      /\ \A i \in 1 .. Len(c) + Len(n) : d[i] = IF i <= Len(c) THEN c[i] ELSE n[i - Len(c)]
    <2>1. c \in Seq(Pages) /\ n \in Seq(Pages)
        BY <1>1, <1>2
    <2> QED BY <2>1, ConcatProperties, SMTT(30)
<1> HIDE DEF d
<1>4. Len(d) = Len(c) + count /\ d # <<>>
    BY <1>1, <1>2, <1>3
<1>5. \A k \in 1 .. Len(c) : d[k] = c[k]
    BY <1>1, <1>2, <1>3
<1>6. \A k \in 1 .. count : d[Len(c) + k] = n[k]
    <2>1. \A k \in 1 .. count : Len(c) + k \in 1 .. Len(c) + Len(n) /\ ~(Len(c) + k <= Len(c)) /\ Len(c) + k - Len(c) = k
        BY <1>1, <1>2
    <2> QED BY <1>3, <2>1
<1>7. \A k \in 1 .. count : n[k] \in Cells(n) /\ n[k] \in Pages
    BY <1>2, CellsOf
<1>a. \A k \in 1 .. Len(d) : k \in 1 .. Len(c) \/ \E j \in 1 .. count : k = Len(c) + j
    <2> TAKE k \in 1 .. Len(d)
    <2>1. SUFFICES ASSUME k \notin 1 .. Len(c) PROVE \E j \in 1 .. count : k = Len(c) + j
        OBVIOUS
    <2>2. k - Len(c) \in 1 .. count /\ k = Len(c) + (k - Len(c))
        BY <1>1, <1>2, <1>4, <2>1
    <2> QED BY <2>2
<1>8. Cells(c) \cap Cells(n) = {}
    BY <1>2, ChainInUse
<1>9. Distinct(d)
    <2>1. ASSUME NEW i \in 1 .. Len(d), NEW j \in 1 .. Len(d), d[i] = d[j] PROVE i = j
        <3>1. \A k \in 1 .. Len(c) : d[k] \in Cells(c)
            BY <1>1, <1>5
        <3>2. \A k \in 1 .. count : d[Len(c) + k] \in Cells(n)
            BY <1>6, <1>7
        <3>3. CASE i \in 1 .. Len(c) /\ j \in 1 .. Len(c)
            BY <1>1, <1>5, <2>1, <3>3
        <3>4. CASE i \notin 1 .. Len(c) /\ j \notin 1 .. Len(c)
            <4>1. PICK a \in 1 .. count : i = Len(c) + a
                BY <1>a, <3>4
            <4>2. PICK b \in 1 .. count : j = Len(c) + b
                BY <1>a, <3>4
            <4>3. n[a] = n[b]
                BY <1>6, <2>1, <4>1, <4>2
            <4>4. a = b
                BY <1>2, <4>3 DEF Distinct
            <4> QED BY <4>1, <4>2, <4>4
        <3>5. CASE i \in 1 .. Len(c) /\ j \notin 1 .. Len(c)
            BY <1>8, <1>a, <2>1, <3>1, <3>2, <3>5
        <3>6. CASE i \notin 1 .. Len(c) /\ j \in 1 .. Len(c)
            BY <1>8, <1>a, <2>1, <3>1, <3>2, <3>6
        <3> QED BY <3>3, <3>4, <3>5, <3>6
    <2> QED BY <2>1 DEF Distinct
<1>10. ASSUME NEW k \in 1 .. Len(d) PROVE new[d[k]] = IF k = Len(d) THEN -1 ELSE d[k + 1]
    <2>1. CASE k \in 1 .. Len(c) /\ k # Len(c)
        <3>1. d[k] = c[k] /\ c[k] # c[Len(c)] /\ c[k] \notin Cells(n) /\ c[k] \in Pages
            BY <1>1, <1>5, <1>8, <2>1
        <3>2. new[d[k]] = mh[c[k]]
            BY <3>1
        <3>3. k + 1 \in 1 .. Len(c) /\ k # Len(d)
            BY <1>1, <1>2, <1>4, <2>1
        <3> QED BY <1>1, <1>5, <2>1, <3>2, <3>3
    <2>2. CASE k = Len(c)
        <3>1. k # Len(d) /\ 1 \in 1 .. count
            BY <1>1, <1>2, <1>4, <2>2
        <3>2. d[Len(c) + 1] = n[1]
            BY <1>6, <3>1
        <3> QED BY <1>1, <1>5, <2>2, <3>1, <3>2
    <2>3. CASE k \notin 1 .. Len(c)
        <3>1. PICK j \in 1 .. count : k = Len(c) + j
            BY <1>a, <2>3
        <3>2. d[k] = n[j] /\ (k = Len(d) <=> j = Len(n))
            <4>1. d[k] = n[j]
                BY <1>6, <3>1
            <4>2. Len(c) \in Nat /\ j \in Nat /\ count \in Nat /\ Len(n) = count /\ Len(d) = Len(c) + count
                BY <1>1, <1>2, <1>4
            <4>3. k = Len(d) <=> j = Len(n)
                BY <3>1, <4>2
            <4> QED BY <4>1, <4>3
        <3>3. j # Len(n) => j + 1 \in 1 .. count /\ Len(c) + (j + 1) = k + 1
            <4>1. j \in Int /\ count \in Int /\ Len(c) \in Int /\ 1 <= j /\ j <= count
                BY <1>1, <1>2
            <4> QED BY <1>2, <3>1, <4>1
        <3>4. j # Len(n) => d[k + 1] = n[j + 1]
            BY <1>6, <3>3
        <3>5. j \in 1 .. Len(n)
            BY <1>2
        <3> QED BY <3>2, <3>4, <3>5
    <2> QED BY <2>1, <2>2, <2>3
<1>11. IsChain(new, d)
    BY <1>3, <1>4, <1>9, <1>10, ChainMade
<1>12. Cells(d) = Cells(c) \cup Cells(n)
    <2>1. \A p \in Cells(c) : p \in Cells(d)
        <3>1. \A k \in 1 .. Len(c) : k \in 1 .. Len(d)
            BY <1>1, <1>2, <1>4
        <3> QED BY <1>5, <3>1 DEF Cells
    <2>2. \A p \in Cells(n) : p \in Cells(d)
        <3>1. \A k \in 1 .. Len(n) : Len(c) + k \in 1 .. Len(d)
            BY <1>1, <1>2, <1>4
        <3> QED BY <1>2, <1>6, <3>1 DEF Cells
    <2>3. \A p \in Cells(d) : p \in Cells(c) \cup Cells(n)
        <3>1. \A k \in 1 .. Len(d) : d[k] \in Cells(c) \cup Cells(n)
            <4> TAKE k \in 1 .. Len(d)
            <4>1. CASE k \in 1 .. Len(c)
                BY <1>1, <1>5, <4>1
            <4>2. CASE k \notin 1 .. Len(c)
                <5>1. PICK j \in 1 .. count : k = Len(c) + j
                    BY <1>a, <4>2
                <5>2. d[k] = n[j]
                    BY <1>6, <5>1
                <5> QED BY <1>7, <5>1, <5>2
            <4> QED BY <4>1, <4>2
        <3>2. d \in Seq(Pages)
            BY <1>3
        <3> QED BY <3>1, <3>2, CellsOf
    <2> QED BY <2>1, <2>2, <2>3
<1>13. FreePages(new) = (FreePages(mh) \cup Cells(c)) \ Cells(d)
    <2>1. Cells(d) \cap FreePages(new) = {} /\ Cells(c) \subseteq Pages \ FreePages(mh)
        BY <1>11, ChainInUse
    <2>2. \A p \in Pages : p \notin Cells(d) => new[p] = mh[p]
        BY <1>1, <1>12
    <2> QED BY <1>12, <2>1, <2>2 DEF FreePages
<1>14. Changed(mh, new, Cells(c), d)
    <2>1. \A p \in Pages : p \notin FreePages(mh) \cup Cells(c) => new[p] = mh[p]
        BY <1>1, <1>2
    <2> QED BY <1>2, <1>3, <1>11, <1>12, <1>13, <2>1 DEF Changed
<1> QED BY <1>4, <1>5, <1>6, <1>14 DEF d

\* A block whose pages follow each other.
Straight(c) == \A k \in 1 .. Len(c) : c[k] = c[1] + k - 1

LEMMA StraightIs ==
    ASSUME NEW c \in Seq(Pages), Straight(c)
    PROVE  c = Consecutive(c[1], Len(c))
<1>1. c = [k \in 1 .. Len(c) |-> c[k]]
    OBVIOUS
<1> QED BY <1>1 DEF Straight, Consecutive

LEMMA ConsecutiveStraight ==
    ASSUME NEW first \in Pages, NEW count \in Nat \ {0}, NEW c, c = Consecutive(first, count), Len(c) = count
    PROVE  Straight(c)
<1>1. \A k \in 1 .. count : c[k] = first + k - 1
    BY DEF Consecutive
<1>2. c[1] = first + 1 - 1 /\ first \in Nat
    BY <1>1, PagesFinite
<1>3. c[1] = first
    BY <1>2
<1> QED BY <1>1, <1>3 DEF Straight

\* What a resize of the chain c to count pages returns.
Resized(mh, c, count, sequence, r) ==
    \/ r.done = FALSE /\ r.links = mh /\ r.handle = c[1]
    \/ /\ r.done = TRUE
       /\ \E d : /\ Changed(mh, r.links, Cells(c), d) /\ Len(d) = count
                 /\ r.handle = IF count = 0 THEN -1 ELSE d[1]
                 /\ sequence /\ Straight(c) => Straight(d)
                 /\ ~sequence => \A k \in 1 .. Len(c) : k <= count => d[k] = c[k]

\* A scattered chain goes on with another one.
LEMMA ExtendedIs ==
    ASSUME NEW mh \in Types, NEW c, IsChain(mh, c), NEW count \in Nat, count > Len(c)
    PROVE  Resized(mh, c, count, FALSE, Extended(mh, c, count))
<1> DEFINE r   == Extended(mh, c, count)
           new == AllocatePages(mh, count - Len(c), FALSE)
<1>1. Len(c) \in Nat /\ Len(c) >= 1 /\ count - Len(c) \in Nat \ {0} /\ c[Len(c)] \in Pages
    BY ChainFacts
<1>2. \/ new.handle = 0 /\ new.links = mh
      \/ /\ new.handle \in Pages /\ new.handle # 0
         /\ \E n : /\ Takes(mh, n, count - Len(c)) /\ Changed(mh, new.links, {}, n) /\ n[1] = new.handle
    <2> DEFINE more == count - Len(c)
    <2>1. more \in Nat /\ new = AllocatePages(mh, more, FALSE)
        BY <1>1
    <2> HIDE DEF more, new
    <2>2. Allocated(mh, more, FALSE, new)
        BY <2>1, AllocateIs
    <2> QED BY <2>2 DEF Allocated, more
<1>3. CASE new.handle = 0
    <2>1. r = [done |-> FALSE, links |-> mh, handle |-> c[1]]
        BY <1>3 DEF Extended
    <2> HIDE DEF r
    <2>2. r.done = FALSE /\ r.links = mh /\ r.handle = c[1]
        BY <2>1
    <2>3. Resized(mh, c, count, FALSE, r)
        BY <2>2 DEF Resized
    <2> QED BY <2>3 DEF r
<1>4. CASE new.handle # 0
    <2>1. PICK n : Takes(mh, n, count - Len(c)) /\ Changed(mh, new.links, {}, n) /\ n[1] = new.handle
        BY <1>2, <1>4
    <2> DEFINE l == [new.links EXCEPT ![c[Len(c)]] = new.handle]
    <2>2. r = [done |-> TRUE, handle |-> c[1], links |-> l]
        BY <1>4 DEF Extended
    <2> HIDE DEF r
    <2>3. r.done = TRUE /\ r.handle = c[1] /\ r.links = l
        BY <2>2
    <2>4. new.links \in Types /\ new.handle \in Pages
        BY <1>2, <1>4, <2>1 DEF Changed
    <2> HIDE DEF new
    <2>5. l \in Types
        BY <1>1, <2>4 DEF Types
    <2>6. /\ l[c[Len(c)]] = n[1]
          /\ \A p \in Pages : p # c[Len(c)] => l[p] = new.links[p]
        BY <1>1, <2>1, <2>4 DEF Types
    <2>7. n \in Seq(Pages) /\ n # <<>> /\ Cells(n) \subseteq FreePages(mh)
        BY <1>1, <2>1 DEF Takes
    <2>8. c[Len(c)] \in Cells(c) /\ Cells(c) \subseteq Pages \ FreePages(mh)
        BY ChainInUse, ChainFacts
    <2>9. \A k \in 1 .. Len(n) : l[n[k]] = IF k = Len(n) THEN -1 ELSE n[k + 1]
        <3>1. IsChain(new.links, n)
            BY <2>1, <2>7 DEF Changed
        <3>2. \A k \in 1 .. Len(n) : n[k] # c[Len(c)] /\ n[k] \in Pages
            BY <2>7, <2>8, CellsOf
        <3> QED BY <2>6, <3>1, <3>2, ChainFacts
    <2>10. \A p \in Pages : p \notin Cells(n) /\ p # c[Len(c)] => l[p] = mh[p]
        <3>1. FreePages(new.links) = FreePages(mh) \ Cells(n)
            BY <2>1 DEF Changed
        <3>2. ASSUME NEW p \in Pages, p \notin Cells(n) PROVE new.links[p] = mh[p]
            <4>1. CASE p \in FreePages(mh)
                <5>1. p \in FreePages(new.links)
                    BY <3>1, <3>2, <4>1
                <5> QED BY <4>1, <5>1 DEF FreePages
            <4>2. CASE p \notin FreePages(mh)
                BY <2>1, <4>2 DEF Changed
            <4> QED BY <4>1, <4>2
        <3> QED BY <2>6, <3>2
    <2> HIDE DEF l
    <2>11. /\ Changed(mh, l, Cells(c), c \o n) /\ Len(c \o n) = Len(c) + (count - Len(c))
           /\ \A k \in 1 .. Len(c) : (c \o n)[k] = c[k]
        <3> DEFINE more == count - Len(c)
        <3>1. more \in Nat \ {0} /\ Takes(mh, n, more)
            BY <1>1, <2>1
        <3> HIDE DEF more
        <3>2. /\ Changed(mh, l, Cells(c), c \o n) /\ Len(c \o n) = Len(c) + more
              /\ \A k \in 1 .. Len(c) : (c \o n)[k] = c[k]
            BY <2>5, <2>6, <2>9, <2>10, <3>1, GluedIs
        <3> QED BY <3>2 DEF more
    <2> DEFINE d == c \o n
    <2>12. Changed(mh, r.links, Cells(c), d) /\ Len(d) = count /\ r.handle = d[1] /\ \A k \in 1 .. Len(c) : d[k] = c[k]
        <3> HIDE DEF d
        <3>1. Changed(mh, l, Cells(c), d) /\ Len(d) = Len(c) + (count - Len(c)) /\ \A k \in 1 .. Len(c) : d[k] = c[k]
            BY <2>11 DEF d
        <3>2. 1 \in 1 .. Len(c) /\ Len(c) + (count - Len(c)) = count
            BY <1>1
        <3> QED BY <2>3, <3>1, <3>2
    <2> HIDE DEF d
    <2>13. Resized(mh, c, count, FALSE, r)
        BY <1>1, <2>3, <2>12 DEF Resized
    <2> QED BY <2>13 DEF r
<1> QED BY <1>3, <1>4

\* A consecutive block grows into the free pages behind it.
LEMMA GrownIs ==
    ASSUME NEW mh \in Types, NEW c, IsChain(mh, c), NEW count \in Nat, count > Len(c),
           NEW r, r = GrownInPlace(mh, c, count)
    PROVE  Resized(mh, c, count, TRUE, r)
<1> DEFINE last == c[Len(c)]
           more == Consecutive(last, count - Len(c) + 1)
           fits == \A k \in 2 .. Len(more) : IsFree(mh, more[k])
<1>1. Len(c) \in Nat /\ Len(c) >= 1 /\ count - Len(c) \in Nat \ {0} /\ last \in Pages /\ last \in Nat /\ last >= 1
    BY ChainFacts, PagesFinite
<1>2. r = IF fits THEN [done |-> TRUE, links |-> Linked(mh, more), handle |-> c[1]]
          ELSE [done |-> FALSE, links |-> mh, handle |-> c[1]]
    BY DEF GrownInPlace
<1>3. Len(more) = count - Len(c) + 1
    <2>1. count - Len(c) + 1 \in Nat
        BY <1>1
    <2> HIDE DEF last
    <2> QED BY <2>1 DEF Consecutive
<1>4. CASE ~fits
    <2> HIDE DEF fits
    <2>1. r.done = FALSE /\ r.links = mh /\ r.handle = c[1]
        BY <1>2, <1>4
    <2> QED BY <2>1 DEF Resized
<1>5. CASE fits
    <2> DEFINE m == count - Len(c)
               n == Consecutive(last + 1, m)
    <2>0. m \in Nat \ {0} /\ m \in Nat /\ m >= 1 /\ Len(more) = m + 1
        BY <1>1, <1>3
    <2>1. \A k \in 1 .. m + 1 : more[k] = last + k - 1
        <3> HIDE DEF last
        <3> QED BY DEF Consecutive
    <2>2. \A j \in 1 .. m : last + j \in FreePages(mh)
        <3> HIDE DEF last, m, more
        <3>1. ASSUME NEW j \in 1 .. m PROVE last + j \in FreePages(mh)
            <4>1. j + 1 \in 2 .. Len(more) /\ j + 1 \in 1 .. m + 1 /\ last + (j + 1) - 1 = last + j
                BY <1>1, <2>0
            <4>2. IsFree(mh, more[j + 1]) /\ more[j + 1] = last + (j + 1) - 1
                BY <1>5, <2>1, <4>1
            <4> QED BY <4>1, <4>2 DEF IsFree, FreePages
        <3> QED BY <3>1
    <2>3. r.done = TRUE /\ r.links = Linked(mh, more) /\ r.handle = c[1]
        <3> HIDE DEF fits, more
        <3> QED BY <1>2, <1>5
    <2> HIDE DEF fits, last, m
    <2>4. last + 1 \in Pages /\ last + 1 + m - 1 <= LastPage /\ last + m \in Pages
        <3>1. 1 \in 1 .. m /\ m \in 1 .. m
            BY <2>0
        <3>2. last + 1 \in Pages /\ last + m \in Pages
            BY <2>2, <3>1 DEF FreePages
        <3>3. last + m <= LastPage /\ last + 1 + m - 1 = last + m
            BY <1>1, <2>0, <3>2, PagesFinite
        <3> QED BY <3>2, <3>3
    <2>5. /\ n \in Seq(Pages) /\ Len(n) = m /\ Distinct(n) /\ n # <<>>
          /\ \A k \in 1 .. m : n[k] = last + 1 + k - 1
          /\ Cells(n) = last + 1 .. last + 1 + m - 1
        BY <2>0, <2>4, ConsecutiveIs
    <2>6. \A k \in 1 .. m : n[k] = last + k
        <3> HIDE DEF n
        <3>1. \A k \in 1 .. m : last + 1 + k - 1 = last + k
            BY <1>1, <2>0
        <3> QED BY <2>5, <3>1
    <2>7. Takes(mh, n, m)
        <3> HIDE DEF n
        <3>1. Cells(n) \subseteq FreePages(mh)
            BY <2>2, <2>5, <2>6 DEF Cells
        <3> QED BY <2>5, <3>1 DEF Takes
    <2>8. more \in Seq(Pages) /\ more # <<>> /\ Distinct(more) /\ Cells(more) = last .. last + m
        <3>1. more = Consecutive(last, m + 1)
            BY DEF m
        <3>2. last \in Pages /\ m + 1 \in Nat \ {0} /\ last + (m + 1) - 1 <= LastPage /\ last + (m + 1) - 1 = last + m
            BY <1>1, <2>0, <2>4
        <3> HIDE DEF more
        <3>3. more \in Seq(Pages) /\ more # <<>> /\ Distinct(more) /\ Cells(more) = last .. last + (m + 1) - 1
            BY <3>1, <3>2, ConsecutiveIs
        <3> QED BY <3>2, <3>3
    <2> HIDE DEF more, n
    <2> DEFINE l == Linked(mh, more)
    <2>9. /\ l \in Types
          /\ \A k \in 1 .. Len(more) : l[more[k]] = IF k = Len(more) THEN -1 ELSE more[k + 1]
          /\ \A p \in Pages \ Cells(more) : l[p] = mh[p]
        BY <2>8, LinkedIs
    <2> HIDE DEF l
    <2>10. \A j \in 0 .. m : l[last + j] = IF j = m THEN -1 ELSE last + j + 1
        <3> TAKE j \in 0 .. m
        <3>1. j + 1 \in 1 .. m + 1 /\ last + (j + 1) - 1 = last + j /\ (j + 1 = m + 1 <=> j = m)
            BY <1>1, <2>0
        <3>2. more[j + 1] = last + j
            BY <2>1, <3>1
        <3>3. j # m => j + 2 \in 1 .. m + 1 /\ last + (j + 2) - 1 = last + j + 1 /\ j + 1 + 1 = j + 2
            BY <1>1, <2>0
        <3>4. j # m => more[j + 1 + 1] = last + j + 1
            BY <2>1, <3>3
        <3>5. l[more[j + 1]] = IF j + 1 = Len(more) THEN -1 ELSE more[j + 1 + 1]
            BY <2>0, <2>9, <3>1
        <3> QED BY <2>0, <3>1, <3>2, <3>4, <3>5
    <2>11. l[c[Len(c)]] = n[1]
        <3>1. 0 \in 0 .. m /\ 0 # m /\ last + 0 = last /\ last + 0 + 1 = last + 1 /\ 1 \in 1 .. m
            BY <1>1, <2>0
        <3>2. l[last + 0] = last + 0 + 1
            BY <2>10, <3>1
        <3> QED BY <2>6, <3>1, <3>2 DEF last
    <2>12. \A k \in 1 .. Len(n) : l[n[k]] = IF k = Len(n) THEN -1 ELSE n[k + 1]
        <3>1. \A k \in 1 .. m : k \in 0 .. m /\ last + k + 1 = last + (k + 1) /\ (k # m => k + 1 \in 1 .. m)
            BY <1>1, <2>0
        <3> QED BY <2>5, <2>6, <2>10, <3>1
    <2>13. \A p \in Pages : p \notin Cells(n) /\ p # c[Len(c)] => l[p] = mh[p]
        <3>1. \A p \in Pages : p \in Cells(more) => p = last \/ p \in Cells(n)
            BY <1>1, <2>0, <2>5, <2>8, PagesFinite
        <3> QED BY <2>9, <3>1 DEF last
    <2> DEFINE d == c \o n
    <2>14. /\ Changed(mh, l, Cells(c), d) /\ Len(d) = Len(c) + m
           /\ \A k \in 1 .. Len(c) : d[k] = c[k]
           /\ \A k \in 1 .. m : d[Len(c) + k] = n[k]
        BY <2>0, <2>7, <2>9, <2>11, <2>12, <2>13, GluedIs, SMTT(40)
    <2> HIDE DEF d
    <2>15. Len(d) = count /\ r.handle = d[1] /\ count # 0
        BY <1>1, <2>3, <2>14 DEF m
    <2>16. ASSUME Straight(c) PROVE Straight(d)
        <3>1. last = c[1] + Len(c) - 1 /\ c[1] \in Nat /\ d[1] = c[1]
            BY <1>1, <2>14, <2>16, ChainFacts DEF last, Straight
        <3>2. ASSUME NEW k \in 1 .. Len(d) PROVE d[k] = c[1] + k - 1
            <4>1. CASE k <= Len(c)
                <5>1. k \in 1 .. Len(c)
                    BY <1>1, <4>1
                <5> QED BY <2>14, <2>16, <5>1 DEF Straight
            <4>2. CASE k > Len(c)
                <5>1. k - Len(c) \in 1 .. m /\ Len(c) + (k - Len(c)) = k
                    BY <1>1, <2>0, <2>14, <4>2
                <5>2. d[k] = last + (k - Len(c))
                    BY <2>6, <2>14, <5>1
                <5>3. k \in Nat /\ Len(c) \in Nat
                    BY <1>1, <2>14
                <5>4. \A f, size, i \in Nat : f + size - 1 + (i - size) = f + i - 1
                    OBVIOUS
                <5> HIDE DEF last
                <5>5. d[k] = c[1] + Len(c) - 1 + (k - Len(c))
                    BY <3>1, <5>2
                <5> QED BY <3>1, <5>3, <5>4, <5>5
            <4> QED BY <1>1, <4>1, <4>2
        <3> QED BY <3>1, <3>2 DEF Straight
    <2>17. r.links = l
        BY <2>3 DEF l
    <2> QED BY <2>3, <2>14, <2>15, <2>16, <2>17 DEF Resized
<1> QED BY <1>4, <1>5

\* A consecutive block moves to where it fits.
LEMMA MovedIs ==
    ASSUME NEW mh \in Types, NEW c, IsChain(mh, c), NEW count \in Nat \ {0},
           NEW r, r = Moved(mh, c[1], count)
    PROVE  Resized(mh, c, count, TRUE, r)
<1> DEFINE new == AllocatePages(mh, count, TRUE)
<1>1. \/ new.handle = 0 /\ new.links = mh
      \/ /\ new.handle \in Pages /\ new.handle # 0
         /\ \E n : /\ Takes(mh, n, count) /\ Changed(mh, new.links, {}, n) /\ n[1] = new.handle
                   /\ n = Consecutive(new.handle, count)
    <2>1. new = AllocatePages(mh, count, TRUE)
        OBVIOUS
    <2> HIDE DEF new
    <2>2. Allocated(mh, count, TRUE, new)
        BY <2>1, AllocateIs
    <2> QED BY <2>2 DEF Allocated
<1>2. r = IF new.handle = 0 THEN [done |-> FALSE, links |-> mh, handle |-> c[1]]
          ELSE [done |-> TRUE, links |-> ReleasePages(new.links, c[1]), handle |-> new.handle]
    BY DEF Moved
<1> HIDE DEF new
<1>3. CASE new.handle = 0
    <2>1. r.done = FALSE /\ r.links = mh /\ r.handle = c[1]
        BY <1>2, <1>3
    <2> QED BY <2>1 DEF Resized
<1>4. CASE new.handle # 0
    <2>1. PICK n : /\ Takes(mh, n, count) /\ Changed(mh, new.links, {}, n) /\ n[1] = new.handle
                   /\ n = Consecutive(new.handle, count)
        BY <1>1, <1>4
    <2>2. r.done = TRUE /\ r.links = ReleasePages(new.links, c[1]) /\ r.handle = n[1]
        BY <1>2, <1>4, <2>1
    <2>3. n \in Seq(Pages) /\ Len(n) = count /\ n # <<>> /\ Cells(n) \subseteq FreePages(mh)
        BY <2>1 DEF Takes
    <2>4. new.links \in Types /\ IsChain(new.links, n) /\ FreePages(new.links) = FreePages(mh) \ Cells(n)
        BY <2>1, <2>3 DEF Changed
    <2>5. IsChain(new.links, c) /\ Cells(c) \cap Cells(n) = {}
        BY <2>1, ChainKept
    <2>6. Changed(new.links, r.links, Cells(c), <<>>)
        BY <2>2, <2>4, <2>5, ReleaseIs
    <2>7. IsChain(r.links, n)
        BY <2>4, <2>5, <2>6, ChainKept
    <2>8. Changed(mh, r.links, Cells(c), n)
        <3>1. r.links \in Types
            BY <2>6 DEF Changed
        <3>2. FreePages(r.links) = FreePages(new.links) \cup Cells(c)
            BY <2>6, NoCells DEF Changed
        <3>3. FreePages(r.links) = (FreePages(mh) \cup Cells(c)) \ Cells(n)
            BY <2>4, <2>5, <3>2
        <3>4. ASSUME NEW p \in Pages, p \notin FreePages(mh) \cup Cells(c) PROVE r.links[p] = mh[p]
            <4>1. p \notin FreePages(new.links) \cup Cells(c)
                BY <2>4, <3>4
            <4>2. r.links[p] = new.links[p]
                BY <2>6, <4>1 DEF Changed
            <4>3. new.links[p] = mh[p]
                BY <2>1, <3>4 DEF Changed
            <4> QED BY <4>2, <4>3
        <3> QED BY <2>3, <2>7, <3>1, <3>3, <3>4 DEF Changed
    <2>9. Straight(n)
        BY <1>1, <1>4, <2>1, <2>3, ConsecutiveStraight
    <2> QED BY <2>2, <2>3, <2>8, <2>9 DEF Resized
<1> QED BY <1>3, <1>4

LEMMA ReAllocateIs ==
    ASSUME NEW mh \in Types, NEW c, IsChain(mh, c), NEW count \in Nat, NEW sequence \in BOOLEAN,
           NEW r, r = ReAllocatePages(mh, c[1], count, sequence)
    PROVE  Resized(mh, c, count, sequence, r)
<1>1. /\ Chain(mh, c[1]) = c /\ c \in Seq(Pages) /\ Len(c) \in Nat /\ Len(c) >= 1
      /\ c[1] \in Nat /\ c[1] > 0 /\ ~(c[1] <= 0)
    BY ChainIs, ChainFacts, PagesFinite
<1>2. CASE count = 0
    <2>1. r = [done |-> TRUE, links |-> ReleasePages(mh, c[1]), handle |-> -1]
        BY <1>1, <1>2 DEF ReAllocatePages
    <2>2. r.done = TRUE /\ r.links = ReleasePages(mh, c[1]) /\ r.handle = -1
        BY <2>1
    <2>3. Changed(mh, r.links, Cells(c), <<>>)
        BY <2>2, ReleaseIs
    <2>4. Straight(<<>>)
        BY DEF Straight
    <2>5. Len(<<>>) = 0 /\ \A k \in 1 .. Len(c) : ~(k <= 0)
        BY <1>1
    <2> QED BY <1>2, <2>2, <2>3, <2>4, <2>5 DEF Resized
<1>3. CASE count = Len(c)
    <2>1. r = [done |-> TRUE, links |-> mh, handle |-> c[1]]
        BY <1>1, <1>3 DEF ReAllocatePages
    <2>2. r.done = TRUE /\ r.links = mh /\ r.handle = c[1]
        BY <2>1
    <2>3. Changed(mh, r.links, Cells(c), c)
        BY <2>2, NothingChanged
    <2> QED BY <1>1, <1>3, <2>2, <2>3 DEF Resized
<1>4. CASE count \in 1 .. Len(c) - 1
    <2>1. r = [done |-> TRUE, links |-> Shrunk(mh, c, count), handle |-> c[1]]
        BY <1>1, <1>4 DEF ReAllocatePages
    <2>2. r.done = TRUE /\ r.links = Shrunk(mh, c, count) /\ r.handle = c[1]
        BY <2>1
    <2> DEFINE d == SubSeq(c, 1, count)
    <2>3. Changed(mh, r.links, Cells(c), d)
        BY <1>4, <2>2, ShrunkIs
    <2>4. IsPart(d, c, 1, count)
        <3>1. 1 \in 1 .. Len(c) /\ count \in 1 .. Len(c)
            BY <1>1, <1>4
        <3> QED BY <3>1, PartIs
    <2> HIDE DEF d
    <2>5. Len(d) = count /\ \A k \in 1 .. count : d[k] = c[k] /\ k \in 1 .. Len(c)
        <3>1. \A k \in 1 .. count : 1 + k - 1 = k /\ k \in 1 .. count - 1 + 1
            BY <1>1
        <3>2. count - 1 + 1 = count
            BY <1>1
        <3> QED BY <2>4, <3>1, <3>2 DEF IsPart
    <2>6. Straight(c) => Straight(d)
        <3>1. 1 \in 1 .. count
            BY <1>4
        <3> QED BY <2>5, <3>1 DEF Straight
    <2>7. \A k \in 1 .. Len(c) : k <= count => k \in 1 .. count
        BY <1>1
    <2>8. count # 0 /\ d[1] = c[1]
        BY <1>4, <2>5
    <2> QED BY <2>2, <2>3, <2>5, <2>6, <2>7, <2>8 DEF Resized
<1>5. CASE count > Len(c) /\ ~sequence
    <2>1. r = Extended(mh, c, count)
        BY <1>1, <1>5 DEF ReAllocatePages
    <2>2. sequence = FALSE
        BY <1>5
    <2> QED BY <1>5, <2>1, <2>2, ExtendedIs
<1>6. CASE count > Len(c) /\ sequence
    <2>1. r = IF GrownInPlace(mh, c, count).done THEN GrownInPlace(mh, c, count)
              ELSE Moved(mh, c[1], count)
        BY <1>1, <1>6 DEF ReAllocatePages
    <2>2. sequence = TRUE /\ count \in Nat \ {0}
        BY <1>1, <1>6
    <2>3. CASE GrownInPlace(mh, c, count).done
        BY <1>6, <2>1, <2>2, <2>3, GrownIs
    <2>4. CASE ~GrownInPlace(mh, c, count).done
        BY <1>6, <2>1, <2>2, <2>4, MovedIs
    <2> QED BY <2>3, <2>4
<1>7. count > Len(c) \/ count = Len(c) \/ count = 0 \/ count \in 1 .. Len(c) - 1
    BY <1>1
<1> QED BY <1>2, <1>3, <1>4, <1>5, <1>6, <1>7

-----------------------------------------------------------------------------
(* A block of size zero, which may remember a free page or a page of another block *)

Returned(r) == r.links \in Types /\ r.handle \in {-1, 0} \cup Pages /\ r.done \in BOOLEAN

LEMMA SuffixTyped ==
    ASSUME NEW mh \in Types, NEW c, IsChain(mh, c), NEW count \in Nat, NEW sequence \in BOOLEAN, NEW r,
           Resized(mh, c, count, sequence, r)
    PROVE  Returned(r)
<1>1. c[1] \in Pages
    BY ChainFacts
<1>2. CASE r.done = FALSE /\ r.links = mh /\ r.handle = c[1]
    BY <1>1, <1>2 DEF Returned
<1>3. CASE ~(r.done = FALSE /\ r.links = mh /\ r.handle = c[1])
    <2>1. PICK d : /\ r.done = TRUE /\ Changed(mh, r.links, Cells(c), d) /\ Len(d) = count
                   /\ r.handle = IF count = 0 THEN -1 ELSE d[1]
        BY <1>3 DEF Resized
    <2>2. r.links \in Types /\ d \in Seq(Pages)
        BY <2>1 DEF Changed
    <2>3. count # 0 => 1 \in 1 .. Len(d)
        BY <2>1
    <2>4. r.handle \in {-1, 0} \cup Pages
        BY <2>1, <2>2, <2>3
    <2>5. r.done \in BOOLEAN
        BY <2>1
    <2> QED BY <2>2, <2>4, <2>5 DEF Returned
<1> QED BY <1>2, <1>3

\* A resize of a page that stands for itself: it stays, or a block grows from it.
ResizedFree(mh, first, count, r) ==
    /\ Returned(r)
    /\ count = 0 => r.links = mh
    /\ count > 1 /\ r.handle = first =>
          \/ r.done = FALSE /\ r.links = mh
          \/ /\ r.done = TRUE
             /\ \E d : Changed(mh, r.links, {}, d) /\ Len(d) = count /\ d[1] = first /\ Straight(d)

LEMMA GrownFree ==
    ASSUME NEW mh \in Types, NEW first \in FreePages(mh), NEW count \in Nat, count > 1,
           NEW more, more = Consecutive(first, count),
           \A k \in 2 .. Len(more) : IsFree(mh, more[k])
    PROVE  Changed(mh, Linked(mh, more), {}, more) /\ Len(more) = count /\ more[1] = first /\ Straight(more)
<1>1. first \in Pages /\ first \in Nat
    BY PagesFinite DEF FreePages
<1>2. Len(more) = count /\ \A k \in 1 .. count : more[k] = first + k - 1
    BY DEF Consecutive
<1>3. \A k \in 1 .. count : first + k - 1 \in FreePages(mh)
    <2>1. \A k \in 1 .. count : k = 1 \/ k \in 2 .. Len(more)
        BY <1>2
    <2>2. first + 1 - 1 = first
        BY <1>1
    <2> QED BY <1>2, <2>1, <2>2 DEF IsFree, FreePages
<1>4. first + count - 1 <= LastPage
    <2>1. count \in 1 .. count
        OBVIOUS
    <2> QED BY <1>3, <2>1, PagesFinite DEF FreePages
<1>5. more \in Seq(Pages) /\ Distinct(more)
    BY <1>1, <1>4, ConsecutiveIs
<1>6. Takes(mh, more, count)
    <2>1. Cells(more) \subseteq FreePages(mh)
        BY <1>2, <1>3 DEF Cells
    <2> QED BY <1>2, <1>5, <2>1 DEF Takes
<1>7. Changed(mh, Linked(mh, more), {}, more)
    BY <1>6, TakenIs
<1>8. Straight(more)
    BY <1>1, <1>2, ConsecutiveStraight
<1>9. more[1] = first
    <2>1. 1 \in 1 .. count /\ first + 1 - 1 = first
        BY <1>1
    <2> QED BY <1>2, <2>1
<1> QED BY <1>2, <1>7, <1>8, <1>9

LEMMA MovedFree ==
    ASSUME NEW mh \in Types, NEW first \in FreePages(mh), NEW count \in Nat, count > 1,
           ~ \A k \in 2 .. Len(Consecutive(first, count)) : IsFree(mh, Consecutive(first, count)[k]),
           NEW r, r = Moved(mh, first, count)
    PROVE  ResizedFree(mh, first, count, r)
<1> DEFINE new == AllocatePages(mh, count, TRUE)
<1>1. r = IF new.handle = 0 THEN [done |-> FALSE, links |-> mh, handle |-> first]
          ELSE [done |-> TRUE, links |-> ReleasePages(new.links, first), handle |-> new.handle]
    BY DEF Moved
<1>2. Allocated(mh, count, TRUE, new)
    <2>1. new = AllocatePages(mh, count, TRUE)
        OBVIOUS
    <2> HIDE DEF new
    <2> QED BY <2>1, AllocateIs
<1> HIDE DEF new
<1>3. first \in Pages
    BY DEF FreePages
<1>4. CASE new.handle = 0
    <2>1. r.done = FALSE /\ r.links = mh /\ r.handle = first
        BY <1>1, <1>4
    <2>2. r.done \in BOOLEAN
        BY <2>1
    <2>3. r.links \in Types /\ r.handle \in {-1, 0} \cup Pages
        BY <1>3, <2>1
    <2>4. Returned(r)
        BY <2>2, <2>3 DEF Returned
    <2> QED BY <2>1, <2>4 DEF ResizedFree
<1>5. CASE new.handle # 0
    <2>1. PICK n : /\ Takes(mh, n, count) /\ Changed(mh, new.links, {}, n)
                   /\ n = Consecutive(new.handle, count) /\ new.handle \in Pages
        BY <1>2, <1>5 DEF Allocated
    <2>2. r.done = TRUE /\ r.links = ReleasePages(new.links, first) /\ r.handle = new.handle
        BY <1>1, <1>5
    <2>3. r.links \in Types /\ r.handle \in {-1, 0} \cup Pages
        BY <2>1, <2>2, ReleaseTyped DEF Changed
    <2>4. r.done \in BOOLEAN
        BY <2>2
    <2>5. new.handle # first
        <3>1. SUFFICES ASSUME new.handle = first PROVE FALSE
            OBVIOUS
        <3>2. n = Consecutive(first, count) /\ n \in Seq(Pages) /\ Cells(n) \subseteq FreePages(mh)
            BY <2>1, <3>1 DEF Takes
        <3>3. \A k \in 1 .. Len(n) : n[k] \in FreePages(mh)
            BY <3>2, CellsOf
        <3>4. \A k \in 2 .. Len(n) : k \in 1 .. Len(n)
            BY <3>2
        <3>5. \A k \in 2 .. Len(n) : IsFree(mh, n[k])
            BY <3>3, <3>4 DEF IsFree, FreePages
        <3> QED BY <3>2, <3>5
    <2>6. Returned(r) /\ r.handle # first
        BY <2>2, <2>3, <2>4, <2>5 DEF Returned
    <2> QED BY <2>6 DEF ResizedFree
<1> QED BY <1>4, <1>5

LEMMA ReAllocateFree ==
    ASSUME NEW mh \in Types, NEW first \in FreePages(mh), NEW count \in Nat,
           NEW sequence \in BOOLEAN, NEW r, r = ReAllocatePages(mh, first, count, sequence)
    PROVE  sequence => ResizedFree(mh, first, count, r)
<1>0. SUFFICES ASSUME sequence PROVE ResizedFree(mh, first, count, r)
    OBVIOUS
<1> DEFINE more == Consecutive(first, count)
           fits == \A k \in 2 .. Len(more) : IsFree(mh, more[k])
           grown == GrownInPlace(mh, <<first>>, count)
<1>1. /\ Chain(mh, first) = <<first>> /\ Len(<<first>>) = 1 /\ <<first>>[1] = first
      /\ first \in Pages /\ first \in Nat /\ first > 0 /\ ~(first <= 0)
    BY FreeChain, PagesFinite DEF FreePages
<1>2. CASE count = 0
    <2>1. r = [done |-> TRUE, links |-> ReleasePages(mh, first), handle |-> -1]
        BY <1>1, <1>2 DEF ReAllocatePages
    <2>2. ReleasePages(mh, first) = mh
        BY ReleaseNothing
    <2>3. r.done = TRUE /\ r.links = mh /\ r.handle = -1
        BY <2>1, <2>2
    <2>4. r.done \in BOOLEAN
        BY <2>3
    <2>5. Returned(r)
        BY <2>3, <2>4 DEF Returned
    <2>6. ~(count > 1)
        BY <1>2
    <2> QED BY <2>3, <2>5, <2>6 DEF ResizedFree
<1>3. CASE count = 1
    <2>1. r = [done |-> TRUE, links |-> mh, handle |-> first]
        BY <1>1, <1>3 DEF ReAllocatePages
    <2>2. r.done = TRUE /\ r.links = mh /\ r.handle = first
        BY <2>1
    <2>3. r.done \in BOOLEAN
        BY <2>2
    <2>4. Returned(r)
        BY <1>1, <2>2, <2>3 DEF Returned
    <2>5. ~(count > 1) /\ count # 0
        BY <1>3
    <2> QED BY <2>4, <2>5 DEF ResizedFree
<1>4. CASE count > 1
    <2>1. r = IF grown.done THEN grown ELSE Moved(mh, first, count)
        BY <1>0, <1>1, <1>4 DEF ReAllocatePages
    <2>2. grown = IF fits THEN [done |-> TRUE, links |-> Linked(mh, more), handle |-> first]
                  ELSE [done |-> FALSE, links |-> mh, handle |-> first]
        <3>1. count - 1 + 1 = count
            OBVIOUS
        <3> QED BY <1>1, <3>1 DEF GrownInPlace
    <2> HIDE DEF grown
    <2>3. CASE fits
        <3>1. Changed(mh, Linked(mh, more), {}, more) /\ Len(more) = count /\ more[1] = first /\ Straight(more)
            BY <1>4, <2>3, GrownFree
        <3> HIDE DEF fits, more
        <3>2. r.done = TRUE /\ r.links = Linked(mh, more) /\ r.handle = first
            BY <2>1, <2>2, <2>3
        <3>3. r.done \in BOOLEAN
            BY <3>2
        <3>4. Returned(r)
            BY <1>1, <3>1, <3>2, <3>3 DEF Returned, Changed
        <3>5. count # 0
            BY <1>4
        <3> QED BY <3>1, <3>2, <3>4, <3>5 DEF ResizedFree
    <2>4. CASE ~fits
        <3>1. r = Moved(mh, first, count)
            <4> HIDE DEF fits, more
            <4> QED BY <2>1, <2>2, <2>4
        <3> QED BY <1>4, <2>4, <3>1, MovedFree
    <2> QED BY <2>3, <2>4
<1>5. count = 0 \/ count = 1 \/ count > 1
    OBVIOUS
<1> QED BY <1>2, <1>3, <1>4, <1>5

-----------------------------------------------------------------------------
(* The owners of the pages *)

\* Size and first page of what an owner has, over any values of the drivers' tables.
SizeOf(x, e, o)  == IF o[1] = "xms" THEN x[o[2]].size ELSE e[o[2]].pages * PerEmsPage
FirstOf(x, e, o) == IF o[1] = "xms" THEN x[o[2]].mem ELSE e[o[2]].mem
HoldersOf(x, e)  == {o \in Owners : SizeOf(x, e, o) > 0}
Block(l, x, e, o) == Chain(l, FirstOf(x, e, o))

\* Every block is a chain as long as its size, the chains have no page in common, every page
\* that is not free is in one of them, and the pages of a block of XMS follow each other.
Apart(l, x, e) ==
    /\ l \in Types
    /\ \A o \in HoldersOf(x, e) :
          /\ IsChain(l, Block(l, x, e, o)) /\ Block(l, x, e, o)[1] = FirstOf(x, e, o)
          /\ Len(Block(l, x, e, o)) = SizeOf(x, e, o)
          /\ o[1] = "xms" => Straight(Block(l, x, e, o))
    /\ \A o, p \in HoldersOf(x, e) : o # p => Cells(Block(l, x, e, o)) \cap Cells(Block(l, x, e, p)) = {}
    /\ \A q \in Pages \ FreePages(l) : \E o \in HoldersOf(x, e) : q \in Cells(Block(l, x, e, o))

\* What an owner holds, and what one of another size holds afterwards.
HeldBy(l, x, e, o) == IF SizeOf(x, e, o) > 0 THEN Cells(Block(l, x, e, o)) ELSE {}

\* Only the owner o has another block.
OthersKeep(x, e, new, other, o) ==
    \A p \in Owners : p # o => SizeOf(new, other, p) = SizeOf(x, e, p) /\ FirstOf(new, other, p) = FirstOf(x, e, p)

\* The chain is the right one for an owner of this size.
Fits(new, other, o, c) ==
    /\ SizeOf(new, other, o) > 0 =>
          Len(c) = SizeOf(new, other, o) /\ c # <<>> /\ c[1] = FirstOf(new, other, o) /\ (o[1] = "xms" => Straight(c))
    /\ ~(SizeOf(new, other, o) > 0) => c = <<>>

\* Afterwards o has this chain, and the others have what they had.
Given(l, x, e, m, y, f, o, c) ==
    /\ Apart(m, y, f)
    /\ \A p \in HoldersOf(x, e) : p # o => p \in HoldersOf(y, f) /\ Block(m, y, f, p) = Block(l, x, e, p)
    /\ SizeOf(y, f, o) > 0 => Block(m, y, f, o) = c

\* The one operation on owners: o gives its pages back, and has the chain c now.
LEMMA OwnerStep ==
    ASSUME NEW l, NEW x, NEW e, Apart(l, x, e), NEW m, NEW y, NEW f, NEW o \in Owners,
           OthersKeep(x, e, y, f, o), NEW c, Changed(l, m, HeldBy(l, x, e, o), c), Fits(y, f, o, c)
    PROVE  Given(l, x, e, m, y, f, o, c)
<1>1. m \in Types /\ l \in Types
    BY DEF Changed, Apart
<1>2. ASSUME NEW p \in HoldersOf(x, e), p # o
      PROVE  /\ p \in HoldersOf(y, f) /\ Block(m, y, f, p) = Block(l, x, e, p)
             /\ IsChain(m, Block(l, x, e, p)) /\ Cells(Block(l, x, e, p)) \cap Cells(c) = {}
             /\ SizeOf(y, f, p) = SizeOf(x, e, p) /\ FirstOf(y, f, p) = FirstOf(x, e, p)
    <2> DEFINE d == Block(l, x, e, p)
    <2>1. p \in Owners /\ SizeOf(x, e, p) > 0
        BY DEF HoldersOf
    <2>2. SizeOf(y, f, p) = SizeOf(x, e, p) /\ FirstOf(y, f, p) = FirstOf(x, e, p)
        BY <1>2, <2>1 DEF OthersKeep
    <2>3. IsChain(l, d) /\ d[1] = FirstOf(x, e, p)
        BY DEF Apart
    <2>4. Cells(d) \cap HeldBy(l, x, e, o) = {}
        <3>1. CASE SizeOf(x, e, o) > 0
            <4>1. o \in HoldersOf(x, e)
                BY <3>1 DEF HoldersOf
            <4> QED BY <1>2, <3>1, <4>1 DEF Apart, HeldBy
        <3>2. CASE ~(SizeOf(x, e, o) > 0)
            BY <3>2 DEF HeldBy
        <3> QED BY <3>1, <3>2
    <2> HIDE DEF d
    <2>5. IsChain(m, d) /\ Cells(d) \cap Cells(c) = {}
        BY <1>1, <2>3, <2>4, ChainKept
    <2>6. Chain(m, d[1]) = d
        BY <2>5, ChainIs
    <2>7. Block(m, y, f, p) = d
        BY <2>2, <2>3, <2>6 DEF Block
    <2>8. p \in HoldersOf(y, f)
        BY <2>1, <2>2 DEF HoldersOf
    <2> QED BY <2>2, <2>5, <2>7, <2>8 DEF d
<1>3. ASSUME SizeOf(y, f, o) > 0
      PROVE  /\ IsChain(m, c) /\ Block(m, y, f, o) = c /\ c[1] = FirstOf(y, f, o) /\ Len(c) = SizeOf(y, f, o)
             /\ o[1] = "xms" => Straight(c)
    <2>1. IsChain(m, c) /\ c[1] = FirstOf(y, f, o)
        BY <1>3 DEF Changed, Fits
    <2>2. Chain(m, c[1]) = c
        BY <2>1, ChainIs
    <2> QED BY <1>3, <2>1, <2>2 DEF Block, Fits
<1>4. ASSUME NEW p \in HoldersOf(y, f), p # o PROVE p \in HoldersOf(x, e)
    <2>1. p \in Owners /\ SizeOf(y, f, p) > 0
        BY DEF HoldersOf
    <2>2. SizeOf(y, f, p) = SizeOf(x, e, p)
        BY <1>4, <2>1 DEF OthersKeep
    <2> QED BY <2>1, <2>2 DEF HoldersOf
<1>5. \A p \in HoldersOf(y, f) : p = o => SizeOf(y, f, o) > 0
    BY DEF HoldersOf
<1>6. ASSUME NEW p \in HoldersOf(y, f)
      PROVE  /\ IsChain(m, Block(m, y, f, p)) /\ Block(m, y, f, p)[1] = FirstOf(y, f, p)
             /\ Len(Block(m, y, f, p)) = SizeOf(y, f, p)
             /\ p[1] = "xms" => Straight(Block(m, y, f, p))
    <2>1. CASE p = o
        BY <1>3, <1>5, <2>1
    <2>2. CASE p # o
        <3>1. p \in HoldersOf(x, e)
            BY <1>4, <2>2
        <3>2. /\ IsChain(l, Block(l, x, e, p)) /\ Block(l, x, e, p)[1] = FirstOf(x, e, p)
              /\ Len(Block(l, x, e, p)) = SizeOf(x, e, p)
              /\ p[1] = "xms" => Straight(Block(l, x, e, p))
            BY <3>1 DEF Apart
        <3> QED BY <1>2, <2>2, <3>1, <3>2
    <2> QED BY <2>1, <2>2
<1>7. ASSUME NEW p \in HoldersOf(y, f), NEW q \in HoldersOf(y, f), p # q
      PROVE  Cells(Block(m, y, f, p)) \cap Cells(Block(m, y, f, q)) = {}
    <2>1. CASE p = o
        BY <1>2, <1>3, <1>4, <1>5, <1>7, <2>1
    <2>2. CASE q = o
        BY <1>2, <1>3, <1>4, <1>5, <1>7, <2>2
    <2>3. CASE p # o /\ q # o
        <3>1. p \in HoldersOf(x, e) /\ q \in HoldersOf(x, e)
            BY <1>4, <2>3
        <3>2. Cells(Block(l, x, e, p)) \cap Cells(Block(l, x, e, q)) = {}
            BY <1>7, <3>1 DEF Apart
        <3> QED BY <1>2, <2>3, <3>1, <3>2
    <2> QED BY <2>1, <2>2, <2>3
<1>8. ASSUME NEW q \in Pages \ FreePages(m) PROVE \E p \in HoldersOf(y, f) : q \in Cells(Block(m, y, f, p))
    <2>1. CASE q \in Cells(c)
        <3>1. c # <<>>
            BY <2>1, NoCells
        <3>2. o \in HoldersOf(y, f)
            BY <3>1 DEF HoldersOf, Fits
        <3> QED BY <1>3, <1>5, <2>1, <3>2
    <2>2. CASE q \notin Cells(c)
        <3>1. q \notin FreePages(l) \cup HeldBy(l, x, e, o)
            BY <2>2 DEF Changed
        <3>2. PICK p \in HoldersOf(x, e) : q \in Cells(Block(l, x, e, p))
            BY <3>1 DEF Apart
        <3>3. p # o
            BY <3>1, <3>2 DEF HeldBy, HoldersOf
        <3> QED BY <1>2, <3>2, <3>3
    <2> QED BY <2>1, <2>2
<1>9. Apart(m, y, f)
    BY <1>1, <1>6, <1>7, <1>8 DEF Apart
<1> QED BY <1>2, <1>3, <1>9 DEF Given

\* A page that is not free is in a chain, and from there on a chain of its own.
LEMMA UsedChain ==
    ASSUME NEW l, NEW x, NEW e, Apart(l, x, e), NEW first \in Pages \ FreePages(l)
    PROVE  \E c : IsChain(l, c) /\ c[1] = first
<1>1. PICK o \in HoldersOf(x, e) : first \in Cells(Block(l, x, e, o))
    BY DEF Apart
<1> DEFINE d == Block(l, x, e, o)
<1>2. IsChain(l, d)
    BY DEF Apart
<1>3. PICK k \in 1 .. Len(d) : d[k] = first
    BY <1>1 DEF Cells
<1> HIDE DEF d
<1>4. IsChain(l, SubSeq(d, k, Len(d))) /\ SubSeq(d, k, Len(d))[1] = first
    BY <1>2, <1>3, Suffix
<1> QED BY <1>4

\* Whatever a handle of XMS remembers, what is in the tables after a resize has its type.
LEMMA ResizeTyped ==
    ASSUME NEW l, NEW x, NEW e, Apart(l, x, e), NEW first \in {-1, 0} \cup Pages, NEW count \in Nat,
           NEW sequence \in BOOLEAN, NEW r, r = ReAllocatePages(l, first, count, sequence)
    PROVE  sequence => Returned(r)
<1>0. l \in Types
    BY DEF Apart
<1>1. CASE first \in Pages \ FreePages(l)
    <2>1. PICK c : IsChain(l, c) /\ c[1] = first
        BY <1>1, UsedChain
    <2>2. Resized(l, c, count, sequence, r)
        BY <1>0, <2>1, ReAllocateIs
    <2> QED BY <1>0, <2>1, <2>2, SuffixTyped
<1>2. CASE first \in FreePages(l)
    <2>1. sequence => ResizedFree(l, first, count, r)
        BY <1>0, <1>2, ReAllocateFree
    <2> QED BY <2>1 DEF ResizedFree
<1>3. CASE first \in {-1, 0}
    <2> DEFINE new == AllocatePages(l, count, sequence)
    <2>1. new = AllocatePages(l, count, sequence)
        OBVIOUS
    <2>2. first <= 0 /\ ~(first > 0)
        BY <1>3
    <2>3. r = IF count = 0 THEN [done |-> TRUE, links |-> l, handle |-> first]
              ELSE [done |-> new.handle > 0, links |-> new.links, handle |-> new.handle]
        BY <2>2 DEF ReAllocatePages
    <2> HIDE DEF new
    <2>4. Allocated(l, count, sequence, new)
        BY <1>0, <2>1, AllocateIs
    <2>5. new.links \in Types /\ new.handle \in {0} \cup Pages
        BY <1>0, <2>4 DEF Allocated, Changed
    <2>6. r.done \in BOOLEAN
        <3>1. CASE count = 0
            BY <2>3, <3>1
        <3>2. CASE count # 0
            <4>1. r.done = (new.handle > 0)
                BY <2>3, <3>2
            <4> QED BY <4>1
        <3> QED BY <3>1, <3>2
    <2>7. r.links \in Types /\ r.handle \in {-1, 0} \cup Pages
        BY <1>0, <1>3, <2>3, <2>5
    <2> QED BY <2>6, <2>7 DEF Returned
<1> QED BY <1>0, <1>1, <1>2, <1>3 DEF FreePages

-----------------------------------------------------------------------------
(* The invariant *)

Entries == {None} \cup (Ems \X EmsSizes)
XmsBlocks == [size : {Unused} \cup XmsSizes, mem : {-1, 0} \cup Pages, locked : 0 .. MaxLocks]
EmsHolds  == [pages : {Unused, 0, SystemPages} \cup EmsSizes, mem : {-1, 0} \cup Pages, saved : SUBSET [Frames -> Entries]]

TypeInv ==
    /\ links \in Types
    /\ xms \in [Xms -> XmsBlocks]
    /\ ems \in [Ems -> EmsHolds]
    /\ table \in [Frames -> Entries]
    /\ shown = [f \in Frames |-> shown[f]]
    /\ status \in {"running", "exited", "corrupt", "stale"}

\* A map in force or kept refers to pages that its handle has.
MapsHold == \A map \in Maps, f \in Frames : map[f] # None => map[f][2] < ems[map[f][1]].pages

\* The pages of a chain that make up a page of EMS.
View(c, page) == [i \in 1 .. PerEmsPage |-> c[page * PerEmsPage + i]]

EmsBlock(h) == Block(links, xms, ems, <<"ems", h>>)
WindowHolds ==
    \A f \in Frames : shown[f] = IF table[f] = None THEN None ELSE View(EmsBlock(table[f][1]), table[f][2])

Inv ==
    /\ TypeInv
    /\ status = "running" => Apart(links, xms, ems) /\ MapsHold /\ WindowHolds

-----------------------------------------------------------------------------
(* Numbers of the drivers *)

LEMMA Drivers ==
    /\ PerEmsPage \in Nat /\ PerEmsPage >= 1 /\ SystemPages \in Nat /\ SystemPages >= 1
    /\ MaxLocks \in Nat /\ XmsHandles \in Nat /\ XmsHandles >= 1 /\ EmsHandles \in Nat
    /\ \A n \in XmsSizes : n \in Nat /\ n # Unused
    /\ \A n \in EmsSizes : n \in Nat /\ n # Unused
    /\ SystemPages * PerEmsPage <= LastPage
    /\ 0 \in Ems
<1>1. /\ XmsHandles \in Nat \ {0} /\ EmsHandles \in Nat \ {0} /\ PerEmsPage \in Nat \ {0}
      /\ SystemPages \in Nat \ {0} /\ MaxLocks \in Nat \ {0}
    BY DriversAssumption
<1>2. \A n \in XmsSizes \cup EmsSizes : n \in Nat
    BY DriversAssumption, PagesFinite
<1> QED BY <1>1, <1>2, DriversAssumption DEF Unused, Ems

LEMMA PageCounts ==
    ASSUME NEW pages \in {Unused, 0, SystemPages} \cup EmsSizes
    PROVE  /\ pages \in Int /\ (pages = Unused \/ pages \in Nat) /\ Unused = -1
           /\ pages > 0 <=> pages * PerEmsPage > 0
           /\ pages > 0 => pages * PerEmsPage \in Nat \ {0}
           /\ pages = 0 => pages * PerEmsPage = 0
           /\ pages \in Nat => pages * PerEmsPage \in Nat
<1>1. pages \in Int /\ (pages = Unused \/ pages \in Nat) /\ Unused = -1
    BY Drivers DEF Unused
<1>2. PerEmsPage \in Nat /\ PerEmsPage >= 1
    BY Drivers
<1>3. CASE pages > 0
    <2>1. pages * PerEmsPage >= pages /\ pages * PerEmsPage \in Int
        <3>1. pages \in Nat /\ pages >= 1
            BY <1>1, <1>3
        <3>2. pages * (PerEmsPage - 1) >= 0 /\ PerEmsPage - 1 \in Nat
            BY <1>2, <3>1
        <3>3. pages * PerEmsPage = pages * (PerEmsPage - 1) + pages
            BY <1>2, <3>1
        <3> QED BY <1>2, <3>1, <3>2, <3>3
    <2> QED BY <1>1, <1>3, <2>1
<1>4. CASE pages = 0
    BY <1>1, <1>2, <1>4
<1>5. CASE pages = -1
    <2>1. pages * PerEmsPage = -PerEmsPage
        BY <1>2, <1>5
    <2> QED BY <1>1, <1>2, <1>5, <2>1
<1> QED BY <1>1, <1>3, <1>4, <1>5

\* A page of EMS that a handle has lies within its chain.
LEMMA PageWithin ==
    ASSUME NEW page \in EmsSizes, NEW pages \in {Unused, 0, SystemPages} \cup EmsSizes, page < pages
    PROVE  /\ page * PerEmsPage \in Nat /\ pages * PerEmsPage \in Nat /\ PerEmsPage \in Nat /\ PerEmsPage >= 1
           /\ page * PerEmsPage + PerEmsPage <= pages * PerEmsPage
           /\ \A i \in 1 .. PerEmsPage : page * PerEmsPage + i \in 1 .. pages * PerEmsPage
<1>1. page \in Nat /\ pages \in Nat /\ PerEmsPage \in Nat /\ PerEmsPage >= 1
    BY Drivers, PageCounts
<1>2. (page + 1) * PerEmsPage <= pages * PerEmsPage
    <2>1. page + 1 <= pages /\ page + 1 \in Nat
        BY <1>1
    <2>2. pages - (page + 1) \in Nat
        BY <1>1, <2>1
    <2>3. (pages - (page + 1)) * PerEmsPage >= 0
        BY <1>1, <2>2
    <2>4. (pages - (page + 1)) * PerEmsPage = pages * PerEmsPage - (page + 1) * PerEmsPage
        BY <1>1
    <2> QED BY <1>1, <2>3, <2>4
<1>3. (page + 1) * PerEmsPage = page * PerEmsPage + PerEmsPage
    BY <1>1
<1>4. page * PerEmsPage \in Nat /\ pages * PerEmsPage \in Nat
    BY <1>1
<1>5. page * PerEmsPage + PerEmsPage <= pages * PerEmsPage
    BY <1>2, <1>3
<1>6. \A i \in 1 .. PerEmsPage : page * PerEmsPage + i \in 1 .. pages * PerEmsPage
    <2> DEFINE s == page * PerEmsPage
               t == pages * PerEmsPage
    <2> HIDE DEF s, t
    <2>1. s \in Nat /\ t \in Nat /\ s + PerEmsPage <= t
        BY <1>4, <1>5 DEF s, t
    <2>2. \A i \in 1 .. PerEmsPage : s + i \in 1 .. t
        BY <1>1, <2>1
    <2> QED BY <2>2 DEF s, t
<1> QED BY <1>1, <1>4, <1>5, <1>6

-----------------------------------------------------------------------------
(* What a call changes *)

LEMMA OwnerIs ==
    /\ \A h \in Xms : <<"xms", h>> \in Owners
    /\ \A h \in Ems : <<"ems", h>> \in Owners
    /\ \A o \in Owners : \/ o[1] = "xms" /\ o[2] \in Xms /\ o = <<"xms", o[2]>>
                         \/ o[1] = "ems" /\ o[2] \in Ems /\ o = <<"ems", o[2]>>
BY DEF Owners

LEMMA MapsTyped ==
    ASSUME TypeInv, NEW map \in Maps, NEW f \in Frames, map[f] # None
    PROVE  map[f][1] \in Ems /\ map[f][2] \in EmsSizes /\ map[f][2] \in Nat /\ map[f] = <<map[f][1], map[f][2]>>
<1>1. map \in [Frames -> Entries]
    <2>1. CASE map = table
        BY <2>1 DEF TypeInv
    <2>2. ASSUME NEW h \in Ems, map \in ems[h].saved PROVE map \in [Frames -> Entries]
        BY <2>2 DEF TypeInv, EmsHolds
    <2> QED BY <2>1, <2>2 DEF Maps
<1>2. map[f] \in Ems \X EmsSizes
    BY <1>1 DEF Entries
<1> QED BY <1>2, Drivers

\* A handle that a map refers to holds the pages.
LEMMA MapHolder ==
    ASSUME TypeInv, MapsHold, NEW map \in Maps, NEW f \in Frames, map[f] # None
    PROVE  /\ <<"ems", map[f][1]>> \in HoldersOf(xms, ems)
           /\ SizeOf(xms, ems, <<"ems", map[f][1]>>) = ems[map[f][1]].pages * PerEmsPage
           /\ map[f][2] < ems[map[f][1]].pages /\ ems[map[f][1]].pages \in {Unused, 0, SystemPages} \cup EmsSizes
<1> DEFINE h == map[f][1]
           page == map[f][2]
<1>1. h \in Ems /\ page \in Nat /\ page < ems[h].pages
    BY MapsTyped DEF MapsHold
<1>2. ems[h].pages \in {Unused, 0, SystemPages} \cup EmsSizes
    BY <1>1 DEF TypeInv, EmsHolds
<1>3. SizeOf(xms, ems, <<"ems", h>>) = ems[h].pages * PerEmsPage /\ <<"ems", h>> \in Owners
    BY <1>1, OwnerIs DEF SizeOf
<1> HIDE DEF h, page
<1>4. ems[h].pages > 0
    <2>1. ems[h].pages \in Int
        BY <1>2, PageCounts
    <2> QED BY <1>1, <2>1
<1>5. ems[h].pages * PerEmsPage > 0
    BY <1>2, <1>4, PageCounts
<1>6. <<"ems", h>> \in HoldersOf(xms, ems)
    BY <1>3, <1>5 DEF HoldersOf
<1> QED BY <1>1, <1>2, <1>3, <1>6 DEF h, page

\* A call of XMS gives the pages of one handle back, and lets it have others.
LEMMA XmsStep ==
    ASSUME Inv, status = "running", ems' = ems, table' = table, shown' = shown,
           NEW h \in Xms, \A g \in Xms : g # h => xms'[g] = xms[g],
           NEW c, Changed(links, links', HeldBy(links, xms, ems, <<"xms", h>>), c),
           xms'[h].size > 0 => Len(c) = xms'[h].size /\ c # <<>> /\ c[1] = xms'[h].mem /\ Straight(c),
           ~(xms'[h].size > 0) => c = <<>>
    PROVE  Apart(links', xms', ems') /\ MapsHold' /\ WindowHolds'
<1> DEFINE o == <<"xms", h>>
<1>1. Apart(links, xms, ems) /\ MapsHold /\ WindowHolds /\ TypeInv
    BY DEF Inv
<1>2. o \in Owners /\ SizeOf(xms', ems', o) = xms'[h].size /\ FirstOf(xms', ems', o) = xms'[h].mem
    BY OwnerIs DEF SizeOf, FirstOf
<1>3. OthersKeep(xms, ems, xms', ems', o)
    <2>1. ASSUME NEW p \in Owners, p # o
          PROVE  SizeOf(xms', ems', p) = SizeOf(xms, ems, p) /\ FirstOf(xms', ems', p) = FirstOf(xms, ems, p)
        <3>1. CASE p[1] = "xms"
            <4>1. p[2] \in Xms /\ p[2] # h
                BY <2>1, <3>1, OwnerIs
            <4>2. xms'[p[2]] = xms[p[2]]
                BY <4>1
            <4> QED BY <3>1, <4>2 DEF SizeOf, FirstOf
        <3>2. CASE p[1] # "xms"
            BY <3>2 DEF SizeOf, FirstOf
        <3> QED BY <3>1, <3>2
    <2> HIDE DEF o
    <2> QED BY <2>1 DEF OthersKeep
<1>4. o[1] = "xms"
    OBVIOUS
<1>5. \A g : <<"ems", g>> # o
    OBVIOUS
<1> HIDE DEF o
<1>6. /\ Apart(links', xms', ems')
      /\ \A p \in HoldersOf(xms, ems) : p # o => Block(links', xms', ems', p) = Block(links, xms, ems, p)
    <2>1. Changed(links, links', HeldBy(links, xms, ems, o), c)
        BY DEF o
    <2>2. Fits(xms', ems', o, c)
        BY <1>2 DEF Fits
    <2>3. o \in Owners
        BY <1>2
    <2>4. Given(links, xms, ems, links', xms', ems', o, c)
        BY <1>1, <1>3, <2>1, <2>2, <2>3, OwnerStep
    <2> QED BY <2>4 DEF Given
<1>7. Maps' = Maps
    BY DEF Maps
<1>8. MapsHold'
    BY <1>1, <1>7 DEF MapsHold
<1>9. ASSUME NEW f \in Frames
      PROVE  shown'[f] = IF table'[f] = None THEN None
                         ELSE View(Block(links', xms', ems', <<"ems", table'[f][1]>>), table'[f][2])
    <2>1. CASE table[f] = None
        BY <1>1, <2>1 DEF WindowHolds
    <2>2. CASE table[f] # None
        <3>1. table \in Maps
            BY DEF Maps
        <3>2. <<"ems", table[f][1]>> \in HoldersOf(xms, ems)
            BY <1>1, <2>2, <3>1, MapHolder
        <3>3. Block(links', xms', ems', <<"ems", table[f][1]>>) = EmsBlock(table[f][1])
            BY <1>5, <1>6, <3>2 DEF EmsBlock
        <3>4. shown[f] = View(EmsBlock(table[f][1]), table[f][2])
            BY <1>1, <2>2 DEF WindowHolds
        <3> QED BY <2>2, <3>3, <3>4
    <2> QED BY <2>1, <2>2
<1>10. WindowHolds'
    BY <1>9 DEF WindowHolds, EmsBlock
<1> QED BY <1>6, <1>8, <1>10

\* The chain c is what handle h has next, and keeps the pages that a map refers to.
EmsFits(h, c) ==
    /\ ems'[h].pages > 0 => Len(c) = ems'[h].pages * PerEmsPage /\ c # <<>> /\ c[1] = ems'[h].mem
    /\ ~(ems'[h].pages > 0) => c = <<>>

KeepsMapped(h, c) ==
    \A map \in Maps, f \in Frames : map[f] # None /\ map[f][1] = h =>
        /\ map[f][2] < ems'[h].pages
        /\ \A k \in 1 .. ems'[h].pages * PerEmsPage : k <= ems[h].pages * PerEmsPage => c[k] = EmsBlock(h)[k]

\* A call of EMS does the same, and keeps the pages that a map refers to.
LEMMA EmsStep ==
    ASSUME Inv, status = "running", xms' = xms, table' = table, shown' = shown,
           NEW h \in Ems, \A g \in Ems : g # h => ems'[g] = ems[g], ems'[h].saved \subseteq ems[h].saved,
           ems'[h].pages \in {Unused, 0, SystemPages} \cup EmsSizes,
           NEW c, Changed(links, links', HeldBy(links, xms, ems, <<"ems", h>>), c), EmsFits(h, c), KeepsMapped(h, c)
    PROVE  Apart(links', xms', ems') /\ MapsHold' /\ WindowHolds'
<1> DEFINE o == <<"ems", h>>
<1>1. Apart(links, xms, ems) /\ MapsHold /\ WindowHolds /\ TypeInv
    BY DEF Inv
<1>2. /\ o \in Owners /\ SizeOf(xms', ems', o) = ems'[h].pages * PerEmsPage /\ FirstOf(xms', ems', o) = ems'[h].mem
      /\ o[1] # "xms"
    BY OwnerIs DEF SizeOf, FirstOf
<1>3. OthersKeep(xms, ems, xms', ems', o)
    <2>1. ASSUME NEW p \in Owners, p # o
          PROVE  SizeOf(xms', ems', p) = SizeOf(xms, ems, p) /\ FirstOf(xms', ems', p) = FirstOf(xms, ems, p)
        <3>1. CASE p[1] = "xms"
            BY <3>1 DEF SizeOf, FirstOf
        <3>2. CASE p[1] # "xms"
            <4>1. p[2] \in Ems /\ p[2] # h
                BY <2>1, <3>2, OwnerIs
            <4>2. ems'[p[2]] = ems[p[2]]
                BY <4>1
            <4> QED BY <3>2, <4>2 DEF SizeOf, FirstOf
        <3> QED BY <3>1, <3>2
    <2> HIDE DEF o
    <2> QED BY <2>1 DEF OthersKeep
<1>4. \A g : <<"ems", g>> = o => g = h
    OBVIOUS
<1>5. \A g : g = h => <<"ems", g>> = o
    OBVIOUS
<1> HIDE DEF o
<1>6. ems'[h].pages > 0 <=> SizeOf(xms', ems', o) > 0
    BY <1>2, PageCounts
<1>7. /\ Apart(links', xms', ems')
      /\ \A p \in HoldersOf(xms, ems) : p # o => Block(links', xms', ems', p) = Block(links, xms, ems, p)
      /\ SizeOf(xms', ems', o) > 0 => Block(links', xms', ems', o) = c
    <2>1. Changed(links, links', HeldBy(links, xms, ems, o), c)
        BY DEF o
    <2>2. Fits(xms', ems', o, c)
        BY <1>2, <1>6 DEF Fits, EmsFits
    <2>3. o \in Owners
        BY <1>2
    <2>4. Given(links, xms, ems, links', xms', ems', o, c)
        BY <1>1, <1>3, <2>1, <2>2, <2>3, OwnerStep
    <2> QED BY <2>4 DEF Given
<1>8. \A map \in Maps' : map \in Maps
    <2>1. ASSUME NEW g \in Ems, NEW map \in ems'[g].saved PROVE map \in ems[g].saved
        BY <2>1
    <2> QED BY <2>1 DEF Maps
<1>9. ASSUME NEW map \in Maps, NEW f \in Frames, map[f] # None
      PROVE  /\ map[f][2] < ems'[map[f][1]].pages
             /\ View(Block(links', xms', ems', <<"ems", map[f][1]>>), map[f][2]) = View(EmsBlock(map[f][1]), map[f][2])
    <2> DEFINE page == map[f][2]
    <2>1. map[f][1] \in Ems /\ page \in EmsSizes /\ page \in Nat
        BY <1>1, <1>9, MapsTyped
    <2>2. <<"ems", map[f][1]>> \in HoldersOf(xms, ems)
        BY <1>1, <1>9, MapHolder
    <2>3. page < ems[map[f][1]].pages /\ ems[map[f][1]].pages \in {Unused, 0, SystemPages} \cup EmsSizes
        BY <1>1, <1>9, MapHolder
    <2>4. CASE map[f][1] # h
        <3>1. ems'[map[f][1]] = ems[map[f][1]]
            BY <2>1, <2>4
        <3>2. Block(links', xms', ems', <<"ems", map[f][1]>>) = EmsBlock(map[f][1])
            BY <1>4, <1>7, <2>2, <2>4 DEF EmsBlock
        <3> QED BY <2>3, <3>1, <3>2
    <2>5. CASE map[f][1] = h
        <3>1. page < ems'[h].pages
            BY <1>9, <2>5 DEF KeepsMapped
        <3>2. ems'[h].pages > 0
            <4>1. ems'[h].pages \in Int
                BY PageCounts
            <4> HIDE DEF page
            <4> QED BY <2>1, <3>1, <4>1
        <3>3. Block(links', xms', ems', <<"ems", map[f][1]>>) = c
            BY <1>5, <1>6, <1>7, <2>5, <3>2
        <3>4. \A i \in 1 .. PerEmsPage :
                 /\ page * PerEmsPage + i \in 1 .. ems'[h].pages * PerEmsPage
                 /\ page * PerEmsPage + i \in 1 .. ems[h].pages * PerEmsPage
            <4> HIDE DEF page
            <4> QED BY <2>1, <2>3, <2>5, <3>1, PageWithin
        <3>5. \A i \in 1 .. PerEmsPage : page * PerEmsPage + i <= ems[h].pages * PerEmsPage
            BY <3>4
        <3>6. \A k \in 1 .. ems'[h].pages * PerEmsPage :
                 k <= ems[h].pages * PerEmsPage => c[k] = EmsBlock(h)[k]
            BY <1>9, <2>5 DEF KeepsMapped
        <3>7. \A i \in 1 .. PerEmsPage : c[page * PerEmsPage + i] = EmsBlock(h)[page * PerEmsPage + i]
            BY <3>4, <3>5, <3>6
        <3>8. View(c, page) = View(EmsBlock(h), page)
            <4> HIDE DEF page
            <4> QED BY <3>7 DEF View
        <3> QED BY <2>5, <3>1, <3>3, <3>8
    <2> QED BY <2>4, <2>5
<1>10. MapsHold'
    BY <1>8, <1>9 DEF MapsHold
<1>11. ASSUME NEW f \in Frames
       PROVE  shown'[f] = IF table'[f] = None THEN None
                          ELSE View(Block(links', xms', ems', <<"ems", table'[f][1]>>), table'[f][2])
    <2>1. table \in Maps
        BY DEF Maps
    <2>2. shown[f] = IF table[f] = None THEN None ELSE View(EmsBlock(table[f][1]), table[f][2])
        BY <1>1 DEF WindowHolds
    <2>3. table[f] # None =>
             View(Block(links', xms', ems', <<"ems", table[f][1]>>), table[f][2]) = View(EmsBlock(table[f][1]), table[f][2])
        BY <1>9, <2>1
    <2> QED BY <2>2, <2>3
<1>12. WindowHolds'
    BY <1>11 DEF WindowHolds, EmsBlock
<1> QED BY <1>7, <1>10, <1>12

-----------------------------------------------------------------------------
(* The calls of XMS *)

LEMMA InvParts ==
    ASSUME Inv, status = "running"
    PROVE  /\ Apart(links, xms, ems) /\ MapsHold /\ WindowHolds /\ TypeInv
           /\ links \in Types /\ xms \in [Xms -> XmsBlocks] /\ ems \in [Ems -> EmsHolds]
BY DEF Inv, TypeInv

LEMMA XmsParts ==
    ASSUME Inv, NEW h \in Xms
    PROVE  /\ xms[h].size \in {Unused} \cup XmsSizes /\ xms[h].mem \in {-1, 0} \cup Pages
           /\ xms[h].locked \in 0 .. MaxLocks
           /\ xms[h].size \in Int /\ (xms[h].size = Unused \/ xms[h].size \in Nat) /\ Unused = -1
<1>1. xms[h] \in XmsBlocks
    BY DEF Inv, TypeInv
<1>2. /\ xms[h].size \in {Unused} \cup XmsSizes /\ xms[h].mem \in {-1, 0} \cup Pages
      /\ xms[h].locked \in 0 .. MaxLocks
    BY <1>1 DEF XmsBlocks
<1> QED BY <1>2, Drivers DEF Unused

\* What a handle of XMS holds.
LEMMA XmsHeld ==
    ASSUME Inv, status = "running", NEW h \in Xms
    PROVE  /\ xms[h].size > 0 =>
                 LET c == Block(links, xms, ems, <<"xms", h>>)
                 IN /\ IsChain(links, c) /\ c[1] = xms[h].mem /\ Len(c) = xms[h].size /\ Straight(c)
                    /\ HeldBy(links, xms, ems, <<"xms", h>>) = Cells(c)
           /\ ~(xms[h].size > 0) => HeldBy(links, xms, ems, <<"xms", h>>) = {}
<1> DEFINE o == <<"xms", h>>
<1>1. o \in Owners /\ o[1] = "xms" /\ SizeOf(xms, ems, o) = xms[h].size /\ FirstOf(xms, ems, o) = xms[h].mem
    BY OwnerIs DEF SizeOf, FirstOf
<1> HIDE DEF o
<1>2. xms[h].size > 0 => o \in HoldersOf(xms, ems)
    BY <1>1 DEF HoldersOf
<1>3. Apart(links, xms, ems)
    BY InvParts
<1> QED BY <1>1, <1>2, <1>3 DEF Apart, HeldBy, o

\* A call that leaves the pages, and the handle's block, as they are.
LEMMA XmsSame ==
    ASSUME Inv, status = "running", ems' = ems, table' = table, shown' = shown, links' = links,
           NEW h \in Xms, \A g \in Xms : g # h => xms'[g] = xms[g],
           xms'[h].size = xms[h].size \/ (~(xms[h].size > 0) /\ ~(xms'[h].size > 0)),
           xms[h].size > 0 => xms'[h].mem = xms[h].mem
    PROVE  Apart(links', xms', ems') /\ MapsHold' /\ WindowHolds'
<1>1. links \in Types
    BY InvParts
<1>2. CASE xms[h].size > 0
    <2> DEFINE c == Block(links, xms, ems, <<"xms", h>>)
    <2>1. /\ IsChain(links, c) /\ c[1] = xms[h].mem /\ Len(c) = xms[h].size /\ Straight(c)
          /\ HeldBy(links, xms, ems, <<"xms", h>>) = Cells(c)
        BY <1>2, XmsHeld
    <2> HIDE DEF c
    <2>2. Changed(links, links', HeldBy(links, xms, ems, <<"xms", h>>), c)
        BY <1>1, <2>1, NothingChanged
    <2>3. c # <<>> /\ xms'[h].size = xms[h].size /\ xms'[h].mem = xms[h].mem
        BY <1>2, <2>1 DEF IsChain
    <2> QED BY <1>2, <2>1, <2>2, <2>3, XmsStep
<1>3. CASE ~(xms[h].size > 0)
    <2>1. HeldBy(links, xms, ems, <<"xms", h>>) = {}
        BY <1>3, XmsHeld
    <2>2. Changed(links, links', HeldBy(links, xms, ems, <<"xms", h>>), <<>>)
        BY <1>1, <2>1, NothingChanged
    <2>3. ~(xms'[h].size > 0)
        BY <1>3
    <2> QED BY <2>2, <2>3, XmsStep
<1> QED BY <1>2, <1>3

LEMMA InvAgain ==
    ASSUME TypeInv', status' = "running" => Apart(links', xms', ems') /\ MapsHold' /\ WindowHolds'
    PROVE  Inv'
BY DEF Inv

\* Types after a call of XMS.
LEMMA XmsTypes ==
    ASSUME Inv, ems' = ems, table' = table, shown' = shown, links' \in Types,
           NEW h \in Xms, NEW b \in XmsBlocks, xms' = [xms EXCEPT ![h] = b],
           status' \in {"running", "corrupt"}
    PROVE  TypeInv' /\ xms'[h] = b /\ \A g \in Xms : g # h => xms'[g] = xms[g]
<1>1. xms \in [Xms -> XmsBlocks]
    BY DEF Inv, TypeInv
<1>2. xms' \in [Xms -> XmsBlocks] /\ xms'[h] = b /\ \A g \in Xms : g # h => xms'[g] = xms[g]
    BY <1>1
<1>3. links' \in Types /\ ems' \in [Ems -> EmsHolds] /\ table' \in [Frames -> Entries]
      /\ shown' = [f \in Frames |-> shown'[f]] /\ status' \in {"running", "exited", "corrupt", "stale"}
    BY DEF Inv, TypeInv
<1> QED BY <1>2, <1>3 DEF TypeInv

LEMMA ZeroMemIs ==
    ASSUME links \in Types
    PROVE  ZeroMem \in {-1, 0} \cup Pages
BY BestMatchIs DEF ZeroMem

LEMMA DoXmsAllocate ==
    ASSUME Inv, NEW size \in XmsSizes, XmsAllocate(size)
    PROVE  Inv'
<1> DEFINE new == AllocatePages(links, size, TRUE)
<1>1. status = "running" /\ status' = "running"
    BY DEF XmsAllocate
<1>2. links \in Types /\ size \in Nat
    BY <1>1, InvParts, Drivers
<1>3. Allocated(links, size, TRUE, new)
    <2>1. new = AllocatePages(links, size, TRUE)
        OBVIOUS
    <2> HIDE DEF new
    <2> QED BY <1>2, <2>1, AllocateIs
<1>4. /\ links' = new.links /\ ems' = ems /\ table' = table /\ shown' = shown
      /\ size > 0 => new.handle # 0
    BY DEF XmsAllocate, windowVars
<1> DEFINE mem == IF size = 0 THEN ZeroMem ELSE new.handle
           b == [size |-> size, locked |-> 0, mem |-> mem]
<1>5. PICK h \in FreeXms : xms' = [xms EXCEPT ![h] = b]
    BY DEF XmsAllocate
<1>6. h \in Xms /\ xms[h].size = Unused
    BY DEF FreeXms
<1>7. ~(xms[h].size > 0)
    BY <1>6 DEF Unused
<1> HIDE DEF new
<1>8. links' \in Types /\ mem \in {-1, 0} \cup Pages
    BY <1>2, <1>3, <1>4, ZeroMemIs DEF Allocated, Changed
<1> HIDE DEF mem
<1>9. b \in XmsBlocks
    BY <1>8, Drivers DEF XmsBlocks
<1>10. b.size = size /\ b.mem = mem
    OBVIOUS
<1> HIDE DEF b
<1>11. TypeInv' /\ xms'[h] = b /\ \A g \in Xms : g # h => xms'[g] = xms[g]
    BY <1>1, <1>4, <1>5, <1>6, <1>8, <1>9, XmsTypes
<1>12. CASE size = 0
    <2>1. links' = links
        BY <1>3, <1>4, <1>12 DEF Allocated
    <2>2. ~(xms'[h].size > 0)
        BY <1>10, <1>11, <1>12
    <2>3. Apart(links', xms', ems') /\ MapsHold' /\ WindowHolds'
        BY <1>1, <1>4, <1>6, <1>7, <1>11, <2>1, <2>2, XmsSame
    <2> QED BY <1>11, <2>3, InvAgain
<1>13. CASE size # 0
    <2>1. size > 0 /\ new.handle # 0 /\ mem = new.handle
        BY <1>2, <1>4, <1>13 DEF mem
    <2>2. PICK c : /\ Takes(links, c, size) /\ Changed(links, new.links, {}, c) /\ c[1] = new.handle
                   /\ c = Consecutive(new.handle, size) /\ new.handle \in Pages
        BY <1>3, <2>1 DEF Allocated
    <2>3. HeldBy(links, xms, ems, <<"xms", h>>) = {}
        BY <1>1, <1>6, <1>7, XmsHeld
    <2>4. Changed(links, links', HeldBy(links, xms, ems, <<"xms", h>>), c)
        BY <1>4, <2>2, <2>3
    <2>5. Len(c) = size /\ c # <<>>
        BY <2>1, <2>2 DEF Takes
    <2>6. Straight(c)
        BY <1>2, <2>1, <2>2, <2>5, ConsecutiveStraight
    <2>7. xms'[h].size = size /\ xms'[h].mem = c[1]
        BY <1>10, <1>11, <2>1, <2>2
    <2>8. Apart(links', xms', ems') /\ MapsHold' /\ WindowHolds'
        BY <1>1, <1>4, <1>6, <1>11, <2>1, <2>4, <2>5, <2>6, <2>7, XmsStep
    <2> QED BY <1>11, <2>8, InvAgain
<1> QED BY <1>12, <1>13

LEMMA DoXmsFree ==
    ASSUME Inv, NEW h \in Xms, XmsFree(h)
    PROVE  Inv'
<1> DEFINE mem == xms[h].mem
           harm == IsZero(h) /\ links[mem] # 0
<1>1. /\ status = "running" /\ links' = ReleasePages(links, mem) /\ xms' = [xms EXCEPT ![h] = FreeBlock]
      /\ ems' = ems /\ table' = table /\ shown' = shown
    BY DEF XmsFree, windowVars
<1>2. status' \in {"running", "corrupt"} /\ (harm => status' = "corrupt")
    BY DEF XmsFree, Outcomes
<1>3. links \in Types /\ links' \in Types
    BY <1>1, InvParts, ReleaseTyped
<1>4. FreeBlock \in XmsBlocks /\ FreeBlock.size = -1
    BY Drivers DEF FreeBlock, XmsBlocks, Unused
<1>5. TypeInv' /\ xms'[h] = FreeBlock /\ \A g \in Xms : g # h => xms'[g] = xms[g]
    BY <1>1, <1>2, <1>3, <1>4, XmsTypes
<1>6. ~(xms'[h].size > 0)
    BY <1>4, <1>5
<1>7. CASE xms[h].size > 0
    <2> DEFINE c == Block(links, xms, ems, <<"xms", h>>)
    <2>1. IsChain(links, c) /\ c[1] = mem /\ HeldBy(links, xms, ems, <<"xms", h>>) = Cells(c)
        BY <1>1, <1>7, XmsHeld
    <2> HIDE DEF c, mem
    <2>2. Changed(links, links', HeldBy(links, xms, ems, <<"xms", h>>), <<>>)
        BY <1>1, <1>3, <2>1, ReleaseIs
    <2>3. Apart(links', xms', ems') /\ MapsHold' /\ WindowHolds'
        BY <1>1, <1>5, <1>6, <2>2, XmsStep
    <2> QED BY <1>5, <2>3, InvAgain
<1>8. CASE ~(xms[h].size > 0)
    <2>1. SUFFICES ASSUME status' = "running" PROVE Apart(links', xms', ems') /\ MapsHold' /\ WindowHolds'
        BY <1>5, InvAgain
    <2>2. mem \in {-1, 0} \cup FreePages(links)
        <3>1. mem \in {-1, 0} \cup Pages /\ xms[h].size = 0
            <4>1. xms[h].size # Unused
                BY DEF XmsFree
            <4> QED BY <1>8, <4>1, XmsParts
        <3>2. ~harm
            BY <1>2, <2>1
        <3>3. mem \in Pages => mem > 0
            BY PagesFinite
        <3> QED BY <3>1, <3>2, <3>3 DEF IsZero, FreePages
    <2>3. links' = links
        BY <1>1, <1>3, <2>2, ReleaseNothing
    <2> QED BY <1>1, <1>5, <1>6, <1>8, <2>3, XmsSame
<1> QED BY <1>7, <1>8

LEMMA DoXmsLock ==
    ASSUME Inv, NEW h \in Xms, XmsLock(h) \/ XmsUnlock(h)
    PROVE  Inv'
<1>1. /\ status = "running" /\ status' = status /\ links' = links
      /\ ems' = ems /\ table' = table /\ shown' = shown
    BY DEF XmsLock, XmsUnlock, windowVars
<1>2. xms[h] \in XmsBlocks /\ xms[h].locked \in 0 .. MaxLocks
    BY XmsParts DEF Inv, TypeInv
<1>3. PICK n \in 0 .. MaxLocks : xms' = [xms EXCEPT ![h].locked = n]
    <2>1. CASE XmsLock(h)
        <3>1. xms[h].locked + 1 \in 0 .. MaxLocks /\ xms' = [xms EXCEPT ![h].locked = xms[h].locked + 1]
            BY <1>2, <2>1, Drivers DEF XmsLock
        <3> QED BY <3>1
    <2>2. CASE XmsUnlock(h)
        <3>1. xms[h].locked - 1 \in 0 .. MaxLocks /\ xms' = [xms EXCEPT ![h].locked = xms[h].locked - 1]
            BY <1>2, <2>2, Drivers DEF XmsUnlock
        <3> QED BY <3>1
    <2> QED BY <2>1, <2>2
<1> DEFINE b == [xms[h] EXCEPT !.locked = n]
<1>4. b \in XmsBlocks /\ b.size = xms[h].size /\ b.mem = xms[h].mem
    BY <1>2 DEF XmsBlocks
<1>5. xms' = [xms EXCEPT ![h] = b]
    BY <1>3
<1>6. links' \in Types /\ status' \in {"running", "corrupt"}
    BY <1>1, InvParts
<1> HIDE DEF b
<1>7. TypeInv' /\ xms'[h] = b /\ \A g \in Xms : g # h => xms'[g] = xms[g]
    BY <1>1, <1>4, <1>5, <1>6, XmsTypes
<1>8. Apart(links', xms', ems') /\ MapsHold' /\ WindowHolds'
    BY <1>1, <1>4, <1>7, XmsSame
<1> QED BY <1>7, <1>8, InvAgain

\* A block that was resized, and a block of size zero that became one.
LEMMA DoXmsResize ==
    ASSUME Inv, NEW h \in Xms, NEW size \in XmsSizes, XmsResize(h, size)
    PROVE  Inv'
<1> DEFINE mem == xms[h].mem
           new == ReAllocatePages(links, mem, size, TRUE)
           harm == IsZero(h) /\ (links[mem] # 0 \/ (size > 0 /\ (size = 1 \/ new.handle # mem)))
           b == [xms[h] EXCEPT !.mem = new.handle, !.size = IF new.done THEN size ELSE xms[h].size]
<1>1. /\ status = "running" /\ xms[h].size # Unused /\ links' = new.links
      /\ ems' = ems /\ table' = table /\ shown' = shown
    BY DEF XmsResize, MayResize, windowVars
<1>2. xms' = [xms EXCEPT ![h] = b]
    BY DEF XmsResize
<1>3. status' \in {"running", "corrupt"} /\ (harm => status' = "corrupt")
    BY DEF XmsResize, Outcomes
<1>4. /\ links \in Types /\ size \in Nat /\ xms[h].size \in Nat /\ mem \in {-1, 0} \cup Pages
      /\ Apart(links, xms, ems)
    BY <1>1, InvParts, XmsParts, Drivers
<1>5. new = ReAllocatePages(links, mem, size, TRUE)
    OBVIOUS
<1> HIDE DEF new
<1>6. Returned(new)
    <2> DEFINE sequence == TRUE
    <2>1. sequence \in BOOLEAN /\ sequence /\ new = ReAllocatePages(links, mem, size, sequence)
        BY <1>5
    <2> HIDE DEF sequence, mem
    <2>2. sequence => Returned(new)
        BY <1>4, <2>1, ResizeTyped
    <2> QED BY <2>1, <2>2
<1>7. new.links \in Types /\ new.handle \in {-1, 0} \cup Pages
    BY <1>6 DEF Returned
<1>8. xms[h] \in XmsBlocks
    BY DEF Inv, TypeInv
<1>9. b \in XmsBlocks /\ b.mem = new.handle /\ b.size = IF new.done THEN size ELSE xms[h].size
    BY <1>7, <1>8 DEF XmsBlocks
<1> HIDE DEF b, mem
<1>10. TypeInv' /\ xms'[h] = b /\ \A g \in Xms : g # h => xms'[g] = xms[g]
    BY <1>1, <1>2, <1>3, <1>7, <1>9, XmsTypes
<1>11. SUFFICES ASSUME status' = "running" PROVE Apart(links', xms', ems') /\ MapsHold' /\ WindowHolds'
    BY <1>10, InvAgain
\* The handle holds no page, and gets those of d.
<1>12. ASSUME NEW d, Changed(links, new.links, {}, d), new.done = TRUE, Len(d) = size, size > 0,
              d[1] = new.handle, Straight(d), xms[h].size = 0
       PROVE  Apart(links', xms', ems') /\ MapsHold' /\ WindowHolds'
    <2>1. HeldBy(links, xms, ems, <<"xms", h>>) = {}
        BY <1>1, <1>12, XmsHeld
    <2>2. Changed(links, links', HeldBy(links, xms, ems, <<"xms", h>>), d)
        BY <1>1, <1>12, <2>1
    <2>3. d # <<>>
        BY <1>12
    <2>4. xms'[h].size = size /\ xms'[h].mem = d[1]
        BY <1>9, <1>10, <1>12
    <2> QED BY <1>1, <1>10, <1>12, <2>2, <2>3, <2>4, XmsStep
\* The handle holds no page, before and after.
<1>13. ASSUME new.links = links, xms[h].size = 0, ~(b.size > 0)
       PROVE  Apart(links', xms', ems') /\ MapsHold' /\ WindowHolds'
    <2>1. links' = links /\ ~(xms'[h].size > 0) /\ ~(xms[h].size > 0)
        BY <1>1, <1>10, <1>13
    <2> QED BY <1>1, <1>10, <2>1, XmsSame
<1>14. CASE xms[h].size > 0
    <2> DEFINE c == Block(links, xms, ems, <<"xms", h>>)
    <2>1. /\ IsChain(links, c) /\ c[1] = mem /\ Len(c) = xms[h].size /\ Straight(c)
          /\ HeldBy(links, xms, ems, <<"xms", h>>) = Cells(c)
        BY <1>1, <1>14, XmsHeld DEF mem
    <2> HIDE DEF c
    <2>2. /\ \/ new.done = FALSE /\ new.links = links /\ new.handle = c[1]
             \/ /\ new.done = TRUE
                /\ \E d : /\ Changed(links, new.links, Cells(c), d) /\ Len(d) = size
                          /\ new.handle = IF size = 0 THEN -1 ELSE d[1]
                          /\ Straight(d)
        <3>1. Resized(links, c, size, TRUE, new)
            <4>1. new = ReAllocatePages(links, c[1], size, TRUE)
                BY <1>5, <2>1
            <4> QED BY <1>4, <2>1, <4>1, ReAllocateIs
        <3> QED BY <2>1, <3>1 DEF Resized
    <2>3. CASE new.done = FALSE
        <3>1. links' = links /\ xms'[h].size = xms[h].size /\ xms'[h].mem = xms[h].mem
            BY <1>1, <1>9, <1>10, <2>1, <2>2, <2>3 DEF mem
        <3> QED BY <1>1, <1>10, <3>1, XmsSame
    <2>4. CASE new.done = TRUE
        <3>1. PICK d : /\ Changed(links, new.links, Cells(c), d) /\ Len(d) = size
                       /\ new.handle = IF size = 0 THEN -1 ELSE d[1]
                       /\ Straight(d)
            BY <2>2, <2>4
        <3>2. Changed(links, links', HeldBy(links, xms, ems, <<"xms", h>>), d)
            BY <1>1, <2>1, <3>1
        <3>3. xms'[h].size = size /\ xms'[h].mem = new.handle
            BY <1>9, <1>10, <2>4
        <3>4. size = 0 => d = <<>>
            BY <3>1 DEF Changed
        <3>5. size # 0 => size > 0 /\ d # <<>> /\ new.handle = d[1]
            BY <1>4, <3>1
        <3>6. xms'[h].size > 0 => Len(d) = xms'[h].size /\ d # <<>> /\ d[1] = xms'[h].mem /\ Straight(d)
            BY <3>1, <3>3, <3>5
        <3>7. ~(xms'[h].size > 0) => d = <<>>
            BY <1>4, <3>3, <3>4, <3>5
        <3> QED BY <1>1, <1>10, <3>2, <3>6, <3>7, XmsStep
    <2> QED BY <2>2, <2>3, <2>4
<1>15. CASE xms[h].size = 0 /\ mem \in {-1, 0}
    <2> DEFINE r == AllocatePages(links, size, TRUE)
    <2>1. new = IF size = 0 THEN [done |-> TRUE, links |-> links, handle |-> mem]
                ELSE [done |-> r.handle > 0, links |-> r.links, handle |-> r.handle]
        <3>1. mem <= 0 /\ ~(mem > 0)
            BY <1>15
        <3> QED BY <1>4, <1>5, <3>1 DEF ReAllocatePages
    <2>2. r = AllocatePages(links, size, TRUE)
        OBVIOUS
    <2> HIDE DEF r
    <2>3. Allocated(links, size, TRUE, r)
        BY <1>4, <2>2, AllocateIs
    <2>4. CASE size = 0
        <3>1. new.links = links
            BY <2>1, <2>4
        <3>2. ~(b.size > 0)
            BY <1>9, <1>15, <2>4
        <3> QED BY <1>13, <1>15, <3>1, <3>2
    <2>5. CASE size # 0 /\ r.handle = 0
        <3>1. new.links = r.links /\ new.done = (r.handle > 0)
            BY <2>1, <2>5
        <3>2. r.links = links /\ ~(r.handle > 0)
            BY <2>3, <2>5 DEF Allocated
        <3>3. ~(b.size > 0)
            <4>1. ~new.done
                BY <3>1, <3>2
            <4>2. b.size = xms[h].size
                BY <1>9, <4>1
            <4> QED BY <1>15, <4>2
        <3> QED BY <1>13, <1>15, <3>1, <3>2, <3>3
    <2>6. CASE size # 0 /\ r.handle # 0
        <3>1. new.links = r.links /\ new.handle = r.handle /\ new.done = (r.handle > 0)
            BY <2>1, <2>6
        <3>2. PICK d : /\ Takes(links, d, size) /\ Changed(links, r.links, {}, d) /\ d[1] = r.handle
                       /\ d = Consecutive(r.handle, size) /\ r.handle \in Pages
            BY <2>3, <2>6 DEF Allocated
        <3>3. r.handle > 0 /\ size > 0
            BY <1>4, <2>6, <3>2, PagesFinite
        <3>4. new.done = TRUE
            BY <3>1, <3>3
        <3>5. Len(d) = size
            BY <3>2 DEF Takes
        <3>6. Straight(d)
            BY <1>4, <3>2, <3>3, <3>5, ConsecutiveStraight
        <3> QED BY <1>12, <1>15, <3>1, <3>2, <3>3, <3>4, <3>5, <3>6
    <2> QED BY <2>4, <2>5, <2>6
<1>16. CASE xms[h].size = 0 /\ mem \in Pages
    <2>1. IsZero(h)
        BY <1>16, PagesFinite DEF IsZero, mem
    <2>2. links[mem] = 0 /\ (size > 0 => size # 1 /\ new.handle = mem)
        BY <1>3, <1>11, <2>1
    <2>3. mem \in FreePages(links)
        BY <1>16, <2>2 DEF FreePages
    <2>4. ResizedFree(links, mem, size, new)
        <3> DEFINE sequence == TRUE
        <3>1. sequence \in BOOLEAN /\ sequence /\ new = ReAllocatePages(links, mem, size, sequence)
            BY <1>5
        <3> HIDE DEF sequence
        <3>2. sequence => ResizedFree(links, mem, size, new)
            BY <1>4, <2>3, <3>1, ReAllocateFree
        <3> QED BY <3>1, <3>2
    <2>5. CASE size = 0
        <3>1. new.links = links
            BY <2>4, <2>5 DEF ResizedFree
        <3>2. ~(b.size > 0)
            BY <1>9, <1>16, <2>5
        <3> QED BY <1>13, <1>16, <3>1, <3>2
    <2>6. CASE size # 0
        <3>1. size > 1 /\ new.handle = mem /\ size > 0
            BY <1>4, <2>2, <2>6
        <3>2. \/ new.done = FALSE /\ new.links = links
              \/ /\ new.done = TRUE
                 /\ \E d : Changed(links, new.links, {}, d) /\ Len(d) = size /\ d[1] = mem /\ Straight(d)
            BY <2>4, <3>1 DEF ResizedFree
        <3>3. CASE new.done = FALSE /\ new.links = links
            <4>1. ~(b.size > 0)
                BY <1>9, <1>16, <3>3
            <4> QED BY <1>13, <1>16, <3>3, <4>1
        <3>4. CASE new.done = TRUE /\ \E d : /\ Changed(links, new.links, {}, d) /\ Len(d) = size
                                             /\ d[1] = mem /\ Straight(d)
            <4>1. PICK d : Changed(links, new.links, {}, d) /\ Len(d) = size /\ d[1] = mem /\ Straight(d)
                BY <3>4
            <4> QED BY <1>12, <1>16, <3>1, <3>4, <4>1
        <3> QED BY <3>2, <3>3, <3>4
    <2> QED BY <2>5, <2>6
<1>17. \/ xms[h].size > 0
       \/ xms[h].size = 0 /\ mem \in {-1, 0}
       \/ xms[h].size = 0 /\ mem \in Pages
    BY <1>4
<1> QED BY <1>14, <1>15, <1>16, <1>17

-----------------------------------------------------------------------------
(* The calls of EMS *)

LEMMA EmsParts ==
    ASSUME Inv, NEW h \in Ems
    PROVE  /\ ems[h] \in EmsHolds
           /\ ems[h].pages \in {Unused, 0, SystemPages} \cup EmsSizes /\ ems[h].mem \in {-1, 0} \cup Pages
           /\ ems[h].saved \in SUBSET [Frames -> Entries]
           /\ ems[h].pages \in Int /\ (ems[h].pages = Unused \/ ems[h].pages \in Nat) /\ Unused = -1
<1>1. ems[h] \in EmsHolds
    BY DEF Inv, TypeInv
<1>2. /\ ems[h].pages \in {Unused, 0, SystemPages} \cup EmsSizes /\ ems[h].mem \in {-1, 0} \cup Pages
      /\ ems[h].saved \in SUBSET [Frames -> Entries]
    BY <1>1 DEF EmsHolds
<1> QED BY <1>1, <1>2, PageCounts

\* What a handle of EMS holds.
LEMMA EmsHeld ==
    ASSUME Inv, status = "running", NEW h \in Ems
    PROVE  /\ ems[h].pages > 0 =>
                 /\ IsChain(links, EmsBlock(h)) /\ EmsBlock(h)[1] = ems[h].mem
                 /\ Len(EmsBlock(h)) = ems[h].pages * PerEmsPage
                 /\ HeldBy(links, xms, ems, <<"ems", h>>) = Cells(EmsBlock(h))
           /\ ~(ems[h].pages > 0) => HeldBy(links, xms, ems, <<"ems", h>>) = {}
<1> DEFINE o == <<"ems", h>>
<1>1. /\ o \in Owners /\ SizeOf(xms, ems, o) = ems[h].pages * PerEmsPage /\ FirstOf(xms, ems, o) = ems[h].mem
      /\ EmsBlock(h) = Block(links, xms, ems, o)
    BY OwnerIs DEF SizeOf, FirstOf, EmsBlock
<1> HIDE DEF o
<1>2. ems[h].pages > 0 <=> ems[h].pages * PerEmsPage > 0
    BY EmsParts, PageCounts
<1>3. ems[h].pages > 0 => o \in HoldersOf(xms, ems)
    BY <1>1, <1>2 DEF HoldersOf
<1>4. Apart(links, xms, ems)
    BY InvParts
<1>5. ems[h].pages > 0 =>
         /\ IsChain(links, EmsBlock(h)) /\ EmsBlock(h)[1] = ems[h].mem
         /\ Len(EmsBlock(h)) = ems[h].pages * PerEmsPage
    BY <1>1, <1>3, <1>4 DEF Apart
<1>6. /\ ems[h].pages > 0 => HeldBy(links, xms, ems, o) = Cells(EmsBlock(h))
      /\ ~(ems[h].pages > 0) => HeldBy(links, xms, ems, o) = {}
    BY <1>1, <1>2 DEF HeldBy
<1> QED BY <1>5, <1>6 DEF o

\* A map refers to no handle without pages.
LEMMA NoMap ==
    ASSUME Inv, status = "running", NEW h \in Ems, ~(ems[h].pages > 0), NEW map \in Maps, NEW f \in Frames, map[f] # None
    PROVE  map[f][1] # h
<1>1. map[f][2] \in Nat /\ map[f][2] < ems[map[f][1]].pages
    BY InvParts, MapsTyped DEF MapsHold
<1>2. ems[h].pages \in Int
    BY EmsParts
<1> QED BY <1>1, <1>2

\* Types after a call of EMS that changes a handle.
LEMMA EmsTypes ==
    ASSUME Inv, xms' = xms, table' = table, shown' = shown, links' \in Types,
           NEW h \in Ems, NEW b \in EmsHolds, ems' = [ems EXCEPT ![h] = b],
           status' \in {"running", "exited", "corrupt", "stale"}
    PROVE  TypeInv' /\ ems'[h] = b /\ \A g \in Ems : g # h => ems'[g] = ems[g]
<1>1. ems \in [Ems -> EmsHolds]
    BY DEF Inv, TypeInv
<1>2. ems' \in [Ems -> EmsHolds] /\ ems'[h] = b /\ \A g \in Ems : g # h => ems'[g] = ems[g]
    BY <1>1
<1>3. links' \in Types /\ xms' \in [Xms -> XmsBlocks] /\ table' \in [Frames -> Entries]
      /\ shown' = [f \in Frames |-> shown'[f]]
    BY DEF Inv, TypeInv
<1> QED BY <1>2, <1>3 DEF TypeInv

\* A handle without pages gets some, or none, and no map is kept for it that was not.
LEMMA EmsFresh ==
    ASSUME Inv, status = "running", xms' = xms, table' = table, shown' = shown,
           NEW h \in Ems, ~(ems[h].pages > 0), \A g \in Ems : g # h => ems'[g] = ems[g],
           ems'[h].saved \subseteq ems[h].saved, NEW pages \in EmsSizes, ems'[h].pages = pages,
           NEW new, new = AllocatePages(links, pages * PerEmsPage, FALSE), links' = new.links, ems'[h].mem = new.handle,
           pages > 0 => new.handle # 0
    PROVE  Apart(links', xms', ems') /\ MapsHold' /\ WindowHolds'
<1> DEFINE count == pages * PerEmsPage
<1>1. links \in Types /\ pages \in Nat /\ count \in Nat /\ (pages > 0 <=> count > 0)
    BY InvParts, PageCounts, Drivers
<1>2. HeldBy(links, xms, ems, <<"ems", h>>) = {}
    BY EmsHeld
<1>3. \A map \in Maps, f \in Frames : map[f] # None => map[f][1] # h
    BY NoMap
<1>4. ems'[h].pages \in {Unused, 0, SystemPages} \cup EmsSizes
    OBVIOUS
<1>5. new = AllocatePages(links, count, FALSE)
    OBVIOUS
<1>6. ems'[h].pages * PerEmsPage = count
    OBVIOUS
<1> HIDE DEF count
<1>7. Allocated(links, count, FALSE, new)
    BY <1>1, <1>5, AllocateIs
<1>8. CASE pages > 0
    <2>1. PICK c : Takes(links, c, count) /\ Changed(links, new.links, {}, c) /\ c[1] = new.handle
        BY <1>7, <1>8 DEF Allocated
    <2>2. Len(c) = count /\ c # <<>>
        BY <1>1, <1>8, <2>1 DEF Takes
    <2>3. Changed(links, links', HeldBy(links, xms, ems, <<"ems", h>>), c)
        BY <1>2, <2>1
    <2>4. EmsFits(h, c)
        BY <1>6, <1>8, <2>1, <2>2 DEF EmsFits
    <2>5. KeepsMapped(h, c)
        BY <1>3 DEF KeepsMapped
    <2> QED BY <1>4, <2>3, <2>4, <2>5, EmsStep
<1>9. CASE ~(pages > 0)
    <2>1. links' = links
        BY <1>1, <1>7, <1>9 DEF Allocated
    <2>2. Changed(links, links', HeldBy(links, xms, ems, <<"ems", h>>), <<>>)
        BY <1>1, <1>2, <2>1, NothingChanged
    <2>3. EmsFits(h, <<>>)
        BY <1>9 DEF EmsFits
    <2>4. KeepsMapped(h, <<>>)
        BY <1>3 DEF KeepsMapped
    <2> QED BY <1>4, <2>2, <2>3, <2>4, EmsStep
<1> QED BY <1>8, <1>9

\* E_Exit changes nothing but the status.
LEMMA Exits ==
    ASSUME Inv, status' = "exited", links' = links, xms' = xms, ems' = ems, table' = table, shown' = shown
    PROVE  Inv'
<1>1. TypeInv'
    BY DEF Inv, TypeInv
<1> QED BY <1>1 DEF Inv

LEMMA DoEmsAllocate ==
    ASSUME Inv, NEW pages \in EmsSizes, EmsAllocate(pages)
    PROVE  Inv'
<1> DEFINE new == AllocatePages(links, pages * PerEmsPage, FALSE)
<1>1. status = "running" /\ xms' = xms /\ table' = table /\ shown' = shown
    BY DEF EmsAllocate, windowVars
<1>2. CASE pages > 0 /\ new.handle = 0
    <2>1. status' = "exited" /\ links' = links /\ ems' = ems
        BY <1>2 DEF EmsAllocate
    <2> QED BY <1>1, <2>1, Exits
<1>3. CASE ~(pages > 0 /\ new.handle = 0)
    <2> DEFINE b == [pages |-> pages, mem |-> new.handle, saved |-> {}]
    <2>1. PICK h \in FreeEms : ems' = [ems EXCEPT ![h] = b]
        BY <1>3 DEF EmsAllocate
    <2>2. links' = new.links /\ status' \in Outcomes(new.links, FALSE, "stale")
        BY <1>3 DEF EmsAllocate
    <2>3. status' \in {"running", "exited", "corrupt", "stale"}
        BY <2>2 DEF Outcomes
    <2>4. h \in Ems /\ ~(ems[h].pages > 0)
        BY <2>1 DEF FreeEms, Unused
    <2>5. links \in Types /\ pages * PerEmsPage \in Nat
        BY <1>1, InvParts, PageCounts, Drivers
    <2>6. new = AllocatePages(links, pages * PerEmsPage, FALSE)
        OBVIOUS
    <2> HIDE DEF new
    <2>7. Allocated(links, pages * PerEmsPage, FALSE, new)
        BY <2>5, <2>6, AllocateIs
    <2>8. new.links \in Types /\ new.handle \in {-1, 0} \cup Pages
        BY <2>5, <2>7 DEF Allocated, Changed
    <2>9. b \in EmsHolds
        BY <2>8 DEF EmsHolds
    <2>10. b.pages = pages /\ b.mem = new.handle /\ b.saved = {}
        OBVIOUS
    <2> HIDE DEF b
    <2>11. TypeInv' /\ ems'[h] = b /\ \A g \in Ems : g # h => ems'[g] = ems[g]
        BY <1>1, <2>1, <2>2, <2>3, <2>4, <2>8, <2>9, EmsTypes
    <2>12. ems'[h].saved \subseteq ems[h].saved /\ ems'[h].pages = pages /\ ems'[h].mem = new.handle
        BY <2>10, <2>11
    <2>13. pages > 0 => new.handle # 0
        BY <1>3
    <2>14. Apart(links', xms', ems') /\ MapsHold' /\ WindowHolds'
        BY <1>1, <2>2, <2>4, <2>6, <2>11, <2>12, <2>13, EmsFresh
    <2> QED BY <2>11, <2>14, InvAgain
<1> QED BY <1>2, <1>3

LEMMA DoEmsReallocate ==
    ASSUME Inv, NEW h \in Ems, NEW pages \in EmsSizes, EmsReallocate(h, pages)
    PROVE  Inv'
<1> DEFINE count == pages * PerEmsPage
           resized == ReAllocatePages(links, ems[h].mem, count, FALSE)
           fresh == AllocatePages(links, count, FALSE)
<1>1. status = "running" /\ xms' = xms /\ table' = table /\ shown' = shown /\ ems[h].pages # Unused
    BY DEF EmsReallocate, Valid, windowVars
<1>2. /\ links \in Types /\ pages \in Nat /\ count \in Nat /\ (pages > 0 <=> count > 0)
      /\ ems[h].pages \in Nat /\ ems[h] \in EmsHolds
    BY <1>1, InvParts, PageCounts, Drivers, EmsParts
<1>3. CASE ems[h].pages # 0
    <2> DEFINE b == [ems[h] EXCEPT !.pages = pages, !.mem = resized.handle]
    <2>1. /\ resized.done /\ links' = resized.links /\ ems' = [ems EXCEPT ![h] = b]
          /\ status' \in Outcomes(resized.links, Referred(h, pages), "stale")
        BY <1>3 DEF EmsReallocate
    <2>2. status' \in {"running", "exited", "corrupt", "stale"} /\ (Referred(h, pages) => status' = "stale")
        BY <2>1 DEF Outcomes
    <2>3. /\ IsChain(links, EmsBlock(h)) /\ EmsBlock(h)[1] = ems[h].mem
          /\ Len(EmsBlock(h)) = ems[h].pages * PerEmsPage
          /\ HeldBy(links, xms, ems, <<"ems", h>>) = Cells(EmsBlock(h))
        BY <1>1, <1>2, <1>3, EmsHeld
    <2>4. resized = ReAllocatePages(links, EmsBlock(h)[1], count, FALSE)
        BY <2>3
    <2> HIDE DEF resized, count
    <2>5. Resized(links, EmsBlock(h), count, FALSE, resized)
        BY <1>2, <2>3, <2>4, ReAllocateIs
    <2>6. PICK d : /\ Changed(links, resized.links, Cells(EmsBlock(h)), d) /\ Len(d) = count
                   /\ resized.handle = IF count = 0 THEN -1 ELSE d[1]
                   /\ \A k \in 1 .. Len(EmsBlock(h)) : k <= count => d[k] = EmsBlock(h)[k]
        BY <2>1, <2>5 DEF Resized
    <2>7. count = 0 => d = <<>>
        BY <2>6 DEF Changed
    <2>8. count # 0 => d # <<>> /\ d[1] \in Pages /\ resized.handle = d[1]
        <3>1. count # 0 => d # <<>>
            BY <1>2, <2>6
        <3>2. d # <<>> => d[1] \in Pages
            BY <2>6, ChainFacts DEF Changed
        <3> QED BY <2>6, <3>1, <3>2
    <2>9. resized.links \in Types /\ resized.handle \in {-1, 0} \cup Pages
        BY <2>6, <2>8 DEF Changed
    <2>10. b \in EmsHolds
        BY <1>2, <2>9 DEF EmsHolds
    <2>11. b.pages = pages /\ b.mem = resized.handle /\ b.saved = ems[h].saved
        BY <1>2 DEF EmsHolds
    <2> HIDE DEF b
    <2>12. TypeInv' /\ ems'[h] = b /\ \A g \in Ems : g # h => ems'[g] = ems[g]
        BY <1>1, <2>1, <2>2, <2>9, <2>10, EmsTypes
    <2>13. SUFFICES ASSUME status' = "running" PROVE Apart(links', xms', ems') /\ MapsHold' /\ WindowHolds'
        BY <2>12, InvAgain
    <2>14. ems'[h].pages = pages /\ ems'[h].mem = resized.handle /\ ems'[h].saved \subseteq ems[h].saved
        BY <2>11, <2>12
    <2>15. ems'[h].pages * PerEmsPage = count
        BY <2>14 DEF count
    <2>16. Changed(links, links', HeldBy(links, xms, ems, <<"ems", h>>), d)
        BY <2>1, <2>3, <2>6
    <2>17. EmsFits(h, d)
        <3>1. pages > 0 => count # 0
            BY <1>2
        <3>2. ~(pages > 0) => count = 0
            BY <1>2
        <3> QED BY <2>6, <2>7, <2>8, <2>14, <2>15, <3>1, <3>2 DEF EmsFits
    <2>18. KeepsMapped(h, d)
        <3>1. ASSUME NEW map \in Maps, NEW f \in Frames, map[f] # None, map[f][1] = h
              PROVE  map[f][2] < pages
            <4>1. ~(map[f][2] >= pages)
                BY <2>2, <2>13, <3>1 DEF Referred
            <4>2. map[f][2] \in Nat
                BY <1>1, <3>1, InvParts, MapsTyped
            <4> QED BY <1>2, <4>1, <4>2
        <3>2. ASSUME NEW k \in 1 .. count, k <= ems[h].pages * PerEmsPage PROVE d[k] = EmsBlock(h)[k]
            <4>1. Len(EmsBlock(h)) \in Nat
                BY <2>3, ChainFacts
            <4>2. k \in 1 .. Len(EmsBlock(h)) /\ k <= count
                BY <1>2, <2>3, <3>2, <4>1
            <4> QED BY <2>6, <4>2
        <3> QED BY <2>14, <2>15, <3>1, <3>2 DEF KeepsMapped
    <2>19. ems'[h].pages \in {Unused, 0, SystemPages} \cup EmsSizes
        BY <2>14
    <2> QED BY <1>1, <2>12, <2>14, <2>16, <2>17, <2>18, <2>19, EmsStep
<1>4. CASE ems[h].pages = 0 /\ fresh.handle = 0
    <2>1. status' = "exited" /\ links' = links /\ ems' = ems
        BY <1>4 DEF EmsReallocate
    <2> QED BY <1>1, <2>1, Exits
<1>5. CASE ems[h].pages = 0 /\ fresh.handle # 0
    <2> DEFINE b == [ems[h] EXCEPT !.pages = pages, !.mem = fresh.handle]
    <2>1. /\ links' = fresh.links /\ ems' = [ems EXCEPT ![h] = b]
          /\ status' \in Outcomes(fresh.links, FALSE, "stale")
        BY <1>5 DEF EmsReallocate
    <2>2. status' \in {"running", "exited", "corrupt", "stale"}
        BY <2>1 DEF Outcomes
    <2>3. fresh = AllocatePages(links, pages * PerEmsPage, FALSE)
        OBVIOUS
    <2> HIDE DEF fresh
    <2>4. Allocated(links, pages * PerEmsPage, FALSE, fresh)
        BY <1>2, <2>3, AllocateIs
    <2>5. fresh.links \in Types /\ fresh.handle \in {-1, 0} \cup Pages
        BY <1>2, <2>4 DEF Allocated, Changed
    <2>6. b \in EmsHolds
        BY <1>2, <2>5 DEF EmsHolds
    <2>7. b.pages = pages /\ b.mem = fresh.handle /\ b.saved = ems[h].saved
        BY <1>2 DEF EmsHolds
    <2> HIDE DEF b
    <2>8. TypeInv' /\ ems'[h] = b /\ \A g \in Ems : g # h => ems'[g] = ems[g]
        BY <1>1, <2>1, <2>2, <2>5, <2>6, EmsTypes
    <2>9. /\ ems'[h].pages = pages /\ ems'[h].mem = fresh.handle /\ ems'[h].saved \subseteq ems[h].saved
          /\ ~(ems[h].pages > 0)
        BY <1>5, <2>7, <2>8
    <2>10. Apart(links', xms', ems') /\ MapsHold' /\ WindowHolds'
        BY <1>1, <1>5, <2>1, <2>3, <2>8, <2>9, EmsFresh
    <2> QED BY <2>8, <2>10, InvAgain
<1> QED BY <1>3, <1>4, <1>5

LEMMA DoEmsRelease ==
    ASSUME Inv, NEW h \in Ems, EmsRelease(h)
    PROVE  Inv'
<1> DEFINE n == IF h = 0 THEN 0 ELSE Unused
           b == [NoHandle EXCEPT !.pages = n]
<1>1. /\ status = "running" /\ xms' = xms /\ table' = table /\ shown' = shown /\ ems[h].pages # Unused
      /\ links' = IF ems[h].pages # 0 THEN ReleasePages(links, ems[h].mem) ELSE links
      /\ ems' = [ems EXCEPT ![h] = b]
      /\ status' \in Outcomes(links, Referred(h, 0), "stale")
    BY DEF EmsRelease, Valid, windowVars
<1>2. status' \in {"running", "exited", "corrupt", "stale"} /\ (Referred(h, 0) => status' = "stale")
    BY <1>1 DEF Outcomes
<1>3. links \in Types /\ ems[h].pages \in Nat
    BY <1>1, InvParts, EmsParts
<1>4. links' \in Types
    BY <1>1, <1>3, ReleaseTyped
<1>5. b \in EmsHolds /\ b.pages = n /\ b.saved = {}
    BY DEF EmsHolds, NoHandle
<1>6. n \in {Unused, 0, SystemPages} \cup EmsSizes /\ ~(n > 0)
    BY DEF Unused
<1> HIDE DEF b, n
<1>7. TypeInv' /\ ems'[h] = b /\ \A g \in Ems : g # h => ems'[g] = ems[g]
    BY <1>1, <1>2, <1>4, <1>5, EmsTypes
<1>8. SUFFICES ASSUME status' = "running" PROVE Apart(links', xms', ems') /\ MapsHold' /\ WindowHolds'
    BY <1>7, InvAgain
<1>9. Changed(links, links', HeldBy(links, xms, ems, <<"ems", h>>), <<>>)
    <2>1. CASE ems[h].pages # 0
        <3>1. /\ IsChain(links, EmsBlock(h)) /\ EmsBlock(h)[1] = ems[h].mem
              /\ HeldBy(links, xms, ems, <<"ems", h>>) = Cells(EmsBlock(h))
            BY <1>1, <1>3, <2>1, EmsHeld
        <3> QED BY <1>1, <1>3, <2>1, <3>1, ReleaseIs
    <2>2. CASE ems[h].pages = 0
        <3>1. HeldBy(links, xms, ems, <<"ems", h>>) = {}
            BY <1>1, <2>2, EmsHeld
        <3> QED BY <1>1, <1>3, <2>2, <3>1, NothingChanged
    <2> QED BY <2>1, <2>2
<1>10. ems'[h].pages = n /\ ems'[h].saved \subseteq ems[h].saved
    BY <1>5, <1>7
<1>11. EmsFits(h, <<>>)
    BY <1>6, <1>10 DEF EmsFits
<1>12. KeepsMapped(h, <<>>)
    <2>1. ASSUME NEW map \in Maps, NEW f \in Frames, map[f] # None, map[f][1] = h PROVE FALSE
        <3>1. map[f][2] \in Nat
            BY <1>1, <2>1, InvParts, MapsTyped
        <3>2. Referred(h, 0)
            BY <2>1, <3>1 DEF Referred
        <3> QED BY <1>2, <1>8, <3>2
    <2> QED BY <2>1 DEF KeepsMapped
<1> QED BY <1>1, <1>6, <1>7, <1>9, <1>10, <1>11, <1>12, EmsStep

\* A page of EMS is mapped to the pages that its handle has there.
LEMMA ImageIs ==
    ASSUME Inv, status = "running", NEW h \in Ems, NEW page \in EmsSizes, page < ems[h].pages
    PROVE  Mappable(<<h, page>>) /\ Image(<<h, page>>) = View(EmsBlock(h), page)
<1> DEFINE c == EmsBlock(h)
<1>1. page \in Nat /\ ems[h].pages > 0 /\ ems[h].pages # Unused
    BY Drivers, EmsParts
<1>2. IsChain(links, c) /\ c[1] = ems[h].mem /\ Len(c) = ems[h].pages * PerEmsPage
    BY <1>1, EmsHeld
<1> HIDE DEF c
<1>3. \A i \in 1 .. PerEmsPage : page * PerEmsPage + i \in 1 .. Len(c)
    BY <1>2, EmsParts, PageWithin
<1>4. page * PerEmsPage \in Nat /\ Len(c) \in Nat
    BY <1>2, EmsParts, PageWithin, ChainFacts
<1>5. ASSUME NEW i \in 1 .. PerEmsPage
      PROVE  NextHandleAt(links, c[1], page * PerEmsPage + i - 1) = c[page * PerEmsPage + i]
    <2> DEFINE n == page * PerEmsPage + i - 1
    <2>1. n \in Nat /\ n + 1 = page * PerEmsPage + i
        BY <1>4
    <2>2. NextHandleAt(links, c[1], n) = Place(c, n + 1)
        <3> HIDE DEF n
        <3> QED BY <1>2, <2>1, HandleAtIs
    <2>3. page * PerEmsPage + i <= Len(c)
        BY <1>3, <1>4
    <2> QED BY <2>1, <2>2, <2>3 DEF Place
<1>6. <<h, page>> # None /\ <<h, page>>[1] = h /\ <<h, page>>[2] = page
    BY DEF None
<1>7. Window(h, page) = View(c, page)
    BY <1>2, <1>5 DEF Window, View
<1>8. Image(<<h, page>>) = Window(h, page)
    BY <1>6 DEF Image
<1>9. Mappable(<<h, page>>)
    BY <1>1, <1>6 DEF Mappable, Valid
<1> QED BY <1>7, <1>8, <1>9 DEF c

\* A call that changes the window and the maps, and no block.
LEMMA WindowStep ==
    ASSUME Inv, status = "running", links' = links, xms' = xms,
           \A g \in Ems : ems'[g].pages = ems[g].pages /\ ems'[g].mem = ems[g].mem,
           \A map \in Maps' : \A f \in Frames : map[f] # None => map[f][1] \in Ems /\ map[f][2] < ems[map[f][1]].pages,
           \A f \in Frames : shown'[f] = IF table'[f] = None THEN None ELSE View(EmsBlock(table'[f][1]), table'[f][2])
    PROVE  Apart(links', xms', ems') /\ MapsHold' /\ WindowHolds'
<1>1. \A p \in Owners : SizeOf(xms', ems', p) = SizeOf(xms, ems, p) /\ FirstOf(xms', ems', p) = FirstOf(xms, ems, p)
    <2> TAKE p \in Owners
    <2>1. CASE p[1] = "xms"
        BY <2>1 DEF SizeOf, FirstOf
    <2>2. CASE p[1] # "xms"
        <3>1. p[2] \in Ems
            BY <2>2, OwnerIs
        <3>2. ems'[p[2]].pages = ems[p[2]].pages /\ ems'[p[2]].mem = ems[p[2]].mem
            BY <3>1
        <3> QED BY <2>2, <3>2 DEF SizeOf, FirstOf
    <2> QED BY <2>1, <2>2
<1>2. \A p \in Owners : Block(links', xms', ems', p) = Block(links, xms, ems, p)
    BY <1>1 DEF Block
<1>3. HoldersOf(xms', ems') = HoldersOf(xms, ems)
    BY <1>1 DEF HoldersOf
<1>4. \A p \in HoldersOf(xms, ems) : p \in Owners
    BY DEF HoldersOf
<1>5. Apart(links', xms', ems')
    <2>1. Apart(links, xms, ems)
        BY InvParts
    <2>2. \A p \in HoldersOf(xms, ems) :
             /\ SizeOf(xms', ems', p) = SizeOf(xms, ems, p) /\ FirstOf(xms', ems', p) = FirstOf(xms, ems, p)
             /\ Block(links', xms', ems', p) = Block(links, xms, ems, p)
        BY <1>1, <1>2, <1>4
    <2> QED BY <1>3, <2>1, <2>2 DEF Apart
<1>6. MapsHold'
    <2>1. \A map \in Maps' : \A f \in Frames : map[f] # None => map[f][2] < ems'[map[f][1]].pages
        OBVIOUS
    <2> QED BY <2>1 DEF MapsHold
<1>7. \A f \in Frames : shown'[f] = IF table'[f] = None THEN None
                                    ELSE View(Block(links', xms', ems', <<"ems", table'[f][1]>>), table'[f][2])
    <2> TAKE f \in Frames
    <2>1. table' \in Maps'
        BY DEF Maps
    <2>2. table'[f] # None => <<"ems", table'[f][1]>> \in Owners
        BY <2>1, OwnerIs
    <2> QED BY <1>2, <2>2 DEF EmsBlock
<1>8. WindowHolds'
    BY <1>7 DEF WindowHolds, EmsBlock
<1> QED BY <1>5, <1>6, <1>8

LEMMA DoMapPage ==
    ASSUME Inv, NEW f \in Frames, NEW entry \in Entries, MapPage(f, entry)
    PROVE  Inv'
<1>1. /\ status = "running" /\ status' = status /\ links' = links /\ xms' = xms /\ ems' = ems /\ Mappable(entry)
      /\ table' = [table EXCEPT ![f] = entry] /\ shown' = [shown EXCEPT ![f] = Image(entry)]
    BY DEF MapPage
<1>2. /\ table \in [Frames -> Entries] /\ shown = [g \in Frames |-> shown[g]]
      /\ links \in Types /\ xms \in [Xms -> XmsBlocks] /\ ems \in [Ems -> EmsHolds]
    BY DEF Inv, TypeInv
<1>3. /\ table' \in [Frames -> Entries] /\ shown' = [g \in Frames |-> shown'[g]]
      /\ table'[f] = entry /\ shown'[f] = Image(entry)
      /\ \A g \in Frames : g # f => table'[g] = table[g] /\ shown'[g] = shown[g]
    BY <1>1, <1>2
<1>4. TypeInv'
    BY <1>1, <1>2, <1>3 DEF TypeInv
<1>5. entry # None => /\ entry[1] \in Ems /\ entry[2] \in EmsSizes /\ entry = <<entry[1], entry[2]>>
                      /\ entry[2] < ems[entry[1]].pages
    BY <1>1 DEF Entries, Mappable
<1>6. entry = None => Image(entry) = None
    BY DEF Image
<1>7. entry # None => Image(entry) = View(EmsBlock(entry[1]), entry[2])
    BY <1>1, <1>5, ImageIs
<1>8. \A g \in Frames : shown'[g] = IF table'[g] = None THEN None ELSE View(EmsBlock(table'[g][1]), table'[g][2])
    <2> TAKE g \in Frames
    <2>1. CASE g = f
        BY <1>3, <1>6, <1>7, <2>1
    <2>2. CASE g # f
        <3>1. shown[g] = IF table[g] = None THEN None ELSE View(EmsBlock(table[g][1]), table[g][2])
            BY <1>1, InvParts DEF WindowHolds
        <3> QED BY <1>3, <2>2, <3>1
    <2> QED BY <2>1, <2>2
<1>9. \A map \in Maps' : map \in Maps \/ map = table'
    BY <1>1 DEF Maps
<1>10. \A map \in Maps, g \in Frames : map[g] # None => map[g][1] \in Ems /\ map[g][2] < ems[map[g][1]].pages
    BY <1>1, InvParts, MapsTyped DEF MapsHold
<1>11. table \in Maps
    BY DEF Maps
<1>12. \A g \in Frames : table'[g] # None => table'[g][1] \in Ems /\ table'[g][2] < ems[table'[g][1]].pages
    <2> TAKE g \in Frames
    <2>1. CASE g = f
        BY <1>3, <1>5, <2>1
    <2>2. CASE g # f
        BY <1>3, <1>10, <1>11, <2>2
    <2> QED BY <2>1, <2>2
<1>13. \A map \in Maps' : \A g \in Frames : map[g] # None => map[g][1] \in Ems /\ map[g][2] < ems[map[g][1]].pages
    BY <1>9, <1>10, <1>12
<1>14. Apart(links', xms', ems') /\ MapsHold' /\ WindowHolds'
    BY <1>1, <1>8, <1>13, WindowStep
<1> QED BY <1>4, <1>14, InvAgain

LEMMA DoSavePageMap ==
    ASSUME Inv, NEW h \in Ems, SavePageMap(h)
    PROVE  Inv'
<1> DEFINE b == [ems[h] EXCEPT !.saved = {table}]
<1>1. /\ status = "running" /\ status' = status /\ links' = links /\ xms' = xms /\ table' = table /\ shown' = shown
      /\ ems' = [ems EXCEPT ![h] = b]
    BY DEF SavePageMap, windowVars
<1>2. ems[h] \in EmsHolds /\ table \in [Frames -> Entries] /\ links \in Types
    BY DEF Inv, TypeInv
<1>3. b \in EmsHolds /\ b.pages = ems[h].pages /\ b.mem = ems[h].mem /\ b.saved = {table}
    BY <1>2 DEF EmsHolds
<1> HIDE DEF b
<1>4. TypeInv' /\ ems'[h] = b /\ \A g \in Ems : g # h => ems'[g] = ems[g]
    BY <1>1, <1>2, <1>3, EmsTypes
<1>5. \A g \in Ems : ems'[g].pages = ems[g].pages /\ ems'[g].mem = ems[g].mem
    BY <1>3, <1>4
<1>6. \A map \in Maps' : map \in Maps
    <2>1. ASSUME NEW g \in Ems, NEW map \in ems'[g].saved PROVE map \in {table} \/ map \in ems[g].saved
        BY <1>3, <1>4
    <2> QED BY <1>1, <2>1 DEF Maps
<1>7. \A map \in Maps' : \A f \in Frames : map[f] # None => map[f][1] \in Ems /\ map[f][2] < ems[map[f][1]].pages
    BY <1>1, <1>6, InvParts, MapsTyped DEF MapsHold
<1>8. \A f \in Frames : shown'[f] = IF table'[f] = None THEN None ELSE View(EmsBlock(table'[f][1]), table'[f][2])
    BY <1>1, InvParts DEF WindowHolds
<1>9. Apart(links', xms', ems') /\ MapsHold' /\ WindowHolds'
    BY <1>1, <1>5, <1>7, <1>8, WindowStep
<1> QED BY <1>4, <1>9, InvAgain

LEMMA DoRestorePageMap ==
    ASSUME Inv, NEW h \in Ems, RestorePageMap(h)
    PROVE  Inv'
<1> DEFINE b == [ems[h] EXCEPT !.saved = {}]
<1>1. /\ status = "running" /\ status' = status /\ links' = links /\ xms' = xms
      /\ ems' = [ems EXCEPT ![h] = b]
    BY DEF RestorePageMap
<1>2. PICK map \in ems[h].saved : table' = map /\ shown' = Restored(map)
    BY DEF RestorePageMap
<1>3. ems[h] \in EmsHolds /\ links \in Types /\ xms \in [Xms -> XmsBlocks] /\ ems \in [Ems -> EmsHolds]
    BY DEF Inv, TypeInv
<1>4. b \in EmsHolds /\ b.pages = ems[h].pages /\ b.mem = ems[h].mem /\ b.saved = {}
    BY <1>3 DEF EmsHolds
<1> HIDE DEF b
<1>5. ems' \in [Ems -> EmsHolds] /\ ems'[h] = b /\ \A g \in Ems : g # h => ems'[g] = ems[g]
    BY <1>1, <1>3, <1>4
<1>6. map \in [Frames -> Entries] /\ map \in Maps
    BY <1>3 DEF EmsHolds, Maps
<1>7. shown' = [f \in Frames |-> shown'[f]]
    BY <1>2 DEF Restored
<1>8. TypeInv'
    BY <1>1, <1>2, <1>3, <1>5, <1>6, <1>7 DEF Inv, TypeInv
<1>9. \A g \in Ems : ems'[g].pages = ems[g].pages /\ ems'[g].mem = ems[g].mem
    BY <1>4, <1>5
<1>10. \A other \in Maps' : other \in Maps
    <2>1. ASSUME NEW g \in Ems, NEW other \in ems'[g].saved PROVE other \in ems[g].saved
        BY <1>4, <1>5
    <2> QED BY <1>2, <1>6, <2>1 DEF Maps
<1>11. \A other \in Maps, f \in Frames : other[f] # None =>
          /\ other[f][1] \in Ems /\ other[f][2] < ems[other[f][1]].pages /\ other[f][2] \in EmsSizes
          /\ other[f] = <<other[f][1], other[f][2]>>
    BY <1>1, InvParts, MapsTyped DEF MapsHold
<1>12. \A f \in Frames : shown'[f] = IF table'[f] = None THEN None ELSE View(EmsBlock(table'[f][1]), table'[f][2])
    <2> TAKE f \in Frames
    <2>1. CASE map[f] = None
        BY <1>2, <2>1 DEF Restored, Mappable, Image
    <2>2. CASE map[f] # None
        <3>1. Mappable(map[f]) /\ Image(map[f]) = View(EmsBlock(map[f][1]), map[f][2])
            BY <1>1, <1>6, <1>11, <2>2, ImageIs
        <3> QED BY <1>2, <2>2, <3>1 DEF Restored
    <2> QED BY <2>1, <2>2
<1>13. Apart(links', xms', ems') /\ MapsHold' /\ WindowHolds'
    BY <1>1, <1>9, <1>10, <1>11, <1>12, WindowStep
<1> QED BY <1>8, <1>13, InvAgain

-----------------------------------------------------------------------------
(* The specification *)

LEMMA InitIs == Init => Inv
<1> SUFFICES ASSUME Init PROVE Inv
    OBVIOUS
<1> DEFINE count == SystemPages * PerEmsPage
           system == AllocatePages(NoPages, count, FALSE)
           o == <<"ems", 0>>
           b == [pages |-> SystemPages, mem |-> system.handle, saved |-> {}]
           before == [h \in Ems |-> NoHandle]
<1>1. /\ links = system.links /\ ems = [h \in Ems |-> IF h = 0 THEN b ELSE NoHandle]
      /\ xms = [h \in Xms |-> FreeBlock] /\ table = Unmapped /\ shown = Unmapped /\ status = "running"
    BY DEF Init
<1>2. count \in Nat /\ count > 0 /\ count <= LastPage /\ LastPage \in Nat
    <2>1. SystemPages \in {Unused, 0, SystemPages} \cup EmsSizes /\ SystemPages > 0
        BY Drivers
    <2> QED BY <2>1, PageCounts, PagesFinite, Drivers
<1>3. NoPages \in Types /\ FreePages(NoPages) = Pages /\ FreeTotal(NoPages) = LastPage
    <2>1. FreePages(NoPages) = Pages
        BY DEF FreePages, NoPages
    <2> QED BY <2>1, PagesFinite DEF NoPages, Types, FreeTotal
<1>4. system = AllocatePages(NoPages, count, FALSE)
    OBVIOUS
<1> HIDE DEF system
<1>5. Allocated(NoPages, count, FALSE, system)
    <2> HIDE DEF count
    <2> QED BY <1>2, <1>3, <1>4, AllocateIs
<1>6. system.handle # 0
    <2> HIDE DEF count
    <2> QED BY <1>2, <1>3, <1>5 DEF Allocated
<1>7. PICK c : Takes(NoPages, c, count) /\ Changed(NoPages, system.links, {}, c) /\ c[1] = system.handle
    BY <1>5, <1>6 DEF Allocated
<1>8. system.links \in Types /\ system.handle \in Pages
    BY <1>5, <1>6, <1>7 DEF Allocated, Changed
<1>9. TypeInv
    <2>1. b \in EmsHolds /\ NoHandle \in EmsHolds
        BY <1>8 DEF EmsHolds, NoHandle
    <2> HIDE DEF b
    <2>2. ems \in [Ems -> EmsHolds]
        BY <1>1, <2>1
    <2>3. xms \in [Xms -> XmsBlocks]
        BY <1>1, Drivers DEF FreeBlock, XmsBlocks
    <2>4. table \in [Frames -> Entries] /\ shown = [f \in Frames |-> shown[f]]
        BY <1>1 DEF Unmapped, Entries
    <2> QED BY <1>1, <1>8, <2>2, <2>3, <2>4 DEF TypeInv
<1>10. Apart(links, xms, ems)
    <2>1. HoldersOf(xms, before) = {}
        <3>1. ASSUME NEW p \in Owners PROVE ~(SizeOf(xms, before, p) > 0)
            <4>1. CASE p[1] = "xms"
                <5>1. xms[p[2]] = FreeBlock
                    BY <1>1, <4>1, OwnerIs
                <5> QED BY <4>1, <5>1 DEF SizeOf, FreeBlock, Unused
            <4>2. CASE p[1] # "xms"
                <5>1. before[p[2]] = NoHandle
                    BY <4>2, OwnerIs
                <5>2. NoHandle.pages = Unused
                    BY DEF NoHandle
                <5>3. ~(Unused * PerEmsPage > 0)
                    <6>1. Unused \in {Unused, 0, SystemPages} \cup EmsSizes /\ ~(Unused > 0)
                        BY DEF Unused
                    <6> QED BY <6>1, PageCounts
                <5> QED BY <4>2, <5>1, <5>2, <5>3 DEF SizeOf
            <4> QED BY <4>1, <4>2
        <3> HIDE DEF before
        <3> QED BY <3>1 DEF HoldersOf
    <2>2. o \in Owners /\ 0 \in Ems
        BY OwnerIs, Drivers
    <2>3. SizeOf(xms, ems, o) = count /\ FirstOf(xms, ems, o) = system.handle /\ o[1] # "xms"
        BY <1>1, <2>2 DEF SizeOf, FirstOf
    <2>4. OthersKeep(xms, before, xms, ems, o)
        <3>1. ASSUME NEW p \in Owners, p # o
              PROVE  SizeOf(xms, ems, p) = SizeOf(xms, before, p) /\ FirstOf(xms, ems, p) = FirstOf(xms, before, p)
            <4>1. CASE p[1] = "xms"
                BY <4>1 DEF SizeOf, FirstOf
            <4>2. CASE p[1] # "xms"
                <5>1. p[2] \in Ems /\ p[2] # 0
                    BY <3>1, <4>2, OwnerIs
                <5>2. ems[p[2]] = before[p[2]]
                    BY <1>1, <5>1
                <5> QED BY <4>2, <5>2 DEF SizeOf, FirstOf
            <4> QED BY <4>1, <4>2
        <3> HIDE DEF before, o
        <3> QED BY <3>1 DEF OthersKeep
    <2> HIDE DEF before, o, b, count
    <2>5. Apart(NoPages, xms, before)
        BY <1>3, <2>1 DEF Apart
    <2>6. HeldBy(NoPages, xms, before, o) = {}
        BY <2>1, <2>2 DEF HeldBy, HoldersOf
    <2>7. Changed(NoPages, links, HeldBy(NoPages, xms, before, o), c)
        BY <1>1, <1>7, <2>6
    <2>8. Fits(xms, ems, o, c)
        <3>1. Len(c) = count /\ c # <<>>
            BY <1>2, <1>7 DEF Takes
        <3> QED BY <1>2, <1>7, <2>3, <3>1 DEF Fits
    <2>9. Given(NoPages, xms, before, links, xms, ems, o, c)
        BY <2>2, <2>4, <2>5, <2>7, <2>8, OwnerStep
    <2> QED BY <2>9 DEF Given
<1>11. MapsHold
    <2>1. \A h \in Ems : ems[h].saved = {}
        BY <1>1 DEF NoHandle
    <2>2. \A map \in Maps : map = Unmapped
        BY <1>1, <2>1 DEF Maps
    <2> QED BY <2>2 DEF MapsHold, Unmapped
<1>12. WindowHolds
    BY <1>1 DEF WindowHolds, Unmapped
<1> QED BY <1>1, <1>9, <1>10, <1>11, <1>12 DEF Inv

LEMMA NextIs == Inv /\ [Next]_vars => Inv'
<1> SUFFICES ASSUME Inv, [Next]_vars PROVE Inv'
    OBVIOUS
<1>1. CASE CallXms
    BY <1>1, DoXmsAllocate, DoXmsFree, DoXmsLock, DoXmsResize DEF CallXms
<1>2. CASE CallEms
    <2>1. ASSUME NEW f \in Frames, MapPage(f, None) \/ \E h \in Ems, page \in EmsSizes : MapPage(f, <<h, page>>)
          PROVE  Inv'
        BY <2>1, DoMapPage DEF Entries
    <2> QED BY <1>2, <2>1, DoEmsAllocate, DoEmsRelease, DoSavePageMap, DoRestorePageMap, DoEmsReallocate DEF CallEms
<1>3. CASE UNCHANGED vars
    <2>1. links' = links /\ xms' = xms /\ ems' = ems /\ table' = table /\ shown' = shown /\ status' = status
        BY <1>3 DEF vars, windowVars
    <2>2. TypeInv'
        BY <2>1 DEF Inv, TypeInv
    <2>3. status' = "running" => Apart(links', xms', ems')
        BY <2>1 DEF Inv
    <2>4. status' = "running" => MapsHold'
        BY <2>1 DEF Inv, MapsHold, Maps
    <2>5. status' = "running" => WindowHolds'
        BY <2>1 DEF Inv, WindowHolds, EmsBlock
    <2> QED BY <2>2, <2>3, <2>4, <2>5 DEF Inv
<1> QED BY <1>1, <1>2, <1>3 DEF Next

LEMMA Always == Spec => []Inv
BY InitIs, NextIs, PTL DEF Spec

LEMMA OwnedIs ==
    ASSUME Inv, status = "running", NEW o \in Owners
    PROVE  /\ Size(o) = SizeOf(xms, ems, o) /\ First(o) = FirstOf(xms, ems, o)
           /\ Size(o) > 0 =>
                 /\ Owned(o) = Block(links, xms, ems, o) /\ o \in HoldersOf(xms, ems)
                 /\ IsChain(links, Owned(o)) /\ Len(Owned(o)) = Size(o) /\ Owned(o)[1] = First(o)
                 /\ o[1] = "xms" => Straight(Owned(o))
<1>1. Size(o) = SizeOf(xms, ems, o) /\ First(o) = FirstOf(xms, ems, o)
    BY DEF Size, SizeOf, First, FirstOf
<1>2. ASSUME Size(o) > 0
      PROVE  /\ Owned(o) = Block(links, xms, ems, o) /\ o \in HoldersOf(xms, ems)
             /\ IsChain(links, Owned(o)) /\ Len(Owned(o)) = Size(o) /\ Owned(o)[1] = First(o)
             /\ o[1] = "xms" => Straight(Owned(o))
    <2>1. Owned(o) = Block(links, xms, ems, o)
        BY <1>1, <1>2 DEF Owned, Block
    <2>2. o \in HoldersOf(xms, ems)
        BY <1>1, <1>2 DEF HoldersOf
    <2>3. Apart(links, xms, ems)
        BY InvParts
    <2> QED BY <1>1, <2>1, <2>2, <2>3 DEF Apart
<1> QED BY <1>1, <1>2

LEMMA InvTypes ==
    ASSUME Inv
    PROVE  TypeOK
<1>1. TypeInv
    BY DEF Inv
<1>2. \A h \in Ems : ems[h].pages \in {Unused, 0, SystemPages} \cup EmsSizes /\ ems[h].mem \in {-1, 0} \cup Pages
    BY EmsParts
<1>3. \A map \in Maps, f \in Frames : map[f] = None \/ (map[f][1] \in Ems /\ map[f][2] \in EmsSizes)
    BY <1>1, MapsTyped
<1> QED BY <1>1, <1>2, <1>3 DEF TypeInv, TypeOK, Types, XmsBlocks

LEMMA InvApart ==
    ASSUME Inv
    PROVE  ChainsApart
<1>1. TypeOK
    BY InvTypes
<1> DEFINE holders == {o \in Owners : Size(o) > 0}
           cells   == [o \in holders |-> Cells(Owned(o))]
<1>2. ASSUME status = "running"
      PROVE  /\ \A o \in holders : Cardinality(cells[o]) = Size(o) /\ Len(Owned(o)) = Size(o)
             /\ \A o, p \in holders : o # p => cells[o] \cap cells[p] = {}
             /\ Pages \ FreePages(links) = UNION {cells[o] : o \in holders}
    <2>1. \A o \in holders : /\ Owned(o) = Block(links, xms, ems, o) /\ o \in HoldersOf(xms, ems)
                             /\ IsChain(links, Owned(o)) /\ Len(Owned(o)) = Size(o) /\ cells[o] = Cells(Owned(o))
        BY <1>2, OwnedIs
    <2>2. \A o \in HoldersOf(xms, ems) : o \in holders
        BY <1>2, OwnedIs DEF HoldersOf
    <2>3. Apart(links, xms, ems) /\ links \in Types
        BY <1>2, InvParts
    <2>4. UNION {cells[o] : o \in holders} = UNION {Cells(Owned(o)) : o \in holders}
        OBVIOUS
    <2> HIDE DEF cells, holders
    <2>5. \A o \in holders : Cardinality(cells[o]) = Size(o) /\ Len(Owned(o)) = Size(o)
        BY <2>1, ChainFacts
    <2>6. \A o, p \in holders : o # p => cells[o] \cap cells[p] = {}
        BY <2>1, <2>3 DEF Apart
    <2>7. \A o \in holders : Cells(Owned(o)) \subseteq Pages \ FreePages(links)
        BY <2>1, <2>3, ChainInUse
    <2>8. \A q \in Pages \ FreePages(links) : \E o \in holders : q \in Cells(Owned(o))
        BY <2>1, <2>2, <2>3 DEF Apart
    <2> QED BY <2>4, <2>5, <2>6, <2>7, <2>8
<1> QED BY <1>1, <1>2 DEF ChainsApart

\* ChainsApart: whatever calls of XMS and EMS a program makes, over memory of any size, no page
\* of memory.mhandles belongs to two blocks, none is in use without an owner, and each chain is
\* as long as its block, as long as none of the code's own unsound cases has come up.
THEOREM ChainsStayApart == Spec => []ChainsApart
<1>1. Inv => ChainsApart
    BY InvApart
<1> QED BY <1>1, Always, PTL

\* XmsConsecutive: a block of XMS, grown, moved or shrunk as it may be (MEM_ReAllocatePages with
\* sequence set), has the pages that follow its first one, which XMS_MoveMemory counts on.
THEOREM XmsStaysConsecutive == Spec => []XmsConsecutive
<1>1. ASSUME Inv PROVE XmsConsecutive
    <2>1. ASSUME status = "running", NEW h \in Xms, xms[h].size > 0
          PROVE  Owned(<<"xms", h>>) = Consecutive(xms[h].mem, xms[h].size)
        <3> DEFINE o == <<"xms", h>>
        <3>1. o \in Owners /\ Size(o) = xms[h].size /\ First(o) = xms[h].mem /\ o[1] = "xms"
            BY OwnerIs DEF Size, First
        <3> HIDE DEF o
        <3>2. IsChain(links, Owned(o)) /\ Len(Owned(o)) = Size(o) /\ Owned(o)[1] = First(o) /\ Straight(Owned(o))
            BY <1>1, <2>1, <3>1, OwnedIs
        <3>3. Owned(o) \in Seq(Pages)
            BY <3>2, ChainFacts
        <3> QED BY <3>1, <3>2, <3>3, StraightIs DEF o
    <2> QED BY <2>1 DEF XmsConsecutive
<1>2. Inv => XmsConsecutive
    BY <1>1
<1> QED BY <1>2, Always, PTL

\* WindowShowsTable: as long as no page was given back that a map refers to, each frame shows
\* the pages of the block that emm_mappings names for it, after any maps and any restores
\* (EMM_MapPage, EMM_RestoreMappingTable), resizes and releases in between.
THEOREM WindowIsTable == Spec => []WindowShowsTable
<1>1. ASSUME Inv PROVE WindowShowsTable
    <2>1. ASSUME status = "running", NEW f \in Frames
          PROVE  /\ table[f] = None => shown[f] = None
                 /\ table[f] # None =>
                       shown[f] = SubSeq(Owned(<<"ems", table[f][1]>>), table[f][2] * PerEmsPage + 1,
                                         table[f][2] * PerEmsPage + PerEmsPage)
        <3>1. shown[f] = IF table[f] = None THEN None ELSE View(EmsBlock(table[f][1]), table[f][2])
            BY <1>1, <2>1, InvParts DEF WindowHolds
        <3>2. CASE table[f] = None
            BY <3>1, <3>2
        <3>3. CASE table[f] # None
            <4> DEFINE h == table[f][1]
                       page == table[f][2]
                       start == page * PerEmsPage
                       o == <<"ems", h>>
                       c == Owned(o)
            <4>1. table \in Maps
                BY DEF Maps
            <4>2. h \in Ems /\ page \in EmsSizes
                BY <1>1, <2>1, <3>3, <4>1, InvParts, MapsTyped
            <4>3. /\ o \in HoldersOf(xms, ems) /\ SizeOf(xms, ems, o) = ems[h].pages * PerEmsPage
                  /\ page < ems[h].pages /\ ems[h].pages \in {Unused, 0, SystemPages} \cup EmsSizes
                BY <1>1, <2>1, <3>3, <4>1, InvParts, MapHolder
            <4>4. o \in Owners /\ SizeOf(xms, ems, o) > 0
                BY <4>3 DEF HoldersOf
            <4>5. c = EmsBlock(h)
                <5>1. Owned(o) = Block(links, xms, ems, o)
                    <6> HIDE DEF o
                    <6> QED BY <1>1, <2>1, <4>4, OwnedIs
                <5> QED BY <5>1 DEF EmsBlock
            <4>6. IsChain(links, c) /\ Len(c) = ems[h].pages * PerEmsPage
                <5> HIDE DEF o, h
                <5> QED BY <1>1, <2>1, <4>3, <4>4, OwnedIs
            <4>7. shown[f] = View(c, page)
                BY <3>1, <3>3, <4>5
            <4> HIDE DEF c, o, h, page
            <4>8. /\ start \in Nat /\ PerEmsPage \in Nat /\ PerEmsPage >= 1 /\ start + PerEmsPage <= Len(c)
                  /\ Len(c) \in Nat /\ c \in Seq(Pages)
                BY <4>2, <4>3, <4>6, PageWithin, ChainFacts
            <4>9. View(c, page) = [i \in 1 .. PerEmsPage |-> c[start + i]]
                BY DEF View
            <4> HIDE DEF start
            <4>10. start + 1 \in 1 .. Len(c) /\ start + PerEmsPage \in start + 1 .. Len(c)
                BY <4>8
            <4>11. IsPart(SubSeq(c, start + 1, start + PerEmsPage), c, start + 1, start + PerEmsPage)
                BY <4>6, <4>10, PartIs
            <4>12. SubSeq(c, start + 1, start + PerEmsPage) = [i \in 1 .. PerEmsPage |-> c[start + i]]
                BY <4>8, <4>11 DEF IsPart
            <4>13. shown[f] = SubSeq(c, start + 1, start + PerEmsPage)
                BY <4>7, <4>9, <4>12
            <4>14. shown[f] = SubSeq(Owned(<<"ems", table[f][1]>>), table[f][2] * PerEmsPage + 1,
                                     table[f][2] * PerEmsPage + PerEmsPage)
                BY ONLY <4>13 DEF c, o, h, page, start
            <4> QED BY <3>3, <4>14
        <3> QED BY <3>2, <3>3
    <2> QED BY <2>1 DEF WindowShowsTable
<1>2. Inv => WindowShowsTable
    BY <1>1
<1> QED BY <1>2, Always, PTL

\* As many pages of EMS as are free can be taken, whatever runs they are in.
LEMMA EnoughIs ==
    ASSUME links \in Types, NEW pages \in EmsSizes, Enough(pages)
    PROVE  ~(FreeTotal(links) < pages * PerEmsPage)
<1> DEFINE free == FreeTotal(links)
           each == free \div PerEmsPage
<1>1. free \in Nat /\ pages \in Nat /\ PerEmsPage \in Nat /\ PerEmsPage >= 1
    BY PagesFinite, Drivers DEF FreeTotal, FreePages
<1> HIDE DEF free
<1>2. each \in Int /\ each * PerEmsPage <= free
    BY <1>1
<1>3. pages <= each
    BY DEF Enough, free
<1> HIDE DEF each
<1>4. pages * PerEmsPage <= each * PerEmsPage
    <2>1. each - pages \in Nat
        BY <1>1, <1>2, <1>3
    <2>2. (each - pages) * PerEmsPage >= 0
        BY <1>1, <2>1
    <2>3. (each - pages) * PerEmsPage = each * PerEmsPage - pages * PerEmsPage
        BY <1>1, <1>2
    <2> QED BY <1>1, <1>2, <2>2, <2>3
<1>5. pages * PerEmsPage \in Int /\ each * PerEmsPage \in Int
    BY <1>1, <1>2
<1> QED BY <1>1, <1>2, <1>4, <1>5 DEF free

\* ExitOnlyEmpty: E_Exit is reached by EMM_ReallocatePages for a handle without pages, which does
\* not look what is free, and never by EMM_AllocateMemory, whose look is enough for pages that
\* lie scattered.
THEOREM ExitsOnlyEmpty == Spec => ExitOnlyEmpty
<1> DEFINE Empty == \E h \in Ems, pages \in EmsSizes : ems[h].pages = 0
                       /\ (pages = 0 \/ FreeTotal(links) < pages * PerEmsPage) /\ EmsReallocate(h, pages)
<1>1. ASSUME Inv, Next, status' = "exited" PROVE Empty
    <2>1. \A new, harm, as : status' \in Outcomes(new, harm, as) => as = "exited"
        BY <1>1 DEF Outcomes
    <2>2. ~CallXms
        <3>1. \A size \in XmsSizes : ~XmsAllocate(size)
            BY <1>1 DEF XmsAllocate
        <3>2. \A h \in Xms : ~XmsFree(h) /\ ~XmsLock(h) /\ ~XmsUnlock(h)
            BY <1>1, <2>1 DEF XmsFree, XmsLock, XmsUnlock
        <3>3. \A h \in Xms, size \in XmsSizes : ~XmsResize(h, size)
            BY <2>1 DEF XmsResize
        <3> QED BY <3>1, <3>2, <3>3 DEF CallXms
    <2>3. ASSUME NEW pages \in EmsSizes, EmsAllocate(pages) PROVE FALSE
        <3> DEFINE count == pages * PerEmsPage
                   new == AllocatePages(links, count, FALSE)
        <3>1. status = "running" /\ Enough(pages)
            BY <2>3 DEF EmsAllocate
        <3>2. pages > 0 /\ new.handle = 0
            BY <2>1, <2>3 DEF EmsAllocate
        <3>3. links \in Types /\ count \in Nat /\ count > 0
            BY <1>1, <3>1, <3>2, InvParts, PageCounts, Drivers
        <3>4. ~(FreeTotal(links) < count)
            BY <3>1, <3>3, EnoughIs
        <3>5. new = AllocatePages(links, count, FALSE)
            OBVIOUS
        <3> HIDE DEF new, count
        <3>6. Allocated(links, count, FALSE, new)
            BY <3>3, <3>5, AllocateIs
        <3> QED BY <3>2, <3>3, <3>4, <3>6 DEF Allocated
    <2>4. \A h \in Ems : ~EmsRelease(h) /\ ~SavePageMap(h) /\ ~RestorePageMap(h)
        BY <1>1, <2>1 DEF EmsRelease, SavePageMap, RestorePageMap
    <2>5. \A f, entry : ~MapPage(f, entry)
        BY <1>1 DEF MapPage
    <2>6. ASSUME NEW h \in Ems, NEW pages \in EmsSizes, EmsReallocate(h, pages) PROVE Empty
        <3> DEFINE count == pages * PerEmsPage
                   fresh == AllocatePages(links, count, FALSE)
        <3>1. ems[h].pages = 0 /\ fresh.handle = 0 /\ status = "running"
            BY <2>1, <2>6 DEF EmsReallocate
        <3>2. links \in Types /\ pages \in Nat /\ count \in Nat /\ (pages > 0 => count > 0)
            BY <1>1, <3>1, InvParts, PageCounts, Drivers
        <3>3. fresh = AllocatePages(links, count, FALSE)
            OBVIOUS
        <3>4. Allocated(links, count, FALSE, fresh)
            <4> HIDE DEF fresh, count
            <4> QED BY <3>2, <3>3, AllocateIs
        <3>5. pages = 0 \/ FreeTotal(links) < count
            <4> HIDE DEF fresh, count
            <4> QED BY <3>1, <3>2, <3>4 DEF Allocated
        <3> QED BY <2>6, <3>1, <3>5
    <2> HIDE DEF Empty
    <2> QED BY <1>1, <2>2, <2>3, <2>4, <2>5, <2>6 DEF Next, CallEms
<1>2. Inv /\ [Next]_vars => [status' = "exited" => Empty]_vars
    BY <1>1
<1>3. [][status' = "exited" => Empty]_vars => ExitOnlyEmpty
    BY PTL DEF ExitOnlyEmpty
<1> HIDE DEF Empty
<1> QED BY <1>2, <1>3, Always, PTL DEF Spec
=============================================================================
