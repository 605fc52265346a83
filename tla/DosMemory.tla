------------------------------ MODULE DosMemory ------------------------------
(***************************************************************************)
(* The memory of DOS programs (dos/dos_memory.cpp): a chain of blocks with *)
(* a header each.  mcb holds the headers that a walk can meet, by their    *)
(* address: owner, size, and whether the type says that it is the last.    *)
(* Addresses are in paragraphs, from the first header.  Low memory ends    *)
(* where the header at UmbStart covers the adapters, and upper memory (UMB)*)
(* follows; linking the two means that the last low block is not the last. *)
(***************************************************************************)
EXTENDS Integers, Sequences, FiniteSets

CONSTANTS GapSize,      \* the free block that an environment may grow into (4)
          LockSize,     \* the block that keeps it apart (16)
          LowSize,      \* the rest of low memory
          CoverSize,    \* the adapters
          UmbSize       \* upper memory

ASSUME ArenaAssumption == {GapSize, LockSize, LowSize, CoverSize, UmbSize} \subseteq Nat \ {0}

Free == 0      \* MCB_FREE
Dos  == -1     \* MCB_DOS
Lock == -2     \* 0x40

Header(owner, size, last) == [owner |-> owner, size |-> size, last |-> last]

\* DOS_SetupMemory and DOS_BuildUMBChain.
First    == 0
Gap      == First + 2
LockAt   == Gap + GapSize + 1
Low      == LockAt + LockSize + 1
UmbStart == Low + LowSize + 1
Umb      == UmbStart + CoverSize + 1
UmbEnd   == Umb + UmbSize + 1

SetupMemory ==
    [a \in {First, Gap, LockAt, Low, UmbStart, Umb} |->
        CASE a = First    -> Header(Dos, 1, FALSE)
          [] a = Gap      -> Header(Free, GapSize, FALSE)
          [] a = LockAt   -> Header(Lock, LockSize, FALSE)
          [] a = Low      -> Header(Free, LowSize, TRUE)
          [] a = UmbStart -> Header(Dos, CoverSize, FALSE)
          [] a = Umb      -> Header(Free, UmbSize, TRUE)]

\* Where the block after this one begins.
Behind(mcb, a) == a + mcb[a].size + 1
Ends(mcb, a) == mcb[a].last \/ Behind(mcb, a) \notin DOMAIN mcb

\* The headers from one to the last of its chain, as every loop visits them.
Walk(mcb, from) ==
    LET met[n \in 1 .. Cardinality(DOMAIN mcb)] ==
            IF n = 1 THEN <<from>>
            ELSE LET before == met[n - 1]
                     a == before[Len(before)]
                 IN IF Ends(mcb, a) THEN before ELSE Append(before, Behind(mcb, a))
    IN met[Cardinality(DOMAIN mcb)]

Visited(walk) == {walk[k] : k \in 1 .. Len(walk)}

-----------------------------------------------------------------------------
(* Changes of a chain. *)

\* A block cut into a lower part of size n and an upper part, with a header between them.
Split(mcb, a, n, lower, upper) ==
    [b \in DOMAIN mcb \cup {a + n + 1} |->
        IF b = a THEN Header(lower, n, FALSE)
        ELSE IF b = a + n + 1 THEN Header(upper, mcb[a].size - n - 1, mcb[a].last)
        ELSE mcb[b]]

\* A block joined with those that follow it up to the one at b.
Joined(mcb, a, b) ==
    [c \in {d \in DOMAIN mcb : d <= a \/ d > b} |->
        IF c = a THEN Header(mcb[a].owner, b + mcb[b].size - a, mcb[b].last) ELSE mcb[c]]

\* DOS_CompressMemory joins neighbours that are free, in the chain of low memory: every
\* block behind a free one goes, and the first of a run ends where the run does.
Compressed(mcb, gone) ==
    LET end(a) == CHOOSE b \in {a} \cup gone :
                      /\ b >= a /\ Behind(mcb, b) \notin gone
                      /\ \A c \in DOMAIN mcb : a < c /\ c <= b => c \in gone
    IN IF gone = {} THEN mcb
       ELSE [a \in DOMAIN mcb \ gone |->
                IF mcb[a].owner = Free /\ Behind(mcb, a) \in gone
                THEN Header(Free, end(a) + mcb[end(a)].size - a, mcb[end(a)].last) ELSE mcb[a]]
CompressedChain(mcb, free) ==
    Compressed(mcb, {Behind(mcb, a) : a \in {b \in free : ~Ends(mcb, b)}} \cap free)
CompressMemory(mcb) ==
    CompressedChain(mcb, {a \in Visited(Walk(mcb, First)) : mcb[a].owner = Free})

Freed(mcb, owner, walk) ==
    [a \in DOMAIN mcb |-> IF a \in walk /\ mcb[a].owner = owner
                          THEN Header(Free, mcb[a].size, mcb[a].last) ELSE mcb[a]]
FreeProcessMemoryLow(mcb, owner) == CompressMemory(Freed(mcb, owner, Visited(Walk(mcb, First))))
FreeProcessMemory(mcb, owner) ==
    CompressMemory(Freed(mcb, owner, Visited(Walk(mcb, First)) \cup Visited(Walk(mcb, UmbStart))))

FreeMemory(mcb, a) == [mcb EXCEPT ![a].owner = Free]

-----------------------------------------------------------------------------
(* DOS_AllocateMemory.  A strategy is where to search and which fit to take. *)

Strategies == [area : {"low", "high", "highlow"}, fit : {"first", "best", "last"}]

Searched(mcb, area) ==
    CASE area = "low"     -> Walk(mcb, First)
      [] area = "high"    -> Walk(mcb, UmbStart)
      [] area = "highlow" -> Walk(mcb, UmbStart) \o Walk(mcb, First)

FittingTaken(mcb, searched, n) == {k \in 1 .. Len(searched) : mcb[searched[k]].size >= n}
Fitting(mcb, searched, n) ==
    {k \in 1 .. Len(searched) : mcb[searched[k]].owner = Free /\ mcb[searched[k]].size >= n}

\* The place in the search of the block that is taken.
Chosen(mcb, searched, fitting, fit) ==
    CHOOSE k \in fitting : \A j \in fitting :
        CASE fit = "first" -> k <= j
          [] fit = "last"  -> k >= j
          [] fit = "best"  -> \/ mcb[searched[k]].size < mcb[searched[j]].size
                              \/ mcb[searched[k]].size = mcb[searched[j]].size /\ k <= j

\* The last fit is put at the block's upper end.
Taken(mcb, a, n, owner, fit) ==
    IF mcb[a].size = n THEN [mcb |-> [mcb EXCEPT ![a].owner = owner], at |-> a]
    ELSE IF fit = "last"
    THEN LET rest == mcb[a].size - n - 1
         IN [mcb |-> Split(mcb, a, rest, Free, owner), at |-> a + rest + 1]
    ELSE [mcb |-> Split(mcb, a, n, owner, Free), at |-> a]

\* The size of the largest block that was searched and is too small.
LargestAnywhere(mcb, searched) ==
    LET sizes == {0} \cup {mcb[a].size : a \in {b \in DOMAIN mcb : mcb[b].owner = Free}}
    IN CHOOSE n \in sizes : \A m \in sizes : m <= n
Largest(mcb, searched) ==
    LET sizes == {0} \cup {mcb[a].size : a \in {b \in Visited(searched) : mcb[b].owner = Free}}
    IN CHOOSE n \in sizes : \A m \in sizes : m <= n

Placed(taken, n) == [ok |-> TRUE, mcb |-> taken.mcb, at |-> taken.at, largest |-> n]
Allocated(mcb, searched, fitting, fit, owner, n) ==
    IF fitting # {}
    THEN Placed(Taken(mcb, searched[Chosen(mcb, searched, fitting, fit)], n, owner, fit), n)
    ELSE [ok |-> FALSE, mcb |-> mcb, at |-> UmbEnd, largest |-> Largest(mcb, searched)]
AllocatedFrom(mcb, searched, fit, owner, n) ==
    Allocated(mcb, searched, Fitting(mcb, searched, n), fit, owner, n)
AllocatedIn(mcb, strategy, owner, n) ==
    AllocatedFrom(mcb, Searched(mcb, strategy.area), strategy.fit, owner, n)
AllocateMemory(mcb, strategy, owner, n) == AllocatedIn(CompressMemory(mcb), strategy, owner, n)

\* DOS_ResizeMemory.  A block that cannot grow enough takes what it can, and fails.
GrownOver(compressed, a) ==
    IF compressed[a].last THEN compressed ELSE Joined(compressed, a, Behind(compressed, a))
Grown(compressed, a) ==
    LET next == Behind(compressed, a)
    IN IF ~compressed[a].last /\ compressed[next].owner = Free THEN Joined(compressed, a, next) ELSE compressed

Resized(compressed, grown, owner, a, n) ==
    CASE n = compressed[a].size -> [ok |-> TRUE, mcb |-> compressed]
      [] n < compressed[a].size -> [ok |-> TRUE, mcb |-> Split(compressed, a, n, owner, Free)]
      [] n > compressed[a].size /\ n < grown[a].size -> [ok |-> TRUE, mcb |-> Split(grown, a, n, owner, Free)]
      [] n > compressed[a].size /\ n >= grown[a].size ->
             [ok |-> n = grown[a].size, mcb |-> [grown EXCEPT ![a].owner = owner]]

ResizedIn(compressed, owner, a, n) == Resized(compressed, Grown(compressed, a), owner, a, n)
ResizeMemory(mcb, owner, a, n) == ResizedIn(CompressMemory(mcb), owner, a, n)

\* DOS_LinkUMBsToMemChain, when the state is not already the one that is asked for.
LastLow(mcb, low) ==
    CHOOSE a \in Visited(low) : \/ Behind(mcb, a) = UmbStart
                                \/ mcb[a].last /\ UmbStart \notin Visited(low)
LinkUMBs(mcb, linked, link) ==
    IF link = linked THEN mcb ELSE [mcb EXCEPT ![LastLow(mcb, Walk(mcb, First))].last = ~link]
=============================================================================
