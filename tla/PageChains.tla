----------------------------- MODULE PageChains -----------------------------
(***************************************************************************)
(* The allocator of pages above the first megabyte (hardware/memory.cpp).  *)
(* links (memory.mhandles) holds for each page 0 when it is free, the next *)
(* page of its chain, or -1 at the end of a chain; a chain is known by its *)
(* first page.  Page 1 stands for XMS_START.                               *)
(***************************************************************************)
EXTENDS Integers, Sequences, FiniteSets

CONSTANT LastPage         \* memory.pages - 1

ASSUME PagesAssumption == LastPage \in Nat \ {0}

Pages   == 1 .. LastPage
NoPages == [p \in Pages |-> 0]

IsFree(links, p) == p \in Pages /\ links[p] = 0
FreePages(links) == {p \in Pages : links[p] = 0}
FreeTotal(links) == Cardinality(FreePages(links))

After(links, p) == IF p > 0 THEN links[p] ELSE -1

\* MEM_NextHandleAt; 0 and below are the end.
NextHandleAt(links, first, where) ==
    LET at[k \in 0 .. where] == IF k = 0 THEN first ELSE After(links, at[k - 1])
    IN at[where]

\* The pages of a chain, as every loop over one visits them.
Chain(links, first) ==
    LET at[k \in 1 .. LastPage] == IF k = 1 THEN first ELSE After(links, at[k - 1])
        length == Cardinality({k \in 1 .. LastPage : at[k] > 0})
    IN [k \in 1 .. length |-> at[k]]

Cells(chain) == {chain[k] : k \in 1 .. Len(chain)}

-----------------------------------------------------------------------------
(* Runs of free pages, each known by its first. *)

RunOf(links, p) == CHOOSE q \in 1 .. p : (\A r \in q .. p : links[r] = 0) /\ (q = 1 \/ links[q - 1] # 0)
RunLength(links, q) == Cardinality({r \in q .. LastPage : \A s \in q .. r : links[s] = 0})
Runs(links) == {p \in FreePages(links) : p = 1 \/ links[p - 1] # 0}

BestMatchLoose(links, size) ==
    LET fits == {q \in Runs(links) : RunLength(links, q) >= size - 1 /\ q + size - 1 <= LastPage}
    IN IF fits = {} THEN 0 ELSE CHOOSE q \in fits : \A r \in fits : q <= r

\* BestMatch: of the runs that are long enough the shortest, and of those the first.
BestMatch(links, size) ==
    LET length == [q \in Runs(links) |-> RunLength(links, q)]
        fits   == {q \in DOMAIN length : length[q] >= size}
    IN IF fits = {} THEN 0
       ELSE CHOOSE q \in fits : \A r \in fits : length[q] * (LastPage + 1) + q <= length[r] * (LastPage + 1) + r

\* The pages a scattered allocation takes: run by run, the shortest first.
Scattered(links, count) ==
    LET rank == [p \in FreePages(links) |-> RunLength(links, RunOf(links, p)) * (LastPage + 1) + p]
    IN [k \in 1 .. count |->
           CHOOSE p \in DOMAIN rank : Cardinality({q \in DOMAIN rank : rank[q] < rank[p]}) = k - 1]

\* The allocation that leads to new went on to another run after the run at the end of the
\* array.  It looked for that run's end in the cell after the array, and took the cell if
\* it happened to be zero.
Strayed(links, new) == links[LastPage] = 0 /\ new[LastPage] > 0

Consecutive(first, count) == [k \in 1 .. count |-> first + k - 1]

\* links with the cells of a sequence chained.
Linked(links, chain) ==
    LET cells == Cells(chain)
    IN [p \in DOMAIN links |->
           IF p \notin cells THEN links[p]
           ELSE LET k == CHOOSE j \in 1 .. Len(chain) : chain[j] = p
                IN IF k = Len(chain) THEN -1 ELSE chain[k + 1]]

\* MEM_AllocatePages: the pages it would take, none if there are not enough.
Found(links, count, sequence) ==
    LET best == BestMatch(links, count)
    IN IF sequence THEN IF best = 0 THEN <<>> ELSE Consecutive(best, count)
       ELSE IF FreeTotal(links) < count THEN <<>> ELSE Scattered(links, count)
AllocatePages(links, count, sequence) ==
    LET found == IF count = 0 THEN <<>> ELSE Found(links, count, sequence)
    IN [links |-> Linked(links, found), handle |-> IF found = <<>> THEN 0 ELSE found[1]]

ReleasePagesFirstOnly(links, first) ==
    [p \in DOMAIN links |-> IF p = first THEN 0 ELSE links[p]]
ReleasePages(links, first) ==
    LET cells == Cells(Chain(links, first))
    IN [p \in DOMAIN links |-> IF p \in cells THEN 0 ELSE links[p]]

\* MEM_ReAllocatePages of a chain, by case.
Shrunk(links, chain, count) ==
    [p \in DOMAIN links |->
        IF p = chain[count] THEN -1
        ELSE IF \E k \in count + 1 .. Len(chain) : chain[k] = p THEN 0
        ELSE links[p]]

\* A consecutive chain grows in place when the pages after it are free, or else moves.
GrownInPlace(links, chain, count) ==
    LET last == chain[Len(chain)]
        more == Consecutive(last, count - Len(chain) + 1)
    IN IF \A k \in 2 .. Len(more) : IsFree(links, more[k])
       THEN [done |-> TRUE, links |-> Linked(links, more), handle |-> chain[1]]
       ELSE [done |-> FALSE, links |-> links, handle |-> chain[1]]

Moved(links, first, count) ==
    LET new == AllocatePages(links, count, TRUE)
    IN IF new.handle = 0 THEN [done |-> FALSE, links |-> links, handle |-> first]
       ELSE [done |-> TRUE, links |-> ReleasePages(new.links, first), handle |-> new.handle]

\* A scattered chain is continued by another one.
Extended(links, chain, count) ==
    LET new == AllocatePages(links, count - Len(chain), FALSE)
    IN IF new.handle = 0 THEN [done |-> FALSE, links |-> links, handle |-> chain[1]]
       ELSE [done |-> TRUE, handle |-> chain[1],
             links |-> [new.links EXCEPT ![chain[Len(chain)]] = new.handle]]

ReAllocatePages(links, first, count, sequence) ==
    LET chain == Chain(links, first)
        new   == AllocatePages(links, count, sequence)
    IN CASE first <= 0 /\ count = 0 -> [done |-> TRUE, links |-> links, handle |-> first]
         [] first <= 0 /\ count > 0 -> [done |-> new.handle > 0, links |-> new.links, handle |-> new.handle]
         [] first > 0 /\ count = 0  -> [done |-> TRUE, links |-> ReleasePages(links, first), handle |-> -1]
         [] first > 0 /\ count = Len(chain) -> [done |-> TRUE, links |-> links, handle |-> first]
         [] first > 0 /\ count \in 1 .. Len(chain) - 1 ->
                [done |-> TRUE, links |-> Shrunk(links, chain, count), handle |-> first]
         [] first > 0 /\ count > Len(chain) /\ ~sequence -> Extended(links, chain, count)
         [] first > 0 /\ count > Len(chain) /\ sequence ->
                LET inPlace == GrownInPlace(links, chain, count)
                IN IF inPlace.done THEN inPlace ELSE Moved(links, first, count)
=============================================================================
