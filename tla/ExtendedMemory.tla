--------------------------- MODULE ExtendedMemory ---------------------------
(***************************************************************************)
(* The XMS and the EMS driver (ints/xms.cpp, ints/ems.cpp) over the pages  *)
(* they share.  A guest program calls them in any order.  XMS blocks are   *)
(* consecutive and used by address; EMS pages are scattered and seen       *)
(* through the frames of a window.  Sizes of blocks are in pages: the      *)
(* rounding of kilobytes is left out.                                      *)
(***************************************************************************)
EXTENDS PageChains

CONSTANTS XmsHandles,   \* the handles of XMS but for the disabled handle 0
          EmsHandles,   \* the last handle of EMS
          Frames,       \* physical pages of the window
          PerEmsPage,   \* pages in a page of EMS (4)
          SystemPages,  \* size of the system handle, in pages of EMS
          MaxLocks,     \* bound of a block's lock count (255)
          XmsSizes,     \* bound: sizes a guest asks for, in pages
          EmsSizes,     \* bound: the same, in pages of EMS
          MaxKept       \* bound: handles that keep a map at once

ASSUME DriversAssumption ==
    /\ {XmsHandles, EmsHandles, PerEmsPage, SystemPages, MaxLocks, MaxKept} \subseteq Nat \ {0}
    /\ XmsSizes \cup EmsSizes \subseteq 0 .. LastPage
    /\ SystemPages * PerEmsPage <= LastPage

Xms      == 1 .. XmsHandles
Ems      == 0 .. EmsHandles
Unused   == -1                         \* NULL_HANDLE
None     == <<>>                       \* NULL_PAGE, an unmapped frame
Unmapped == [f \in Frames |-> None]

VARIABLES
    links,      \* memory.mhandles
    xms,        \* xms_handles: [size, mem, locked], size Unused for a free handle
    ems,        \* emm_handles: [pages, mem, saved], saved holds at most one map
    table,      \* emm_mappings: each frame's <<handle, page>> or None
    shown,      \* the pages that paging shows in each frame, or None
    status      \* "running", "exited" by E_Exit, "corrupt" or "stale": see below

windowVars == <<table, shown>>
vars == <<links, xms, ems, windowVars, status>>

FreeBlock == [size |-> Unused, mem |-> -1, locked |-> 0]
NoHandle  == [pages |-> Unused, mem |-> 0, saved |-> {}]

\* The EMS driver's constructor takes the system handle.
Init ==
    LET system == AllocatePages(NoPages, SystemPages * PerEmsPage, FALSE)
    IN /\ links = system.links
       /\ ems = [h \in Ems |-> IF h = 0 THEN [pages |-> SystemPages, mem |-> system.handle, saved |-> {}]
                               ELSE NoHandle]
       /\ xms = [h \in Xms |-> FreeBlock]
       /\ table = Unmapped /\ shown = Unmapped
       /\ status = "running"

\* What the code makes of its own data after any of these is past describing: the behaviour
\* ends.  A block of size zero, which remembers a page that it does not own, was freed or
\* resized after the page had been given away, was resized to that page alone, or moved
\* over it ("corrupt"); a scattered allocation took the cell after the array ("corrupt"); a
\* page of EMS was given back that a frame or a kept map refers to, and the window goes on
\* showing it whoever gets it ("stale").
Outcomes(new, harm, as) ==
    IF harm THEN {as} ELSE IF Strayed(links, new) THEN {"running", "corrupt"} ELSE {"running"}

-----------------------------------------------------------------------------
(* XMS. *)

FreeXms == {h \in Xms : xms[h].size = Unused}

ZeroMem == BestMatch(links, 1)

XmsAllocate(size) ==
    LET new == AllocatePages(links, size, TRUE)
    IN /\ status = "running" /\ FreeXms # {}
       /\ size > 0 => new.handle # 0
       /\ \E h \in FreeXms :
             /\ \A g \in FreeXms : h <= g
             /\ xms' = [xms EXCEPT ![h] = [size |-> size, locked |-> 0,
                                           mem |-> IF size = 0 THEN ZeroMem ELSE new.handle]]
       /\ links' = new.links
       /\ UNCHANGED <<ems, windowVars, status>>

\* A block of size zero that remembers a page somebody else may own.
IsZero(h) == xms[h].size = 0 /\ xms[h].mem > 0

XmsFree(h) ==
    /\ status = "running" /\ xms[h].size # Unused
    /\ links' = ReleasePages(links, xms[h].mem)
    /\ xms' = [xms EXCEPT ![h] = FreeBlock]
    /\ status' \in Outcomes(links', IsZero(h) /\ links[xms[h].mem] # 0, "corrupt")
    /\ UNCHANGED <<ems, windowVars>>

XmsLock(h) ==
    /\ status = "running" /\ xms[h].size # Unused /\ xms[h].locked < MaxLocks
    /\ xms' = [xms EXCEPT ![h].locked = @ + 1]
    /\ UNCHANGED <<links, ems, windowVars, status>>

XmsUnlock(h) ==
    /\ status = "running" /\ xms[h].size # Unused /\ xms[h].locked > 0
    /\ xms' = [xms EXCEPT ![h].locked = @ - 1]
    /\ UNCHANGED <<links, ems, windowVars, status>>

MayResize(h) == xms[h].size # Unused /\ xms[h].locked = 0

\* A resize that fails has still written the handle's mem.
XmsResize(h, size) ==
    LET new == ReAllocatePages(links, xms[h].mem, size, TRUE)
        zeroHarmed == IsZero(h) /\ size > 0
                      /\ (links[xms[h].mem] # 0 \/ size = 1 \/ new.handle # xms[h].mem)
    IN /\ status = "running" /\ MayResize(h)
       /\ links' = new.links
       /\ xms' = [xms EXCEPT ![h].mem = new.handle, ![h].size = IF new.done THEN size ELSE @]
       /\ status' \in Outcomes(new.links, zeroHarmed \/ (IsZero(h) /\ links[xms[h].mem] # 0), "corrupt")
       /\ UNCHANGED <<ems, windowVars>>

-----------------------------------------------------------------------------
(* EMS. *)

FreeEms == {h \in Ems \ {0} : ems[h].pages = Unused}
Valid(h) == ems[h].pages # Unused

EnoughLoosely(pages) == FreeTotal(links) >= pages
Enough(pages) == FreeTotal(links) \div PerEmsPage >= pages

\* The maps that are in force or kept, and whether one of them refers to a page of the handle.
Maps == {table} \cup UNION {ems[h].saved : h \in Ems}
Referred(h, from) == \E map \in Maps, f \in Frames : map[f] # None /\ map[f][1] = h /\ map[f][2] >= from

\* Function 5a may allocate no page at all.
EmsAllocate(pages) ==
    LET new == AllocatePages(links, pages * PerEmsPage, FALSE)
    IN /\ status = "running" /\ Enough(pages) /\ FreeEms # {}
       /\ IF pages > 0 /\ new.handle = 0
          THEN status' = "exited" /\ UNCHANGED <<links, ems>>
          ELSE /\ \E h \in FreeEms :
                     /\ \A g \in FreeEms : h <= g
                     /\ ems' = [ems EXCEPT ![h] = [pages |-> pages, mem |-> new.handle, saved |-> {}]]
               /\ links' = new.links
               /\ status' \in Outcomes(new.links, FALSE, "stale")
       /\ UNCHANGED <<xms, windowVars>>

\* A handle without pages allocates without a look at what is free, and no page is no page.
EmsReallocate(h, pages) ==
    LET resized == ReAllocatePages(links, ems[h].mem, pages * PerEmsPage, FALSE)
        fresh   == AllocatePages(links, pages * PerEmsPage, FALSE)
    IN /\ status = "running" /\ Valid(h)
       /\ IF ems[h].pages # 0
          THEN /\ resized.done
               /\ links' = resized.links
               /\ ems' = [ems EXCEPT ![h].pages = pages, ![h].mem = resized.handle]
               /\ status' \in Outcomes(resized.links, Referred(h, pages), "stale")
          ELSE IF fresh.handle = 0
          THEN status' = "exited" /\ UNCHANGED <<links, ems>>
          ELSE /\ links' = fresh.links
               /\ ems' = [ems EXCEPT ![h].pages = pages, ![h].mem = fresh.handle]
               /\ status' \in Outcomes(fresh.links, FALSE, "stale")
       /\ UNCHANGED <<xms, windowVars>>

\* The system handle stays valid, with no pages.
EmsRelease(h) ==
    /\ status = "running" /\ Valid(h)
    /\ links' = IF ems[h].pages # 0 THEN ReleasePages(links, ems[h].mem) ELSE links
    /\ ems' = [ems EXCEPT ![h] = [NoHandle EXCEPT !.pages = IF h = 0 THEN 0 ELSE Unused]]
    /\ status' \in Outcomes(links, Referred(h, 0), "stale")
    /\ UNCHANGED <<xms, windowVars>>

\* The pages a frame shows for a page of EMS.
Window(h, page) ==
    [i \in 1 .. PerEmsPage |-> NextHandleAt(links, ems[h].mem, page * PerEmsPage + i - 1)]

Mappable(entry) == entry # None => Valid(entry[1]) /\ entry[2] < ems[entry[1]].pages
Image(entry) == IF entry = None THEN None ELSE Window(entry[1], entry[2])

MapPage(f, entry) ==
    /\ status = "running" /\ Mappable(entry)
    /\ table' = [table EXCEPT ![f] = entry]
    /\ shown' = [shown EXCEPT ![f] = Image(entry)]
    /\ UNCHANGED <<links, xms, ems, status>>

\* EMM_RestoreMappingTable: an entry that cannot be mapped leaves its frame as it is.
RestoredMapped(map) ==
    [f \in Frames |-> IF map[f] # None /\ Mappable(map[f]) THEN Image(map[f]) ELSE shown[f]]
Restored(map) == [f \in Frames |-> IF Mappable(map[f]) THEN Image(map[f]) ELSE shown[f]]

SavePageMap(h) ==
    /\ status = "running" /\ Valid(h) /\ ems[h].saved = {}
    /\ Cardinality({g \in Ems : ems[g].saved # {}}) < MaxKept
    /\ ems' = [ems EXCEPT ![h].saved = {table}]
    /\ UNCHANGED <<links, xms, windowVars, status>>

RestorePageMap(h) ==
    /\ status = "running" /\ Valid(h)
    /\ ems' = [ems EXCEPT ![h].saved = {}]
    /\ \E map \in ems[h].saved : table' = map /\ shown' = Restored(map)
    /\ UNCHANGED <<links, xms, status>>

-----------------------------------------------------------------------------
CallXms ==
    \/ \E size \in XmsSizes : XmsAllocate(size)
    \/ \E h \in Xms : XmsFree(h) \/ XmsLock(h) \/ XmsUnlock(h)
    \/ \E h \in Xms, size \in XmsSizes : XmsResize(h, size)

CallEms ==
    \/ \E pages \in EmsSizes : EmsAllocate(pages)
    \/ \E h \in Ems : EmsRelease(h) \/ SavePageMap(h) \/ RestorePageMap(h)
    \/ \E h \in Ems, pages \in EmsSizes : EmsReallocate(h, pages)
    \/ \E f \in Frames : \/ MapPage(f, None)
                         \/ \E h \in Ems, page \in EmsSizes : MapPage(f, <<h, page>>)

Next == CallXms \/ CallEms

Spec == Init /\ [][Next]_vars

-----------------------------------------------------------------------------
Owners == ({"xms"} \X Xms) \cup ({"ems"} \X Ems)
Size(o) == IF o[1] = "xms" THEN xms[o[2]].size ELSE ems[o[2]].pages * PerEmsPage
First(o) == IF o[1] = "xms" THEN xms[o[2]].mem ELSE ems[o[2]].mem
Owned(o) == IF Size(o) > 0 THEN Chain(links, First(o)) ELSE <<>>

TypeOK ==
    /\ links \in [Pages -> {-1, 0} \cup Pages]
    /\ xms \in [Xms -> [size : {Unused} \cup XmsSizes, mem : {-1, 0} \cup Pages, locked : 0 .. MaxLocks]]
    /\ \A h \in Ems : ems[h].pages \in {Unused, 0, SystemPages} \cup EmsSizes /\ ems[h].mem \in {-1, 0} \cup Pages
    /\ \A map \in Maps, f \in Frames : map[f] = None \/ (map[f][1] \in Ems /\ map[f][2] \in EmsSizes)
    /\ status \in {"running", "exited", "corrupt", "stale"}

\* The types; and no page belongs to two blocks, and no page is lost: the pages in use are those of the
\* blocks' chains, XMS or EMS, and each chain is as long as its block and ends.
ChainsApart ==
    /\ TypeOK
    /\ status = "running" =>
        LET holders == {o \in Owners : Size(o) > 0}
            cells   == [o \in holders |-> Cells(Owned(o))]
        IN /\ \A o \in holders : Cardinality(cells[o]) = Size(o) /\ Len(Owned(o)) = Size(o)
           /\ \A o, p \in holders : o # p => cells[o] \cap cells[p] = {}
           /\ Pages \ FreePages(links) = UNION {cells[o] : o \in holders}

\* XMS_MoveMemory and the address of a locked block count on consecutive pages.
XmsConsecutive ==
    status = "running" =>
        \A h \in Xms : xms[h].size > 0 => Owned(<<"xms", h>>) = Consecutive(xms[h].mem, xms[h].size)

\* The window shows what the table says, as long as no page was given back that a map
\* refers to ("apps are required to restore the pagemap beforehand").
WindowShowsTable ==
    status = "running" =>
        \A f \in Frames :
            IF table[f] = None THEN shown[f] = None
            ELSE LET start == table[f][2] * PerEmsPage
                 IN shown[f] = SubSeq(Owned(<<"ems", table[f][1]>>), start + 1, start + PerEmsPage)

\* E_Exit is reached by a handle without pages and in no other way: the checks before
\* each allocation are enough, however scattered the free pages are.
ExitOnlyEmpty ==
    [][status' = "exited" => \E h \in Ems, pages \in EmsSizes : ems[h].pages = 0
           /\ (pages = 0 \/ FreeTotal(links) < pages * PerEmsPage) /\ EmsReallocate(h, pages)]_vars
=============================================================================
