----------------------------- MODULE DosProcess -----------------------------
(***************************************************************************)
(* Programs and their memory (dos/dos_execute.cpp, the memory functions of *)
(* dos.cpp, the upper memory functions of ints/xms.cpp, LOADHIGH).  The    *)
(* shell, whose own memory is outside the chain, runs programs, and these  *)
(* run programs; each allocates, resizes and frees its blocks, changes     *)
(* strategy and link, and ends, resident or not.                           *)
(***************************************************************************)
EXTENDS DosMemory

CONSTANTS EnvSize,      \* paragraphs of an environment
          Needs,        \* bound: pairs <<least, most>> a program's header asks for
          Sizes,        \* bound: sizes that programs ask for
          Settable,     \* bound: strategies that programs set
          MaxDepth,     \* bound: programs one upon the other
          MaxResident,  \* bound: programs that stay
          MaxHeaders    \* bound: headers when a program asks for more

Huge  == UmbEnd         \* 0xffff: more than there is
Shell == -3

ASSUME ProcessAssumption ==
    /\ EnvSize \in Nat /\ MaxDepth \in Nat \ {0} /\ {MaxResident, MaxHeaders} \subseteq Nat
    /\ Needs \subseteq (Nat \ {0}) \X Nat /\ Sizes \subseteq Nat /\ Settable \subseteq Strategies

VARIABLES
    mcb,        \* the chains
    linked,     \* the UMB chain's link state
    strategy,   \* memAllocStrategy
    stack,      \* the running programs: [psp, saved]; saved is what LOADHIGH restores
    resident,   \* the programs that stayed
    status      \* "running", or "exited" by E_Exit

settings == <<linked, strategy>>
vars == <<mcb, settings, stack, resident, status>>

\* dos.psp(): a program is known by the paragraph after its header.
psp == IF stack = <<>> THEN Shell ELSE stack[Len(stack)].psp
Live == {stack[k].psp : k \in 1 .. Len(stack)}
Own  == {a \in DOMAIN mcb : mcb[a].owner = psp}

Init ==
    /\ mcb = SetupMemory
    /\ linked = FALSE
    /\ strategy = [area |-> "low", fit |-> "first"]
    /\ stack = <<>> /\ resident = {}
    /\ status = "running"

Running == status = "running" /\ stack # <<>>
Crowded == Cardinality(DOMAIN mcb) >= MaxHeaders

-----------------------------------------------------------------------------
(* Functions 48, 49, 4a and 58 of INT 21. *)

Allocate(n) ==
    /\ Running /\ ~Crowded
    /\ mcb' = AllocateMemory(mcb, strategy, psp, n).mcb
    /\ UNCHANGED <<settings, stack, resident, status>>

\* Also the XMS function that frees upper memory.  A program frees its own blocks, and
\* not the one that it runs in.
Release(a) ==
    /\ Running /\ a \in Own /\ a # psp - 1
    /\ mcb' = FreeMemory(mcb, a)
    /\ UNCHANGED <<settings, stack, resident, status>>

Resize(a, n) ==
    /\ Running /\ ~Crowded /\ a \in Own
    /\ mcb' = ResizeMemory(mcb, psp, a, n).mcb
    /\ UNCHANGED <<settings, stack, resident, status>>

SetStrategy(new) ==
    /\ Running /\ strategy' = new
    /\ UNCHANGED <<mcb, linked, stack, resident, status>>

SetLink(link) ==
    /\ Running
    /\ mcb' = LinkUMBs(mcb, linked, link) /\ linked' = link
    /\ UNCHANGED <<strategy, stack, resident, status>>

\* XMS links upper memory for the time of the search, and then restores the link.
HighOnly == [area |-> "high", fit |-> "first"]
UmbAllocatedUnlinked(m, was, n) == AllocateMemory(LinkUMBs(m, was, TRUE), HighOnly, psp, n).mcb
UmbAllocated(m, was, n) ==
    LinkUMBs(AllocateMemory(LinkUMBs(m, was, TRUE), HighOnly, psp, n).mcb, TRUE, was)

XmsAllocateUmb(n) ==
    /\ Running /\ ~Crowded
    /\ mcb' = UmbAllocated(mcb, linked, n)
    /\ UNCHANGED <<settings, stack, resident, status>>

-----------------------------------------------------------------------------
(* DOS_Execute and DOS_Terminate. *)

\* The allocations of a start: an environment, the size of the largest block, then what
\* the program needs of it or all there is; at last both blocks get the new owner.
Failed(m) == [result |-> "failed", mcb |-> m, psp |-> psp]
Owned(env, image) ==
    IF ~image.ok THEN [result |-> "exited", mcb |-> image.mcb, psp |-> psp]
    ELSE [result |-> "loaded", psp |-> image.at + 1,
          mcb |-> [image.mcb EXCEPT ![env.at].owner = image.at + 1, ![image.at].owner = image.at + 1]]
WithLargest(env, free, how, least, most) ==
    IF free.largest < least THEN Failed(FreeMemory(free.mcb, env.at))
    ELSE Owned(env, AllocateMemory(free.mcb, how, psp, IF free.largest < most THEN free.largest ELSE most))
WithEnvironment(env, how, least, most) ==
    IF ~env.ok THEN Failed(env.mcb)
    ELSE WithLargest(env, AllocateMemory(env.mcb, how, psp, Huge), how, least, most)
Loaded(m, how, least, most) ==
    WithEnvironment(AllocateMemory(m, how, psp, EnvSize), how, least, most)

Execute(least, most) ==
    \E load \in {Loaded(mcb, strategy, least, most)} :
       /\ status = "running" /\ Len(stack) < MaxDepth
       /\ mcb' = load.mcb
       /\ stack' = IF load.result = "loaded" THEN Append(stack, [psp |-> load.psp, saved |-> {}]) ELSE stack
       /\ status' = IF load.result = "exited" THEN "exited" ELSE status
       /\ UNCHANGED <<settings, resident>>

\* LOADHIGH of the shell: high memory first, until the program has ended.
HighFirst == [area |-> "highlow", fit |-> "first"]

LoadHigh(least, most) ==
    \E load \in {Loaded(LinkUMBs(mcb, linked, TRUE), HighFirst, least, most)} :
       /\ status = "running" /\ stack = <<>>
       /\ status' = IF load.result = "exited" THEN "exited" ELSE status
       /\ IF load.result = "loaded"
          THEN /\ mcb' = load.mcb /\ linked' = TRUE /\ strategy' = HighFirst
               /\ stack' = <<[psp |-> load.psp, saved |-> {[linked |-> linked, strategy |-> strategy]}]>>
          ELSE /\ mcb' = LinkUMBs(load.mcb, TRUE, linked)
               /\ UNCHANGED <<settings, stack>>
       /\ UNCHANGED resident

\* The return to the parent, and with it to LOADHIGH, over a chain.
Return(m) ==
    LET frame == stack[Len(stack)]
    IN /\ stack' = SubSeq(stack, 1, Len(stack) - 1)
       /\ IF frame.saved = {}
          THEN mcb' = m /\ UNCHANGED settings
          ELSE \E kept \in frame.saved :
                 /\ mcb' = LinkUMBs(m, linked, kept.linked)
                 /\ linked' = kept.linked /\ strategy' = kept.strategy

Terminate ==
    /\ Running
    /\ Return(FreeProcessMemory(mcb, psp))
    /\ UNCHANGED <<resident, status>>

\* Function 31 stays whether its resize works or not, INT 27 only if it does.
StayResident(n, strict) ==
    /\ Running /\ Cardinality(resident) < MaxResident
    /\ \E resized \in {ResizeMemory(mcb, psp, psp - 1, n)} :
          IF strict /\ ~resized.ok
          THEN mcb' = resized.mcb /\ UNCHANGED <<settings, stack, resident>>
          ELSE Return(resized.mcb) /\ resident' = resident \cup {psp}
    /\ UNCHANGED status

-----------------------------------------------------------------------------
CallMemory ==
    \/ \E n \in Sizes : Allocate(n) \/ XmsAllocateUmb(n)
    \/ \E a \in DOMAIN mcb : Release(a) \/ \E n \in Sizes : Resize(a, n)
    \/ \E new \in Settable : SetStrategy(new)
    \/ \E link \in BOOLEAN : SetLink(link)

CallProcess ==
    \/ \E need \in Needs : Execute(need[1], need[2]) \/ LoadHigh(need[1], need[2])
    \/ Terminate
    \/ \E n \in Sizes \ {0}, strict \in BOOLEAN : StayResident(n, strict)

Next == CallMemory \/ CallProcess

Spec == Init /\ [][Next]_vars

-----------------------------------------------------------------------------
Extents == {[owner |-> mcb[a].owner, first |-> a, last |-> a + mcb[a].size] :
               a \in {b \in DOMAIN mcb : mcb[b].owner # Free}}

TypeOK ==
    /\ DOMAIN mcb \subseteq First .. UmbEnd - 1
    /\ \A a \in DOMAIN mcb :
          /\ mcb[a].owner \in {Free, Dos, Lock} \cup 1 .. UmbEnd
          /\ mcb[a].size \in 0 .. UmbEnd /\ mcb[a].last \in BOOLEAN
    /\ linked \in BOOLEAN /\ strategy \in Strategies
    /\ Len(stack) <= MaxDepth /\ Cardinality(resident) <= MaxResident
    /\ status \in {"running", "exited"}

\* The types; and the two chains are whole: from the first header and from the start of upper memory, each
\* walk meets every header and reaches the end exactly, and low memory leads into upper
\* memory when the state says so.
ChainsWhole ==
    LET low     == Walk(mcb, First)
        high    == Walk(mcb, UmbStart)
        reaches(walk, end) == LET a == walk[Len(walk)] IN mcb[a].last /\ Behind(mcb, a) = end
    IN /\ TypeOK
       /\ reaches(high, UmbEnd)
       /\ reaches(low, IF linked THEN UmbEnd ELSE UmbStart)
       /\ Visited(low) \cup Visited(high) = DOMAIN mcb
       /\ linked <=> UmbStart \in Visited(low)

\* Every block belongs to a program that runs or has stayed: one that has ended leaves
\* nothing behind, in upper memory either, and a failed start leaves no environment.
NothingLeaks ==
    \A a \in DOMAIN mcb : mcb[a].owner \in {Free, Dos, Lock} \cup Live \cup resident

\* A program that runs or stays has the block that its prefix is in.
PrefixKept ==
    \A p \in Live \cup resident : p - 1 \in DOMAIN mcb /\ mcb[p - 1].owner = p

\* The start of a program asks for the largest block and then for no more than that: what
\* was found is still there, whatever strategy and chain.
ExecNeverExits == status # "exited"

\* Blocks do not overlap, and a call or a program's start or end changes only the blocks
\* of one program: nobody loses memory to somebody else.
Arena == INSTANCE DosArena WITH held <- Extents, System <- {Dos, Lock}
ArenaSpec == Arena!Spec
=============================================================================
