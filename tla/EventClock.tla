----------------------------- MODULE EventClock -----------------------------
(***************************************************************************)
(* Emulated time: the processor's slices of cycles, the PIC's queue of     *)
(* timed events, the millisecond tick and the loop that paces ticks by the *)
(* host's clock (hardware/pic.cpp, dosbox.cpp), with counter 0 of the      *)
(* timer (hardware/timer.cpp) and any other device as users of the queue.  *)
(* Times are in cycles since the tick began; an event's may be negative.   *)
(***************************************************************************)
EXTENDS Integers, Sequences, FiniteSets

CONSTANTS CycleMax,      \* CPU_CycleMax: cycles in a millisecond
          QueueSize,     \* PIC_QUEUESIZE
          CycleHack,     \* cycles dosbox_config.cycle_hack lets a tick run over, or 0
          Stretch,       \* cycles a control word that raises IRQ 0 leaves to the slice
          Delays,        \* bound: delays of events and periods of the timer, in cycles
          MaxRemain,     \* ticks the loop catches up at once (20)
          MaxBehind,     \* bound: how far the host's clock goes between two looks at it
          MaxPrograms    \* bound: how often the guest writes a control word

ASSUME ClockAssumption ==
    /\ {CycleMax, QueueSize, MaxRemain, MaxBehind} \subseteq Nat \ {0}
    /\ {CycleHack, Stretch, MaxPrograms} \subseteq Nat
    /\ Delays \subseteq Nat \ {0}

Pit == "PIT0_Event"
Device == "device"
Events == [at : Int, owner : {Pit, Device}]
Counters == [mode : {0, 2, 3}, new : BOOLEAN, period : Delays, next : Delays \cup {0}, half : BOOLEAN]

VARIABLES
    pc,        \* in Normal_Loop: "loop", "serve" (in PIC_RunQueue), "core", "events"
               \* (at GFX_Events), "paused" (asleep in PauseDOSBox), "resumed"
    left,      \* CPU_CycleLeft
    cycles,    \* CPU_Cycles
    queue,     \* the events, ordered: [at, owner]
    eventCount,\* has this PIC_RunQueue served an event?
    served,    \* the owner whose handler ran in the last step, or "none"
    clock,     \* the host's milliseconds since ticksLast
    remain,    \* ticksRemain
    slack,     \* history: the host's milliseconds that no tick has used, up to Burst
    pit,       \* counter 0: [mode, new, period, next, half]
    programs,  \* control words written
    dropped    \* history: an event found the queue full

timeVars == <<left, cycles>>
hostVars == <<clock, remain, slack>>
vars == <<pc, timeVars, queue, eventCount, served, hostVars, pit, programs, dropped>>

Min(a, b) == IF a < b THEN a ELSE b
Now == CycleMax - left - cycles
IsEmpty == queue = <<>>
Next0 == queue[1].at

-----------------------------------------------------------------------------
(* The queue. *)

InsertAtEnd(q, e) == Append(q, e)

\* AddEntry: before the first event that is strictly later.
Insert(q, e) ==
    LET k == CHOOSE n \in 1 .. Len(q) + 1 :
                 /\ \A i \in 1 .. n - 1 : q[i].at <= e.at
                 /\ n <= Len(q) => q[n].at > e.at
    IN [i \in 1 .. Len(q) + 1 |-> IF i < k THEN q[i] ELSE IF i = k THEN e ELSE q[i - 1]]

\* PIC_AddEvent takes a free entry, or drops the event.
Added(q, inUse, owner, at) ==
    IF inUse >= QueueSize THEN q ELSE Insert(q, [at |-> at, owner |-> owner])

\* PIC_RemoveEvents: the k-th event that stays is the one with k - 1 such before it.
Removed(q, owner) ==
    LET kept == {i \in 1 .. Len(q) : q[i].owner # owner}
        before(i) == {j \in kept : j < i}
    IN [k \in 1 .. Cardinality(kept) |-> q[CHOOSE i \in kept : Cardinality(before(i)) = k - 1]]

\* While a handler runs its own entry is neither in the queue nor free.
AddedInService(q, owner, at) == Added(q, Len(q) + 1, owner, at)

CutNever(q, c) == left' = left /\ cycles' = c

\* AddEntry, outside a handler: a slice that would run past the first event ends.
Cut(q, c) ==
    IF q # <<>> /\ q[1].at - (CycleMax - left - c) < c
    THEN left' = left + c /\ cycles' = 0
    ELSE left' = left /\ cycles' = c

-----------------------------------------------------------------------------
(* Counter 0 of the timer. *)

InitPit(period) == [mode |-> 3, new |-> FALSE, period |-> period, next |-> 0, half |-> FALSE]

\* PIT0_Event: the next event counts from when this one was due; a new count of mode 2
\* takes over now.
PitFired ==
    IF pit.mode = 0 THEN pit
    ELSE [pit EXCEPT !.period = IF pit.next = 0 THEN @ ELSE pit.next, !.next = 0]

\* The second half of a count loads it.  In mode 2 a running counter keeps its period
\* until it has run out; only a new mode, or mode 0, queues an event.
LoadsLater == ~pit.new /\ pit.mode = 2
Loaded(period) ==
    IF LoadsLater THEN [pit EXCEPT !.next = period, !.half = FALSE]
    ELSE [pit EXCEPT !.period = period, !.new = FALSE, !.half = FALSE]
LoadQueuesAnyCount == ~LoadsLater
LoadQueues == ~LoadsLater /\ (pit.new \/ pit.mode = 0)

-----------------------------------------------------------------------------
Init ==
    /\ pc = "loop" /\ left = 0 /\ cycles = 0
    /\ \E p \in Delays : pit = InitPit(p) /\ queue = <<[at |-> p, owner |-> Pit]>>
    /\ eventCount = FALSE /\ served = "none"
    /\ clock = 0 /\ remain = 0 /\ slack = 0
    /\ programs = 0 /\ dropped = FALSE

\* PIC_RunQueue begins: is there any time left in this tick?
RunQueue ==
    /\ pc = "loop"
    /\ left' = left + cycles /\ cycles' = 0
    /\ pc' = IF left' <= 0 THEN "events" ELSE "serve"
    /\ eventCount' = FALSE /\ served' = "none"
    /\ UNCHANGED <<queue, hostVars, pit, programs, dropped>>

Due == ~IsEmpty /\ Next0 <= Now

\* It calls the handler of the first event that is due, with InEventService set.
ServePit ==
    /\ pc = "serve" /\ Due /\ queue[1].owner = Pit
    /\ pit' = PitFired
    /\ queue' = IF pit.mode = 0 THEN Tail(queue)
                ELSE AddedInService(Tail(queue), Pit, Next0 + pit'.period)
    /\ dropped' = (dropped \/ (pit.mode # 0 /\ Len(queue) >= QueueSize))
    /\ eventCount' = TRUE /\ served' = Pit
    /\ UNCHANGED <<pc, timeVars, hostVars, programs>>

\* A device's handler may add its next event, drop the rest of its events, or do neither.
ServeDevice ==
    /\ pc = "serve" /\ Due /\ queue[1].owner = Device
    /\ \/ /\ queue' \in {Tail(queue), Removed(Tail(queue), Device)}
          /\ UNCHANGED dropped
       \/ \E d \in Delays : queue' = AddedInService(Tail(queue), Device, Next0 + d)
          /\ dropped' = (dropped \/ Len(queue) >= QueueSize)
    /\ eventCount' = TRUE /\ served' = Device
    /\ UNCHANGED <<pc, timeVars, hostVars, pit, programs>>

RunOverWholeTick == CycleMax
RunOver == IF CycleHack > 0 /\ eventCount THEN Min(left + CycleHack, CycleMax) ELSE left

\* It ends: the slice is until the next event or the end of the tick; with the cycle hack
\* a tick that has served an event and expects no other may run over.
Slice ==
    /\ pc = "serve" /\ ~Due
    /\ cycles' = IF IsEmpty THEN left
                 ELSE IF Next0 - Now < left THEN Next0 - Now ELSE RunOver
    /\ left' = left - cycles'
    /\ pc' = "core" /\ eventCount' = FALSE /\ served' = "none"
    /\ UNCHANGED <<queue, hostVars, pit, programs, dropped>>

\* The core executes an instruction while (CPU_Cycles-- > 0), and may leave after it for
\* a callback or an interrupt.
Executes == pc = "core" /\ cycles > 0 /\ pc' \in {"core", "loop"}

Plain ==
    /\ Executes
    /\ cycles' = cycles - 1
    /\ served' = "none"
    /\ UNCHANGED <<left, queue, eventCount, hostVars, pit, programs, dropped>>

\* An instruction makes a device add an event, or drop its events.
AddDevice ==
    /\ Executes
    /\ \E d \in Delays : queue' = Added(queue, Len(queue), Device, CycleMax - left - (cycles - 1) + d)
    /\ Cut(queue', cycles - 1)
    /\ dropped' = (dropped \/ Len(queue) >= QueueSize)
    /\ served' = "none"
    /\ UNCHANGED <<eventCount, hostVars, pit, programs>>

RemoveDevice ==
    /\ Executes
    /\ queue' = Removed(queue, Device)
    /\ cycles' = cycles - 1 /\ left' = left
    /\ served' = "none"
    /\ UNCHANGED <<eventCount, hostVars, pit, programs, dropped>>

\* write_p43 for counter 0.  When the output of a running counter was low, the new mode
\* raises IRQ 0, and a slice with little left is stretched.
ControlWord(mode, low) ==
    /\ Executes /\ programs < MaxPrograms /\ programs' = programs + 1
    /\ queue' = Removed(queue, Pit)
    /\ pit' = [pit EXCEPT !.mode = mode, !.new = TRUE, !.next = 0, !.half = FALSE]
    /\ low => ~pit.new
    /\ cycles' = IF low /\ mode # 0 /\ cycles - 1 < Stretch THEN Stretch ELSE cycles - 1
    /\ left' = left
    /\ served' = "none"
    /\ UNCHANGED <<eventCount, hostVars, dropped>>

FirstHalf ==
    /\ Executes /\ ~pit.half
    /\ pit' = [pit EXCEPT !.half = TRUE]
    /\ cycles' = cycles - 1 /\ left' = left
    /\ served' = "none"
    /\ UNCHANGED <<queue, eventCount, hostVars, programs, dropped>>

\* write_latch, the byte that completes a count.
SecondHalf(period) ==
    LET before == IF pit.mode = 0 THEN Removed(queue, Pit) ELSE queue
    IN /\ Executes /\ pit.half
       /\ pit' = Loaded(period)
       /\ IF LoadQueues
          THEN /\ queue' = Added(before, Len(before), Pit, CycleMax - left - (cycles - 1) + period)
               /\ Cut(queue', cycles - 1)
               /\ dropped' = (dropped \/ Len(before) >= QueueSize)
          ELSE cycles' = cycles - 1 /\ UNCHANGED <<left, queue, dropped>>
       /\ served' = "none"
       /\ UNCHANGED <<eventCount, hostVars, programs>>

\* The test that ends the slice decrements, too.
SliceOver ==
    /\ pc = "core" /\ cycles <= 0
    /\ cycles' = cycles - 1 /\ pc' = "loop"
    /\ served' = "none"
    /\ UNCHANGED <<left, queue, eventCount, hostVars, pit, programs, dropped>>

-----------------------------------------------------------------------------
(* Between two slices: GFX_Events, a tick, or a look at the host's clock. *)

TickOver == pc \in {"events", "resumed"}

\* The host's clock runs, and since the loop looks at it only between two slices it is
\* enough that it does so there, also after a pause.  What it gives the loop and no tick
\* uses is forgotten beyond twice the ticks that the loop catches up at once: those it
\* has still to make and those it will find when it looks at the clock.
Burst == 2 * MaxRemain
Passed == clock' = clock + 1 /\ slack' = Min(slack + 1, Burst)

HostClock ==
    /\ TickOver /\ clock < MaxBehind
    /\ Passed
    /\ UNCHANGED <<pc, timeVars, queue, eventCount, served, remain, pit, programs, dropped>>

\* GFX_Events finds the user's pause and sleeps in PauseDOSBox; the user resumes.
Pause ==
    /\ pc = "events" /\ pc' = "paused"
    /\ UNCHANGED <<timeVars, queue, eventCount, served, hostVars, pit, programs, dropped>>

Resume ==
    /\ pc = "paused" /\ pc' = "resumed"
    /\ UNCHANGED <<timeVars, queue, eventCount, served, hostVars, pit, programs, dropped>>

LoweredNever(q) == q
Lowered(q) == [i \in 1 .. Len(q) |-> [q[i] EXCEPT !.at = @ - CycleMax]]

\* TIMER_AddTick: a new millisecond; a tick handler may add an event.
AddTick ==
    /\ TickOver /\ remain > 0
    /\ left' = CycleMax /\ cycles' = 0
    /\ \/ queue' = Lowered(queue) /\ UNCHANGED dropped
       \/ \E d \in Delays : queue' = Added(Lowered(queue), Len(queue), Device, d)
          /\ dropped' = (dropped \/ Len(queue) >= QueueSize)
    /\ remain' = remain - 1 /\ slack' = slack - 1 /\ UNCHANGED clock
    /\ pc' = "loop" /\ served' = "none"
    /\ UNCHANGED <<eventCount, pit, programs>>

TicksAll(behind) == behind               \* mutant: the rest is not forgotten
Ticks(behind) == Min(behind, MaxRemain)

\* increaseticks: the milliseconds of the host's clock since ticksLast become ticks, but
\* not more than MaxRemain; if there is none the loop sleeps for one.
IncreaseTicks ==
    /\ TickOver /\ remain = 0
    /\ IF clock > 0 THEN remain' = Ticks(clock) /\ clock' = 0 /\ UNCHANGED slack
       ELSE Passed /\ UNCHANGED remain
    /\ pc' = "loop" /\ served' = "none"
    /\ UNCHANGED <<timeVars, queue, eventCount, pit, programs, dropped>>

-----------------------------------------------------------------------------
NormalLoop ==
    \/ RunQueue \/ ServePit \/ ServeDevice \/ Slice \/ SliceOver
    \/ Plain \/ AddDevice \/ RemoveDevice \/ FirstHalf
    \/ \E mode \in {0, 2, 3}, low \in BOOLEAN : ControlWord(mode, low)
    \/ \E period \in Delays : SecondHalf(period)
    \/ AddTick \/ IncreaseTicks

Next == NormalLoop \/ HostClock \/ Pause \/ Resume

Spec == Init /\ [][Next]_vars
\* The emulator's thread runs: Normal_Loop waits only in SDL_Delay, and in PauseDOSBox
\* for a resume that the user owes nobody.
FairSpec == Spec /\ WF_vars(NormalLoop)

-----------------------------------------------------------------------------
\* The queue is ordered, so that the handlers run in the order of their times, and holds
\* at most what it has room for.  A tick is overrun by the cycle hack and the instruction
\* that ends the slice, and is longer than CycleMax only by what control words stretch.
TypeOK ==
    /\ pc \in {"loop", "serve", "core", "events", "paused", "resumed"}
    /\ left \in Int /\ left >= -(CycleHack + 1) /\ cycles \in Int /\ cycles >= -1
    /\ left + cycles <= CycleMax + programs * Stretch
    /\ queue \in Seq(Events) /\ Len(queue) <= QueueSize
    /\ \A i, j \in 1 .. Len(queue) : i < j => queue[i].at <= queue[j].at
    /\ eventCount \in BOOLEAN /\ clock \in Nat /\ dropped \in BOOLEAN
    /\ remain \in 0 .. MaxRemain /\ slack \in Int /\ programs \in 0 .. MaxPrograms
    /\ pit \in Counters

\* No instruction runs at or after the time of an event that waits, whatever is added in
\* the middle of a slice.  Only past the end of the tick an event is late, by what the
\* cycle hack lets the tick run over.
NoneLate ==
    pc = "core" /\ cycles > 0 /\ ~IsEmpty =>
        Now < Next0 + (IF Now >= CycleMax THEN CycleHack ELSE 0)

\* Counter 0 has one event in the queue from when its count is loaded, and none while it
\* waits for a count; the one-shot of mode 0 has at most one.
TimerArmed ==
    LET events == Cardinality({i \in 1 .. Len(queue) : queue[i].owner = Pit})
    IN ~dropped => IF pit.new THEN events = 0
                   ELSE IF pit.mode = 0 THEN events <= 1 ELSE events = 1

\* The emulator never runs more milliseconds than the host has had since it began; nor,
\* after however long a stall or pause, more than Burst ahead of the host's in any stretch
\* of time: a tick without credit would make slack, which counts both, negative.
NotFasterThanHost == slack >= 0

\* PIC_FullIndex, which the timer's counters are read from, goes back only when a tick
\* begins, by what the last one ran over, and when a control word stretches the slice.
TickBegins == remain' < remain
TimeForward ==
    [][IF TickBegins THEN Now' + CycleMax >= Now - (CycleHack + 1)
       ELSE Now' >= Now - (IF programs' > programs THEN Stretch ELSE 0)]_vars

\* Unless the user leaves the emulator paused for ever, every event that waits is served,
\* or removed with all of its device, however often it is paused.  A program may put the
\* one-shot of mode 0 off for ever by writing its count again.
Waiting(owner) == \E i \in 1 .. Len(queue) : queue[i].owner = owner
EventsServed ==
    []<>(pc # "paused") => \A owner \in {Pit, Device} :
        Waiting(owner) /\ (owner = Pit => pit.mode # 0) ~> served = owner \/ ~Waiting(owner)
=============================================================================
