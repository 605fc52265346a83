------------------------------- MODULE Mouse --------------------------------
(***************************************************************************)
(* The mouse driver (ints/mouse.cpp) as a record and the operators that    *)
(* the host's movements and buttons, its timer, IRQ 12 and the guest's     *)
(* calls of INT 33 apply to it.  Positions and the cursor are left out, as *)
(* is the PS/2 callback of the BIOS.  The activation of IRQ 12 is in the   *)
(* actions of Machine that use these operators.                            *)
(***************************************************************************)
EXTENDS Naturals, Sequences

CONSTANTS QueueSize      \* QUEUE_SIZE: events the driver holds

ASSUME QueueSizeAssumption == QueueSize \in Nat \ {0}

\* One button, pressed and released, and the movement.
Moved == "moved"
EventTypes == {Moved, "pressed", "released"}

\* queue holds the events, the oldest first; limits counts the entries of
\* MOUSE_Limit_Events in the PIC's event queue.
Drivers == [queue : Seq(EventTypes), timer : BOOLEAN, limits : Nat, mask : SUBSET EventTypes,
            inUIR : BOOLEAN]

InitMouse ==
    [queue |-> <<>>, timer |-> FALSE, limits |-> 0, mask |-> {}, inUIR |-> FALSE]

Arm(m) == [m EXCEPT !.timer = TRUE, !.limits = @ + 1]

AddEventSkipsAny(m, type) ==
    LET n == [m EXCEPT !.queue = IF m.queue = <<>> THEN <<type>> ELSE m.queue]
    IN IF m.timer THEN n ELSE Arm(n)

\* Mouse_AddEvent: a movement is skipped when anything waits, a button's event only
\* when the queue is full; does it activate IRQ 12?
AddEvent(m, type) ==
    LET q == IF Len(m.queue) < QueueSize THEN Append(m.queue, type) ELSE m.queue
        n == [m EXCEPT !.queue = q]
    IN IF type = Moved /\ m.queue # <<>> /\ Len(m.queue) < QueueSize THEN m
       ELSE IF m.timer THEN n ELSE Arm(n)

AddEventActivates(m, type) ==
    /\ ~m.timer
    /\ ~(type = Moved /\ m.queue # <<>> /\ Len(m.queue) < QueueSize)

\* MOUSE_Limit_Events: the timer's event is due; while events wait it comes again and
\* activates IRQ 12.
LimitEvents(m) ==
    LET n == [m EXCEPT !.timer = FALSE, !.limits = @ - 1]
    IN IF m.queue = <<>> THEN n ELSE Arm(n)

\* INT74_Handler takes the oldest event; the guest's subroutine is called for the types
\* in its mask.
CallsUser(m) == m.queue # <<>> /\ Head(m.queue) \in m.mask
Take(m) ==
    IF m.queue = <<>> THEN m
    ELSE [m EXCEPT !.queue = Tail(@), !.inUIR = @ \/ CallsUser(m)]

\* MOUSE_UserInt_CB_Handler, on the way back.
UserIntReturned(m) ==
    LET n == [m EXCEPT !.inUIR = FALSE]
    IN IF m.queue # <<>> /\ ~m.timer THEN Arm(n) ELSE n

\* Is the video mode known to the driver?  The others leave queue and timer alone.
NewVideoModeKeepsEvent(m, known) ==
    IF known THEN [m EXCEPT !.queue = <<>>, !.timer = FALSE] ELSE m
NewVideoMode(m, known) ==
    IF known THEN [m EXCEPT !.queue = <<>>, !.timer = FALSE, !.limits = 0] ELSE m
Reset(m, known) == [NewVideoMode(m, known) EXCEPT !.mask = {}, !.inUIR = FALSE]
DefineSubroutine(m, mask) == [m EXCEPT !.mask = mask]

\* INT 33 functions 16 and 17 copy the driver's variables, and not the PIC's queue.
LoadState(m, saved) == [saved EXCEPT !.limits = m.limits]
=============================================================================
