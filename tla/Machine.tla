------------------------------ MODULE Machine -------------------------------
(***************************************************************************)
(* The emulated machine's input path: keys and mouse of the host, the      *)
(* keyboard controller and the mouse driver with their timed events, the   *)
(* interrupt controller, the BIOS's handlers of IRQ 1 and IRQ 12 step by   *)
(* step, and a guest program that reads keys, drives the ports itself,     *)
(* masks and disables interrupts and calls the mouse driver.  The time of  *)
(* an event is left open: it may be served at any later moment.            *)
(***************************************************************************)
EXTENDS Pic, Keyboard, Mouse

CONSTANTS MaxInputs    \* bound: the host's keys and mouse events, and the guest's calls

\* The lines of the keyboard, the cascade and the mouse are in use, and the mouse's
\* handler begins with sti.
ASSUME LinesAssumption == {1, Cascade, 12} \subseteq IRQ /\ 12 \in Nesting
ASSUME InputsAssumption == MaxInputs \in Nat

VARIABLES
    keyb, bios, mouse,   \* the devices and the BIOS's data
    saved,     \* a driver state the guest saved with INT 33 function 16
    loaded,    \* history: it has loaded one
    forgot,    \* history: the guest's running subroutine has reset the driver
    steps,     \* for every handler on the stack, where it is: [pc, code]
    held,      \* keys the host holds down
    inputs,    \* how many of the inputs MaxInputs bounds there have been
    sent,      \* history: codes the host's keys have made
    handled,   \* history: the last of them the BIOS has decoded
    disturbed, \* history: a code was dropped or cleared, or port 60 polled or used by d0
    clicks     \* history: the last button event made, the last handled, and were any disturbed

inputVars == <<held, inputs, sent, clicks, forgot>>
vars == <<picVars, keyb, bios, mouse, saved, loaded, steps, inputVars, handled, disturbed>>

Init ==
    /\ PicInit
    /\ keyb = InitKeyb /\ bios = InitBios
    /\ mouse = InitMouse /\ saved = InitMouse /\ loaded = FALSE /\ forgot = FALSE
    /\ steps = <<>> /\ held = {} /\ inputs = 0
    /\ sent = 0 /\ handled = 0 /\ disturbed = FALSE
    /\ clicks = [made |-> "released", taken |-> "released", gone |-> FALSE]

InHandler == handlers # <<>>
At(pc) == InHandler /\ steps[Len(steps)].pc = pc
Goto(pc) == steps' = [steps EXCEPT ![Len(steps)].pc = pc]

Input == inputs < MaxInputs /\ inputs' = inputs + 1

-----------------------------------------------------------------------------
(* The host.  GFX_Events runs between two slices of the guest. *)

HostKey(key, down) ==
    LET codes == CodesOf(key, down, sent, "shift" \in held)
    IN /\ keyb' = AddKey(keyb, key, down, codes)
       /\ sent' = sent + Len(codes)
       /\ disturbed' = (disturbed \/ Len(keyb.buffer) + Len(codes) > KeyBufSize)
       /\ Input
       /\ UNCHANGED <<picVars, bios, mouse, saved, loaded, steps, handled, clicks, forgot>>

Press(key) ==
    /\ key \notin held /\ held' = held \cup {key}
    /\ HostKey(key, TRUE)

Release(key) ==
    /\ key \in held /\ held' = held \ {key}
    /\ HostKey(key, FALSE)

\* KEYBOARD_TickHandler, when the wait is over.
Repeat ==
    /\ keyb.repeat # NoKey
    /\ HostKey(keyb.repeat, TRUE)
    /\ UNCHANGED held

ButtonGone(type) == type # Moved /\ Len(mouse.queue) = QueueSize

HostMouse(type) ==
    /\ Input
    /\ type # Moved => type # clicks.made
    /\ mouse' = AddEvent(mouse, type)
    /\ pic' = IF AddEventActivates(mouse, type) THEN ActivateIRQ(pic, 12) ELSE pic
    /\ clicks' = [clicks EXCEPT !.made = IF type = Moved THEN @ ELSE type,
                                !.gone = @ \/ ButtonGone(type)]
    /\ UNCHANGED <<enabled, handlers, plain, keyb, bios, saved, loaded, steps, held, sent,
                   handled, disturbed, forgot>>

-----------------------------------------------------------------------------
(* Events of the PIC's queue. *)

Transfer ==
    /\ keyb.transfers > 0
    /\ keyb' = TransferBuffer(keyb)
    /\ pic' = IF keyb.buffer = <<>> THEN pic ELSE ActivateIRQ(pic, 1)
    /\ UNCHANGED <<enabled, handlers, plain, bios, mouse, saved, loaded, steps, inputVars, handled,
                   disturbed>>

Limit ==
    /\ mouse.limits > 0
    /\ mouse' = LimitEvents(mouse)
    /\ pic' = IF mouse.queue = <<>> THEN pic ELSE ActivateIRQ(pic, 12)
    /\ UNCHANGED <<enabled, handlers, plain, keyb, bios, saved, loaded, steps, inputVars,
                   handled, disturbed>>

-----------------------------------------------------------------------------
(* The handlers. *)

\* CPU_HW_Interrupt enters the BIOS's handler of the line.
Enter ==
    /\ Interrupt
    /\ LET i == First(Startable(pic))
       IN steps' = Append(steps, [pc |-> IF i = 1 THEN "in60" ELSE "sti", code |-> Ack])
    /\ UNCHANGED <<keyb, bios, mouse, saved, loaded, inputVars, handled, disturbed>>

\* CB_IRQ1: in al, 60h.
In60 ==
    /\ At("in60")
    /\ keyb' = ReadP60(keyb)
    /\ steps' = [steps EXCEPT ![Len(steps)] = [pc |-> "decode", code |-> keyb.port60]]
    /\ UNCHANGED <<picVars, bios, mouse, saved, loaded, inputVars, handled, disturbed>>

\* The callback.  Pause ends the interrupt here and then idles with interrupts enabled.
Decode ==
    /\ At("decode")
    /\ LET code  == steps[Len(steps)].code
           pause == BeginsPause(bios, code)
       IN /\ bios' = IRQ1Handler(bios, code)
          /\ handled' = IF code.tag = 0 THEN handled ELSE code.tag
          /\ Goto(IF pause THEN "idle" ELSE "eoi")
          /\ IF pause THEN WriteEOI ELSE UNCHANGED picVars
    /\ UNCHANGED <<keyb, mouse, saved, loaded, inputVars, disturbed>>

Idle ==
    /\ At("idle") /\ ~enabled /\ bios.paused
    /\ SetFlag
    /\ UNCHANGED <<keyb, bios, mouse, saved, loaded, steps, inputVars, handled, disturbed>>

\* CALLBACK_Idle returns, restores the flag and finds the pause over.
Resume ==
    /\ At("idle") /\ ~bios.paused
    /\ Goto("iret")
    /\ DisableInterrupts
    /\ UNCHANGED <<keyb, bios, mouse, saved, loaded, inputVars, handled, disturbed>>

\* CB_IRQ12: sti, before the callback.
Sti ==
    /\ At("sti")
    /\ SetFlag /\ Goto("int74")
    /\ UNCHANGED <<keyb, bios, mouse, saved, loaded, inputVars, handled, disturbed>>

Int74EndsFirst ==
    /\ At("int74")
    /\ mouse' = Take(mouse)
    /\ Goto(IF CallsUser(mouse) THEN "user" ELSE "ret")
    /\ clicks' = IF mouse.queue = <<>> \/ Head(mouse.queue) = Moved THEN clicks
                 ELSE [clicks EXCEPT !.taken = Head(mouse.queue)]
    /\ WriteEOI
    /\ UNCHANGED <<keyb, bios, saved, loaded, held, inputs, sent, handled, disturbed, forgot>>

Int74 ==
    /\ At("int74")
    /\ mouse' = Take(mouse)
    /\ Goto(IF CallsUser(mouse) THEN "user" ELSE "ret")
    /\ clicks' = IF mouse.queue = <<>> \/ Head(mouse.queue) = Moved THEN clicks
                 ELSE [clicks EXCEPT !.taken = Head(mouse.queue)]
    /\ UNCHANGED <<picVars, keyb, bios, saved, loaded, held, inputs, sent, handled, disturbed,
                   forgot>>

\* The guest's subroutine returns to CB_IRQ12_RET.
UserReturns ==
    /\ At("user") /\ Goto("ret")
    /\ forgot' = FALSE
    /\ UNCHANGED <<picVars, keyb, bios, mouse, saved, loaded, held, inputs, sent, clicks, handled,
                   disturbed>>

\* CB_IRQ12_RET: the callback and cli.
Ret ==
    /\ At("ret") /\ Goto("eoi")
    /\ mouse' = UserIntReturned(mouse)
    /\ DisableInterrupts
    /\ UNCHANGED <<keyb, bios, saved, loaded, inputVars, handled, disturbed>>

EoiForgotten ==
    /\ At("eoi") /\ Goto("iret")
    /\ UNCHANGED <<picVars, keyb, bios, mouse, saved, loaded, inputVars, handled, disturbed>>

Eoi ==
    /\ At("eoi") /\ Goto("iret")
    /\ WriteEOI
    /\ UNCHANGED <<keyb, bios, mouse, saved, loaded, inputVars, handled, disturbed>>

Iret ==
    /\ At("iret")
    /\ PopFrame
    /\ steps' = SubSeq(steps, 1, Len(steps) - 1)
    /\ UNCHANGED <<keyb, bios, mouse, saved, loaded, inputVars, handled, disturbed>>

-----------------------------------------------------------------------------
(* The guest: its main program, and its mouse subroutine.                   *)

Guest == InHandler => At("user")

\* INT 16 function 0, which enables interrupts and waits for a keystroke.
GetKey ==
    /\ Guest /\ bios.ring # <<>>
    /\ bios' = [bios EXCEPT !.ring = Tail(@)]
    /\ SetFlag
    /\ UNCHANGED <<keyb, mouse, saved, loaded, steps, inputVars, handled, disturbed>>

Buffered == \E i \in 1 .. Len(keyb.buffer) : keyb.buffer[i].tag # 0

Ports(k, gone) ==
    /\ Guest /\ Input
    /\ keyb' = k /\ disturbed' = (disturbed \/ gone)
    /\ UNCHANGED <<enabled, handlers, plain, bios, mouse, saved, loaded, steps, held, sent, clicks,
                   forgot, handled>>

\* Reading port 60 outside the handler leaves the interrupt of what was read behind.
Poll60 == Ports(ReadP60(keyb), keyb.changed) /\ UNCHANGED pic
Send60(byte) == Ports(WriteP60(keyb, byte), keyb.command # "outport" /\ Buffered) /\ UNCHANGED pic

Send64(command) ==
    /\ Ports(WriteP64(keyb, command), command = "d0")
    /\ pic' = IF command = "d0" THEN ActivateIRQ(pic, 1) ELSE pic

Flags ==
    /\ Guest
    /\ \/ SetFlag \/ DisableInterrupts
       \/ \E c \in Chips : \E m \in SUBSET Lines(c) : Mask(c, m)
    /\ UNCHANGED <<keyb, bios, mouse, saved, loaded, steps, inputVars, handled, disturbed>>

\* A call of the mouse driver; those that empty its queue lose the buttons in it.
Driver(m, gone) ==
    /\ Guest /\ Input
    /\ mouse' = m
    /\ clicks' = [clicks EXCEPT !.gone = @ \/ gone]
    /\ UNCHANGED <<enabled, handlers, plain, keyb, bios, steps, held, sent, handled, disturbed>>

WaitingClicks == \E i \in 1 .. Len(mouse.queue) : mouse.queue[i] # Moved

\* Function 0, which also lifts the mask of the line, or function 21h.
ResetDriver ==
    /\ \E known \in BOOLEAN : Driver(Reset(mouse, known), known /\ WaitingClicks)
    /\ pic' = SetIRQMask(pic, 12, FALSE) \/ pic' = pic
    /\ forgot' = (forgot \/ InHandler)
    /\ UNCHANGED <<saved, loaded>>

SetVideoMode ==
    /\ \E known \in BOOLEAN : Driver(NewVideoMode(mouse, known), known /\ WaitingClicks)
    /\ UNCHANGED <<pic, saved, loaded, forgot>>

SetSubroutine ==
    /\ \E types \in {{}, {Moved, "pressed"}} : Driver(DefineSubroutine(mouse, types), FALSE)
    /\ UNCHANGED <<pic, saved, loaded, forgot>>

SaveDriver ==
    /\ Driver(mouse, FALSE)
    /\ saved' = mouse
    /\ UNCHANGED <<pic, loaded, forgot>>

LoadDriver ==
    /\ Driver(LoadState(mouse, saved), TRUE)
    /\ loaded' = TRUE
    /\ UNCHANGED <<pic, saved, forgot>>

-----------------------------------------------------------------------------
Next ==
    \/ \E key \in Keys : Press(key) \/ Release(key)
    \/ Repeat
    \/ \E type \in EventTypes : HostMouse(type)
    \/ Transfer \/ Limit
    \/ Enter \/ In60 \/ Decode \/ Idle \/ Resume
    \/ Sti \/ Int74 \/ UserReturns \/ Ret \/ Eoi \/ Iret
    \/ GetKey \/ Poll60 \/ Flags
    \/ \E byte \in {"leds", "rate", "data"} : Send60(byte)
    \/ \E command \in {"ae", "d0", "d1"} : Send64(command)
    \/ ResetDriver \/ SetVideoMode \/ SetSubroutine
    \/ SaveDriver \/ LoadDriver

Spec == Init /\ [][Next]_vars

-----------------------------------------------------------------------------
Pcs == {"in60", "decode", "idle", "sti", "int74", "user", "ret", "eoi", "iret"}

StepRecords == [pc : Pcs, code : CodeRecords]

\* Every handler on the guest's stack has its step; the devices' parts have their types.
TypeOK ==
    /\ PicTypeOK
    /\ keyb \in Boards /\ sent \in Nat
    /\ mouse \in Drivers /\ saved \in Drivers
    /\ steps \in Seq(StepRecords) /\ Len(steps) = Len(handlers)

\* The host's codes on their way: read by the innermost handler, on port 60, buffered.
InFlight ==
    (IF At("decode") THEN <<steps[Len(steps)].code>> ELSE <<>>)
      \o (IF keyb.changed THEN <<keyb.port60>> ELSE <<>>) \o keyb.buffer
Theirs == {i \in 1 .. Len(InFlight) : InFlight[i].tag # 0}

\* Until a code is dropped for want of room or cleared by a command, or a program reads
\* port 60 itself, or has command d0 put a byte there, the BIOS decodes every code of the
\* host once and in order, whatever is masked, disabled or interrupted meanwhile.
ExactlyOnce ==
    ~disturbed => /\ {InFlight[i].tag : i \in Theirs} = handled + 1 .. sent
                  /\ \A i, j \in Theirs : i < j => InFlight[i].tag < InFlight[j].tag

\* Until then a keystroke in the ring is a key that was pressed, with the shift state
\* the host had when it was: a prefix or a modifier is never taken apart from its key.
RightStrokes ==
    ~disturbed => \A i \in 1 .. Len(bios.ring) :
               bios.ring[i].key \in Keys /\ bios.ring[i].shift = bios.ring[i].was

\* The keyboard never stands still with a code in it: what is buffered is waited for
\* by exactly one event or by the reader of port 60, and what is on port 60 by IRQ 1.
KeyboardMoves ==
    /\ keyb.transfers = IF keyb.scheduled THEN 1 ELSE 0
    /\ keyb.buffer # <<>> => keyb.scheduled \/ keyb.changed
    /\ keyb.changed => 1 \in pic.active \/ \E i \in 1 .. Len(steps) : steps[i].pc = "in60"

\* The mouse's timer runs exactly while its flag says so, and while an event waits;
\* loading a saved driver state is what can break that (the queue is not saved).
MouseMoves ==
    ~loaded => /\ mouse.limits = IF mouse.timer THEN 1 ELSE 0
               /\ mouse.queue # <<>> => mouse.timer

\* The button events that wait, by their places in the queue, after the last one taken.
Buttons == {0} \cup {i \in 1 .. Len(mouse.queue) : mouse.queue[i] # Moved}
ButtonAt(i) == IF i = 0 THEN clicks.taken ELSE mouse.queue[i]

\* Buttons reach the guest in order: until one is dropped or the queue is emptied, the
\* last event taken and those waiting alternate and end with what the host did last.
ClicksPaired ==
    ~clicks.gone =>
      /\ \E i \in Buttons : ButtonAt(i) = clicks.made /\ \A j \in Buttons : j <= i
      /\ \A i, j \in Buttons :
           i < j /\ ButtonAt(i) = ButtonAt(j) => \E k \in Buttons : i < k /\ k < j

Running(pcs) == {i \in 1 .. Len(steps) : steps[i].pc \in pcs}

\* The guest's subroutine is not entered while it runs (mouse.cpp logs "Already in
\* UIR!"), and the driver's flag, by which the code would notice, is set while it runs,
\* unless it has reset the driver itself, and never when it neither runs nor is about to
\* be left; a driver state the guest has loaded brings the flag of another moment.
OneSubroutine ==
    /\ Cardinality(Running({"user"})) <= 1
    /\ ~loaded => /\ Running({"user"}) # {} /\ ~forgot => mouse.inUIR
                  /\ mouse.inUIR => Running({"user", "ret"}) # {}
=============================================================================
