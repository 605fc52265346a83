-------------------------------- MODULE Pic ---------------------------------
(***************************************************************************)
(* DOSBox's interrupt controller (hardware/pic.cpp): the two 8259s as one  *)
(* record with sets of lines, the operators that devices, the guest and    *)
(* the processor apply to it, and a specification in which any device may  *)
(* raise any line and handlers nest on the guest's stack.  The port I/O of *)
(* a value that ends the emulator (E_Exit) is not followed.                *)
(***************************************************************************)
EXTENDS Naturals, Sequences, FiniteSets

CONSTANTS IRQ,      \* the lines that devices use
          Nesting,  \* the lines whose handlers enable interrupts before their EOI
          MaxNest   \* bound: frames on the guest's stack

ASSUME IrqAssumption == IRQ \subseteq 0 .. 15
ASSUME NestAssumption == Nesting \subseteq IRQ /\ MaxNest \in Nat

\* No handler of lines 3 to 7 lets others in before its EOI.
NestsAboveCascade == Nesting \cap (3 .. 7) = {}

Chips == {0, 1}
Chip(i) == i \div 8
Lines(c) == {i \in IRQ : Chip(i) = c}
Cascade == 2
NoIRQ == 255

\* The place of a line in IRQ_priority_order: 0, 1, 2, 8 .. 15, 3 .. 7.
Rank(i) == IF i < 3 THEN i ELSE IF i > 7 THEN i - 5 ELSE i + 8
Lowest == 16
RankOf(i) == IF i = NoIRQ THEN Lowest ELSE Rank(i)
First(S) == CHOOSE i \in S : \A j \in S : Rank(i) <= Rank(j)
FirstOrNone(S) == IF S = {} THEN NoIRQ ELSE First(S)

\* What the flags masked and active ask the processor to look at.
Open(p, i) == i \notin p.masked /\ (i > 7 => Cascade \notin p.masked)
Deliverable(p) == {i \in p.active : Open(p, i)}

InitPic ==
    [masked |-> IRQ \ {0, 1, 2, 8}, active |-> {}, inservice |-> {}, check |-> {},
     current |-> NoIRQ, special |-> {}, specialMode |-> FALSE, autoEoi |-> {},
     words |-> [c \in Chips |-> <<>>]]

ActivateIRQ(p, i) ==
    [p EXCEPT !.active = @ \cup {i}, !.check = IF Open(p, i) THEN @ \cup {i} ELSE @]

DeActivateIRQ(p, i) == [p EXCEPT !.active = @ \ {i}, !.check = @ \ {i}]

RecheckedWritten(p, q, lines) == [q EXCEPT !.check = (@ \ lines) \cup (Deliverable(q) \cap lines)]

\* The recheck after a change of masks: of the written lines, and of the second chip
\* when the mask of the cascade is another.
Rechecked(p, q, lines) ==
    LET again == lines \cup (IF (Cascade \in p.masked) # (Cascade \in q.masked) THEN Lines(1) ELSE {})
    IN [q EXCEPT !.check = (@ \ again) \cup (Deliverable(q) \cap again)]

SetIRQMask(p, i, masked) ==
    IF masked = (i \in p.masked) THEN p
    ELSE Rechecked(p, [p EXCEPT !.masked = IF masked THEN @ \cup {i} ELSE @ \ {i}], {i})

WriteMask(p, c, m) == Rechecked(p, [p EXCEPT !.masked = (@ \ Lines(c)) \cup m], Lines(c))

\* ICW1 opens the initialisation of a chip: the data bytes after it are ICW2, then
\* ICW3 unless the chip is single, then ICW4 if asked for.  In single mode the code
\* goes from ICW2 to ICW4 whether or not ICW1 asked for it.
WriteICW1(p, c, single, icw4) ==
    [p EXCEPT !.words[c] = <<2>> \o (IF single THEN <<>> ELSE <<3>>)
                                \o (IF icw4 \/ single THEN <<4>> ELSE <<>>)]

WriteICW(p, c, auto) ==
    [p EXCEPT !.words[c] = Tail(@),
              !.autoEoi = IF Head(p.words[c]) # 4 THEN @
                          ELSE IF auto THEN @ \cup {c} ELSE @ \ {c}]

\* PIC_Special_Mode looks at the chip written and at the second one only.
SpecialMask(p, c, on) ==
    LET s == IF on THEN p.special \cup {c} ELSE p.special \ {c}
    IN [p EXCEPT !.special = s, !.specialMode = c \in s \/ 1 \in s]

EndCurrent(p) ==
    LET left == p.inservice \ {p.current}
    IN [p EXCEPT !.inservice = left, !.current = FirstOrNone(left)]

NonspecificEOI(p, c) == IF p.current < 8 * c + 8 THEN EndCurrent(p) ELSE p
SpecificEOI(p, i) == IF p.current = i THEN EndCurrent(p) ELSE p

HandlerEOIFirstChip(p, i) == NonspecificEOI(p, 0)

\* What a handler of line i writes before it returns: the EOI of its chip or chips.
HandlerEOI(p, i) ==
    IF Chip(i) = 0 THEN NonspecificEOI(p, 0) ELSE NonspecificEOI(NonspecificEOI(p, 1), 0)

\* The lines PIC_runIRQs accepts, of which it starts the first; none while nothing
\* asks for a check.
Startable(p) ==
    {i \in Deliverable(p) : /\ p.check # {}
                            /\ \/ Rank(i) < RankOf(p.current)
                               \/ p.specialMode /\ Chip(i) \in p.special}

StartIRQ(p, i) ==
    LET q == [p EXCEPT !.active = @ \ {i}, !.check = @ \ {i}]
    IN IF Chip(i) \in p.autoEoi THEN q
       ELSE [q EXCEPT !.current = i, !.inservice = @ \cup {i}]

-----------------------------------------------------------------------------
VARIABLES
    pic,        \* the controller
    enabled,    \* the processor's interrupt flag
    handlers,   \* the handlers on the stack, the innermost last: [irq, ended]
    plain       \* history: no special mask mode and no automatic EOI so far

picVars == <<pic, enabled, handlers, plain>>

PicInit ==
    /\ pic = InitPic /\ enabled = TRUE /\ handlers = <<>> /\ plain = TRUE

Top == handlers[Len(handlers)]
Outer == SubSeq(handlers, 1, Len(handlers) - 1)

Raise(i) ==
    /\ pic' = ActivateIRQ(pic, i)
    /\ UNCHANGED <<enabled, handlers, plain>>

Lower(i) ==
    /\ pic' = DeActivateIRQ(pic, i)
    /\ UNCHANGED <<enabled, handlers, plain>>

\* The guest writes a mask register of a chip that is not being initialised.
Mask(c, m) ==
    /\ pic.words[c] = <<>>
    /\ pic' = WriteMask(pic, c, m)
    /\ UNCHANGED <<enabled, handlers, plain>>

\* The BIOS and the mouse driver mask single lines.
DeviceMask(i, masked) ==
    /\ pic' = SetIRQMask(pic, i, masked)
    /\ UNCHANGED <<enabled, handlers, plain>>

Initialise(c, single, icw4) ==
    /\ pic' = WriteICW1(pic, c, single, icw4)
    /\ UNCHANGED <<enabled, handlers, plain>>

InitialiseWord(c, auto) ==
    /\ pic.words[c] # <<>>
    /\ pic' = WriteICW(pic, c, auto)
    /\ plain' = (plain /\ pic'.autoEoi = {})
    /\ UNCHANGED <<enabled, handlers>>

SetSpecial(c, on) ==
    /\ pic' = SpecialMask(pic, c, on)
    /\ plain' = (plain /\ ~on)
    /\ UNCHANGED <<enabled, handlers>>

\* PIC_runIRQs: the processor takes the first line and clears its interrupt flag.
Interrupt ==
    /\ enabled /\ Len(handlers) < MaxNest
    /\ Startable(pic) # {}
    /\ LET i == First(Startable(pic))
       IN /\ pic' = StartIRQ(pic, i)
          /\ handlers' = Append(handlers, [irq |-> i, ended |-> FALSE])
    /\ enabled' = FALSE
    /\ UNCHANGED plain

\* What sti, a write of the EOI and iret do, whoever executes them and when.
SetFlag ==
    /\ enabled' = TRUE
    /\ UNCHANGED <<pic, handlers, plain>>

WriteEOI ==
    /\ pic' = HandlerEOI(pic, Top.irq)
    /\ handlers' = [handlers EXCEPT ![Len(handlers)].ended = TRUE]
    /\ UNCHANGED <<enabled, plain>>

\* The flags that iret restores had interrupts enabled.
PopFrame ==
    /\ handlers' = Outer /\ enabled' = TRUE
    /\ UNCHANGED <<pic, plain>>

\* When they may be executed.  sti: by the main program, a handler that lets others in,
\* or one that has ended.
EnableInterrupts ==
    /\ handlers # <<>> => Top.irq \in Nesting \/ Top.ended
    /\ SetFlag

DisableInterrupts ==
    /\ enabled' = FALSE
    /\ UNCHANGED <<pic, handlers, plain>>

\* The innermost handler writes its EOI once, before its iret or in the middle.
EndOfInterrupt ==
    /\ handlers # <<>> /\ ~Top.ended
    /\ WriteEOI

\* iret: of a handler that has ended.
Return ==
    /\ handlers # <<>> /\ Top.ended
    /\ PopFrame

PicNext ==
    \/ \E i \in IRQ \ {Cascade} : Raise(i) \/ Lower(i)
    \/ \E i \in IRQ, b \in BOOLEAN : DeviceMask(i, b)
    \/ \E c \in Chips, b \in BOOLEAN :
         \/ \E m \in SUBSET Lines(c) : Mask(c, m)
         \/ \E icw4 \in BOOLEAN : Initialise(c, b, icw4)
         \/ InitialiseWord(c, b)
         \/ SetSpecial(c, b)
    \/ Interrupt \/ EnableInterrupts \/ DisableInterrupts \/ EndOfInterrupt \/ Return

PicSpec == PicInit /\ [][PicNext]_picVars

-----------------------------------------------------------------------------
Controllers ==
    [masked : SUBSET IRQ, active : SUBSET IRQ, inservice : SUBSET IRQ, check : SUBSET IRQ,
     current : IRQ \cup {NoIRQ}, special : SUBSET Chips, specialMode : BOOLEAN,
     autoEoi : SUBSET Chips, words : [Chips -> Seq({2, 3, 4})]]

StackFrames == [irq : IRQ, ended : BOOLEAN]

\* Every part has its type; a line in service or awaiting service is one in use.
PicTypeOK ==
    /\ pic \in Controllers
    /\ enabled \in BOOLEAN /\ plain \in BOOLEAN
    /\ handlers \in Seq(StackFrames)

\* PIC_IRQCheck, which six places update bit by bit, is exactly what the flags of the
\* lines and the mask of the cascade imply: no request is forgotten behind a mask that
\* was lifted, and none is looked for that cannot be served.
CheckCoherent == pic.check = Deliverable(pic)

Unended(i) == {k \in 1 .. Len(handlers) : handlers[k].irq = i /\ ~handlers[k].ended}

\* While no special mode is used, and no handler of lines 3 to 7 lets others in before
\* its EOI, the controller's idea of what is being served is that of the guest's stack:
\* a line is in service while, and only while, one handler of it waits for its EOI, and
\* PIC_IRQActive is that of the innermost.
ServiceIsStack ==
    plain =>
      /\ \A i \in IRQ : Cardinality(Unended(i)) = IF i \in pic.inservice THEN 1 ELSE 0
      /\ \A j, k \in 1 .. Len(handlers) :
           j < k /\ ~handlers[j].ended /\ ~handlers[k].ended =>
             Rank(handlers[k].irq) < Rank(handlers[j].irq)
      /\ pic.current = FirstOrNone(pic.inservice)
=============================================================================
