------------------------------ MODULE Keyboard ------------------------------
(***************************************************************************)
(* The emulated keyboard controller (hardware/keyboard.cpp) as a record    *)
(* and the operators that the host, the event queue and the guest's ports  *)
(* apply to it.  A code is [key, down, tag, was]: what a byte on port 60   *)
(* says, which of the host's codes it is (0 for the controller's own) and  *)
(* whether the host then held a shift key.  The raising of IRQ 1 is in the *)
(* actions of Machine that use these operators.                            *)
(***************************************************************************)
EXTENDS Naturals, Sequences

CONSTANTS KeyBufSize     \* KEYBUFSIZE: codes the keyboard's buffer holds

ASSUME KeyBufAssumption == KeyBufSize \in Nat \ {0}

\* One key of each kind the BIOS tells apart: a plain one, a modifier, one with the
\* prefix e0 that shares its code with a key of the numeric pad, and Pause, which
\* sends the prefix e1 and the codes of Ctrl and Num Lock.
Keys == {"a", "shift", "up", "pause"}
NoKey == "none"

Code(key, down, tag, was) == [key |-> key, down |-> down, tag |-> tag, was |-> was]
Ack == Code("ack", FALSE, 0, FALSE)
Outport == Code("outport", TRUE, 0, FALSE)

\* Codes that KEYBOARD_AddKey puts into the buffer.
CodesOf(key, down, tag, was) ==
    CASE key = "up"    -> <<Code("e0", FALSE, tag + 1, was), Code("up", down, tag + 2, was)>>
      [] key = "pause" -> <<Code("e1", FALSE, tag + 1, was), Code("ctrl", down, tag + 2, was),
                            Code("num", down, tag + 3, was)>>
      [] OTHER         -> <<Code(key, down, tag + 1, was)>>

KeyNames == Keys \cup {NoKey, "ack", "outport", "e0", "e1", "ctrl", "num"}
Commands == {"none", "leds", "rate", "data", "outport"}
CodeRecords == [key : KeyNames, down : BOOLEAN, tag : Nat, was : BOOLEAN]
Boards == [buffer : Seq(CodeRecords), command : Commands, port60 : CodeRecords, changed : BOOLEAN,
           scheduled : BOOLEAN, transfers : Nat, repeat : Keys \cup {NoKey}]

\* used and pos are the length and the start of buffer; transfers counts the entries
\* of KEYBOARD_TransferBuffer in the PIC's event queue.
InitKeyb ==
    [buffer |-> <<>>, command |-> "none", port60 |-> Ack, changed |-> FALSE,
     scheduled |-> FALSE, transfers |-> 0, repeat |-> NoKey]

Schedule(k) == [k EXCEPT !.scheduled = TRUE, !.transfers = @ + 1]

ClrBuffer(k) == [k EXCEPT !.buffer = <<>>, !.scheduled = FALSE, !.transfers = 0]

SetPort60(k, code) == [k EXCEPT !.changed = TRUE, !.port60 = code]

AddBuffer(k, code) ==
    IF Len(k.buffer) >= KeyBufSize THEN k
    ELSE LET b == [k EXCEPT !.buffer = Append(@, code)]
         IN IF ~k.scheduled /\ ~k.changed THEN Schedule(b) ELSE b

AddAll(k, codes) ==
    LET first == AddBuffer(k, codes[1])
    IN IF Len(codes) = 1 THEN first
       ELSE LET second == AddBuffer(first, codes[2])
            IN IF Len(codes) = 2 THEN second ELSE AddBuffer(second, codes[3])

\* Pause leaves the typematic repeat as it is; any other release ends it, also that of
\* another key.
AddKey(k, key, down, codes) ==
    AddAll(IF key = "pause" THEN k ELSE [k EXCEPT !.repeat = IF down THEN key ELSE NoKey], codes)

TransferBufferKeeps(k) ==
    LET t == [k EXCEPT !.scheduled = FALSE, !.transfers = @ - 1]
    IN IF k.buffer = <<>> THEN t ELSE SetPort60(t, Head(k.buffer))

\* The event of KEYBOARD_AddBuffer is due.
TransferBuffer(k) ==
    LET t == [k EXCEPT !.scheduled = FALSE, !.transfers = @ - 1]
    IN IF k.buffer = <<>> THEN t
       ELSE [SetPort60(t, Head(k.buffer)) EXCEPT !.buffer = Tail(@)]

ReadP60NoNext(k) == [k EXCEPT !.changed = FALSE]

ReadP60(k) ==
    LET r == [k EXCEPT !.changed = FALSE]
    IN IF ~k.scheduled /\ k.buffer # <<>> THEN Schedule(r) ELSE r

\* A byte sent to port 60 is the data of the command before it, or a command; a command
\* with data ("leds", "rate") waits for it, any other is just acknowledged.
WriteP60(k, byte) ==
    CASE k.command = "none"    ->
           AddBuffer([ClrBuffer(k) EXCEPT !.command = IF byte \in {"leds", "rate"} THEN byte
                                                      ELSE @], Ack)
      [] k.command = "outport" -> [k EXCEPT !.command = "none"]
      [] OTHER                 -> AddBuffer([ClrBuffer(k) EXCEPT !.command = "none"], Ack)

\* Commands to port 64: ae activates the keyboard, d0 puts the output port on port 60,
\* d1 makes the next byte to port 60 the output port's.
WriteP64(k, command) ==
    CASE command = "ae" -> IF k.buffer # <<>> /\ ~k.scheduled /\ ~k.changed THEN Schedule(k) ELSE k
      [] command = "d0" -> SetPort60(k, Outport)
      [] command = "d1" -> [k EXCEPT !.command = "outport"]

-----------------------------------------------------------------------------
(* The BIOS behind IRQ 1 (ints/bios_keyboard.cpp): its flags and its ring.  *)

CONSTANTS RingSize   \* keystrokes the BIOS's ring holds

InitBios ==
    [ring |-> <<>>, shift |-> FALSE, ctrl |-> FALSE, e0 |-> FALSE, e1 |-> FALSE, paused |-> FALSE]

\* BIOS_AddKeyToBuffer: while paused, and when the ring is full, the keystroke is gone.
AddKeyToRing(b, stroke) ==
    IF b.paused \/ Len(b.ring) >= RingSize THEN b ELSE [b EXCEPT !.ring = Append(@, stroke)]

StrokePrefixInverted(b, code) ==
    [key |-> IF code.key = "up" /\ b.e0 THEN "kp8" ELSE code.key, shift |-> b.shift,
     was |-> code.was]

\* What a pressed key gives with the flags as they are; without its prefix the code of
\* an arrow is that of the numeric pad, and the output port's byte that of a digit.
Stroke(b, code) ==
    [key |-> IF code.key = "up" /\ ~b.e0 THEN "kp8" ELSE code.key, shift |-> b.shift,
     was |-> code.was]

\* Does the code end the pause sequence, so that the handler enters the pause loop?
BeginsPause(b, code) ==
    code.key = "num" /\ code.down /\ b.e1 /\ ~b.paused /\ ~b.ctrl

\* IRQ1_Handler, its common end included: any code but e0 clears the prefix flag, and
\* any press ends a pause.
IRQ1Handler(b, code) ==
    LET effect ==
          CASE code.key = "e1" -> [b EXCEPT !.e1 = TRUE]
            [] code.key = "e0" -> [b EXCEPT !.e0 = TRUE]
            [] code.key = "shift" -> [b EXCEPT !.shift = code.down]
            [] code.key = "ctrl" /\ ~b.e1 -> [b EXCEPT !.ctrl = code.down]
            [] code.key = "num" /\ b.e1 -> [b EXCEPT !.e1 = FALSE]
            [] code.key \in {"a", "up", "outport"} /\ code.down -> AddKeyToRing(b, Stroke(b, code))
            [] OTHER -> b
    IN IF BeginsPause(b, code) THEN [effect EXCEPT !.paused = TRUE]
       ELSE [effect EXCEPT !.e0 = (@ /\ code.key = "e0"), !.paused = (@ /\ ~code.down)]
=============================================================================
