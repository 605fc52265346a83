--------------------------- MODULE MachineProofs ----------------------------
(***************************************************************************)
(* Proofs about Pic, for every set of lines, every set of nesting handlers *)
(* and every depth of the stack: the types, that the processor's cache of  *)
(* deliverable requests is coherent, and that the lines in service are     *)
(* those of the handlers that have not sent their EOI.                     *)
(* Then about Machine, for every size of the buffers and every number of   *)
(* inputs: the machine uses the interrupt controller as Pic specifies,     *)
(* neither the keyboard nor the mouse ever waits for an event or an        *)
(* interrupt that is not on its way, the guest's subroutine runs once at a *)
(* time, and codes, keystrokes and buttons arrive once and in order.       *)
(***************************************************************************)
EXTENDS Machine, FiniteSetTheorems, SequenceTheorems, TLAPS

-----------------------------------------------------------------------------
(* The interrupt controller *)

\* The lines of both chips, by number.
LEMMA LinesOfChips ==
    /\ \A i \in IRQ : Chip(i) = IF i > 7 THEN 1 ELSE 0
    /\ \A c \in Chips : Lines(c) \subseteq IRQ
    /\ \A i \in IRQ : i > 7 <=> i \in Lines(1)
BY IrqAssumption DEF Chip, Lines, Chips

LEMMA RankTypes == \A i \in 0 .. 15 : Rank(i) \in 0 .. 15
BY DEF Rank

LEMMA RankBelow == \A i, j \in 0 .. 15 : Rank(i) < Rank(j) => Rank(i) <= Rank(j) /\ i # j
BY DEF Rank

LEMMA LessWellFounded == IsWellFoundedOn({p \in Nat \X Nat : p[1] < p[2]}, Nat)
BY NatLessThanWellFounded DEF OpToRel

\* Of several lines one comes first, and that is First's.
LEMMA FirstOfLines ==
    ASSUME NEW S, S \subseteq IRQ, S # {}
    PROVE  First(S) \in S /\ \A j \in S : Rank(First(S)) <= Rank(j)
<1> DEFINE less  == {p \in Nat \X Nat : p[1] < p[2]}
           ranks == {Rank(i) : i \in S}
<1>1. \A i \in S : Rank(i) \in Nat
    BY RankTypes, IrqAssumption
<1>2. ranks \subseteq Nat /\ ranks # {}
    BY <1>1
<1>3. IsWellFoundedOn(less, Nat)
    BY LessWellFounded
<1> HIDE DEF less
<1>4. PICK r \in ranks : \A q \in ranks : <<q, r>> \notin less
    BY <1>2, <1>3, WFMin
<1> USE DEF less
<1>5. PICK i \in S : Rank(i) = r
    BY <1>4
<1>6. \A j \in S : ~(Rank(j) < Rank(i))
    BY <1>1, <1>4, <1>5
<1>7. \A j \in S : Rank(i) <= Rank(j)
    BY <1>1, <1>6
<1> QED BY <1>7 DEF First

LEMMA FirstIs ==
    ASSUME NEW S, S \subseteq IRQ, NEW i \in S, \A j \in S : Rank(i) <= Rank(j)
    PROVE  First(S) = i
<1>1. First(S) \in S /\ Rank(First(S)) <= Rank(i)
    BY FirstOfLines
<1>2. Rank(i) <= Rank(First(S))
    BY <1>1
<1>3. i \in 0 .. 15 /\ First(S) \in 0 .. 15
    BY <1>1, IrqAssumption
<1> QED BY <1>1, <1>2, <1>3 DEF Rank

LEMMA FirstOrNoneTyped ==
    ASSUME NEW S, S \subseteq IRQ
    PROVE  FirstOrNone(S) \in IRQ \cup {NoIRQ}
BY FirstOfLines DEF FirstOrNone

-----------------------------------------------------------------------------
(* Types *)

LEMMA WordsTyped ==
    ASSUME NEW p \in Controllers, NEW c \in Chips, NEW w \in Seq({2, 3, 4})
    PROVE  [p EXCEPT !.words[c] = w] \in Controllers
BY DEF Controllers

LEMMA EndCurrentTyped ==
    ASSUME NEW p \in Controllers
    PROVE  EndCurrent(p) \in Controllers
<1>1. p.inservice \ {p.current} \subseteq IRQ
    BY DEF Controllers
<1>2. FirstOrNone(p.inservice \ {p.current}) \in IRQ \cup {NoIRQ}
    BY <1>1, FirstOrNoneTyped
<1> QED BY <1>1, <1>2 DEF EndCurrent, Controllers

LEMMA HandlerEOITyped ==
    ASSUME NEW p \in Controllers, NEW i
    PROVE  HandlerEOI(p, i) \in Controllers
<1>1. \A q \in Controllers, c \in Chips : NonspecificEOI(q, c) \in Controllers
    BY EndCurrentTyped DEF NonspecificEOI
<1> QED BY <1>1 DEF HandlerEOI, Chips

LEMMA RecheckedTyped ==
    ASSUME NEW p, NEW q \in Controllers, NEW lines
    PROVE  Rechecked(p, q, lines) \in Controllers
<1>1. Deliverable(q) \subseteq IRQ
    BY DEF Deliverable, Controllers
<1> QED BY <1>1 DEF Rechecked, Controllers

\* The stack keeps its type when a handler is entered, ends its interrupt and returns.
LEMMA EnteredTyped ==
    ASSUME NEW s \in Seq(StackFrames), NEW i \in IRQ
    PROVE  Append(s, [irq |-> i, ended |-> FALSE]) \in Seq(StackFrames)
<1>1. [irq |-> i, ended |-> FALSE] \in StackFrames
    BY DEF StackFrames
<1> QED BY <1>1

LEMMA EndedTyped ==
    ASSUME NEW s \in Seq(StackFrames), s # <<>>
    PROVE  [s EXCEPT ![Len(s)].ended = TRUE] \in Seq(StackFrames)
<1>1. s[Len(s)] \in StackFrames
    OBVIOUS
<1>2. [s[Len(s)] EXCEPT !.ended = TRUE] \in StackFrames
    BY <1>1 DEF StackFrames
<1> QED BY <1>2

LEMMA OuterTyped ==
    ASSUME NEW s \in Seq(StackFrames), s # <<>>
    PROVE  SubSeq(s, 1, Len(s) - 1) \in Seq(StackFrames)
OBVIOUS

LEMMA OuterElements ==
    ASSUME NEW s \in Seq(StackFrames), s # <<>>
    PROVE  LET o == SubSeq(s, 1, Len(s) - 1)
           IN Len(o) = Len(s) - 1 /\ \A k \in 1 .. Len(s) - 1 : o[k] = s[k]
<1>1. Len(s) \in Nat \ {0}
    OBVIOUS
<1>2. Len(SubSeq(s, 1, Len(s) - 1)) = Len(s) - 1
    BY <1>1, SubSeqProperties
<1>3. ASSUME NEW k \in 1 .. Len(s) - 1 PROVE SubSeq(s, 1, Len(s) - 1)[k] = s[k]
    BY <1>1
<1> QED BY <1>2, <1>3

LEMMA PicTypeInit == PicInit => PicTypeOK
<1> SUFFICES ASSUME PicInit PROVE PicTypeOK
    OBVIOUS
<1>1. [c \in Chips |-> <<>>] \in [Chips -> Seq({2, 3, 4})]
    OBVIOUS
<1>2. InitPic \in Controllers
    BY <1>1 DEF InitPic, Controllers
<1> QED BY <1>2 DEF PicInit, PicTypeOK

LEMMA PicTypeStep == PicTypeOK /\ [PicNext]_picVars => PicTypeOK'
<1> SUFFICES ASSUME PicTypeOK, [PicNext]_picVars PROVE PicTypeOK'
    OBVIOUS
<1> USE DEF PicTypeOK
<1>1. ASSUME NEW i \in IRQ, Raise(i) \/ Lower(i) PROVE PicTypeOK'
    <2>1. CASE Raise(i)
        <3>1. [pic EXCEPT !.active = @ \cup {i}] \in Controllers
            BY DEF Controllers
        <3>2. [pic EXCEPT !.active = @ \cup {i}, !.check = @ \cup {i}] \in Controllers
            BY DEF Controllers
        <3>3. pic' = [pic EXCEPT !.active = @ \cup {i}]
              \/ pic' = [pic EXCEPT !.active = @ \cup {i}, !.check = @ \cup {i}]
            BY <2>1 DEF Raise, ActivateIRQ, Controllers
        <3> QED BY <2>1, <3>1, <3>2, <3>3 DEF Raise
    <2>2. CASE Lower(i)
        <3>1. pic' \in Controllers
            BY <2>2 DEF Lower, DeActivateIRQ, Controllers
        <3> QED BY <2>2, <3>1 DEF Lower
    <2> QED BY <1>1, <2>1, <2>2
<1>2. ASSUME NEW i \in IRQ, NEW b \in BOOLEAN, DeviceMask(i, b) PROVE PicTypeOK'
    <2>1. [pic EXCEPT !.masked = IF b THEN @ \cup {i} ELSE @ \ {i}] \in Controllers
        BY <1>2 DEF Controllers
    <2> QED BY <1>2, <2>1, RecheckedTyped DEF DeviceMask, SetIRQMask
<1>3. ASSUME NEW c \in Chips, NEW m \in SUBSET Lines(c), Mask(c, m) PROVE PicTypeOK'
    <2>1. [pic EXCEPT !.masked = (@ \ Lines(c)) \cup m] \in Controllers
        BY <1>3, LinesOfChips DEF Controllers
    <2> QED BY <1>3, <2>1, RecheckedTyped DEF Mask, WriteMask
<1>4. ASSUME NEW c \in Chips, NEW b \in BOOLEAN, NEW icw4 \in BOOLEAN, Initialise(c, b, icw4)
      PROVE PicTypeOK'
    <2> DEFINE w == <<2>> \o (IF b THEN <<>> ELSE <<3>>) \o (IF icw4 \/ b THEN <<4>> ELSE <<>>)
    <2>1. w \in Seq({2, 3, 4})
        <3>1. <<2>> \in Seq({2, 3, 4}) /\ <<3>> \in Seq({2, 3, 4}) /\ <<4>> \in Seq({2, 3, 4})
            OBVIOUS
        <3>2. <<>> \in Seq({2, 3, 4})
            OBVIOUS
        <3>3. \A s, t \in Seq({2, 3, 4}) : s \o t \in Seq({2, 3, 4})
            OBVIOUS
        <3> QED BY <3>1, <3>2, <3>3
    <2>2. pic' = [pic EXCEPT !.words[c] = w]
        BY <1>4 DEF Initialise, WriteICW1
    <2> HIDE DEF w
    <2>3. pic' \in Controllers
        BY <2>1, <2>2, WordsTyped
    <2> QED BY <1>4, <2>3 DEF Initialise
<1>5. ASSUME NEW c \in Chips, NEW b \in BOOLEAN, InitialiseWord(c, b) PROVE PicTypeOK'
    <2>1. pic.words[c] \in Seq({2, 3, 4}) /\ pic.words[c] # <<>>
        BY <1>5 DEF InitialiseWord, Controllers
    <2>2. Tail(pic.words[c]) \in Seq({2, 3, 4})
        BY <2>1
    <2> DEFINE q == [pic EXCEPT !.words[c] = Tail(pic.words[c])]
               auto == IF Head(pic.words[c]) # 4 THEN pic.autoEoi
                       ELSE IF b THEN pic.autoEoi \cup {c} ELSE pic.autoEoi \ {c}
    <2>3. q \in Controllers
        BY <2>2, WordsTyped
    <2>4. auto \in SUBSET Chips
        BY DEF Controllers
    <2>5. pic' = [q EXCEPT !.autoEoi = auto]
        BY <1>5 DEF InitialiseWord, WriteICW, Controllers
    <2> HIDE DEF q, auto
    <2>6. pic' \in Controllers
        BY <2>3, <2>4, <2>5 DEF Controllers
    <2> QED BY <1>5, <2>6 DEF InitialiseWord
<1>6. ASSUME NEW c \in Chips, NEW b \in BOOLEAN, SetSpecial(c, b) PROVE PicTypeOK'
    BY <1>6 DEF SetSpecial, SpecialMask, Controllers
<1>7. CASE Interrupt
    <2> DEFINE i == First(Startable(pic))
    <2>1. Startable(pic) \subseteq IRQ /\ Startable(pic) # {}
        BY <1>7 DEF Interrupt, Startable, Deliverable, Controllers
    <2>2. i \in IRQ
        BY <2>1, FirstOfLines
    <2>3. pic' = StartIRQ(pic, i) /\ handlers' = Append(handlers, [irq |-> i, ended |-> FALSE])
        BY <1>7 DEF Interrupt
    <2> HIDE DEF i
    <2>4. pic' \in Controllers
        BY <2>2, <2>3 DEF StartIRQ, Controllers
    <2>5. handlers' \in Seq(StackFrames)
        BY <2>2, <2>3, EnteredTyped
    <2> QED BY <1>7, <2>4, <2>5 DEF Interrupt
<1>8. CASE EnableInterrupts \/ DisableInterrupts
    BY <1>8 DEF EnableInterrupts, SetFlag, DisableInterrupts
<1>9. CASE EndOfInterrupt
    <2>1. handlers' \in Seq(StackFrames)
        BY <1>9, EndedTyped DEF EndOfInterrupt, WriteEOI
    <2> QED BY <1>9, <2>1, HandlerEOITyped DEF EndOfInterrupt, WriteEOI
<1>10. CASE Return
    BY <1>10, OuterTyped DEF Return, PopFrame, Outer
<1>11. CASE UNCHANGED picVars
    BY <1>11 DEF picVars
<1> QED
    BY <1>1, <1>2, <1>3, <1>4, <1>5, <1>6, <1>7, <1>8, <1>9, <1>10, <1>11 DEF PicNext

\* Whatever lines devices raise and the guest writes, the controller's record keeps its
\* types: what is in service, awaited or current is a line in use.
THEOREM PicTypeCorrect == PicSpec => []PicTypeOK
<1> QED BY PicTypeInit, PicTypeStep, PTL DEF PicSpec

-----------------------------------------------------------------------------
(* The cache of deliverable requests *)

\* A recheck that covers every line whose mask changed makes the cache coherent again.
LEMMA RecheckedCoherent ==
    ASSUME NEW p \in Controllers, NEW m \in SUBSET IRQ, NEW lines,
           p.check = Deliverable(p),
           \A i \in IRQ \ lines : i \in p.masked <=> i \in m
    PROVE  LET q == Rechecked(p, [p EXCEPT !.masked = m], lines)
           IN q.check = Deliverable(q)
<1> DEFINE w == [p EXCEPT !.masked = m]
           q == Rechecked(p, w, lines)
<1>1. q.masked = m /\ q.active = p.active /\ w.masked = m /\ w.active = p.active
    BY DEF Rechecked, Controllers
<1>2. Deliverable(q) = Deliverable(w)
    BY <1>1 DEF Deliverable, Open
<1>3. ASSUME NEW i \in IRQ, i \notin lines,
             i \notin Lines(1) \/ ((Cascade \in p.masked) <=> (Cascade \in m))
      PROVE i \in Deliverable(p) <=> i \in Deliverable(w)
    BY <1>1, <1>3, LinesOfChips DEF Deliverable, Open
<1>4. q.check = (p.check \ (lines \cup IF (Cascade \in p.masked) # (Cascade \in m) THEN Lines(1) ELSE {}))
                  \cup (Deliverable(w) \cap
                        (lines \cup IF (Cascade \in p.masked) # (Cascade \in m) THEN Lines(1) ELSE {}))
    BY <1>1 DEF Rechecked, Controllers
<1>5. Deliverable(p) \subseteq IRQ /\ Deliverable(w) \subseteq IRQ
    BY <1>1 DEF Deliverable, Controllers
<1> HIDE DEF w, q
<1>6. q.check = Deliverable(w)
    BY <1>3, <1>4, <1>5
<1> QED BY <1>2, <1>6 DEF w, q

\* The end of an interrupt touches neither the requests nor the masks.
LEMMA EndCurrentKeeps ==
    ASSUME NEW p \in Controllers
    PROVE  LET q == EndCurrent(p)
           IN q.check = p.check /\ q.active = p.active /\ q.masked = p.masked
BY DEF EndCurrent, Controllers

LEMMA HandlerEOIKeeps ==
    ASSUME NEW p \in Controllers, NEW i
    PROVE  LET q == HandlerEOI(p, i)
           IN q.check = p.check /\ q.active = p.active /\ q.masked = p.masked
<1>1. \A q \in Controllers, c \in Chips :
          LET r == NonspecificEOI(q, c)
          IN r \in Controllers /\ r.check = q.check /\ r.active = q.active /\ r.masked = q.masked
    BY EndCurrentTyped, EndCurrentKeeps DEF NonspecificEOI
<1> QED BY <1>1 DEF HandlerEOI, Chips

LEMMA CoherentInit == PicInit => CheckCoherent
BY DEF PicInit, InitPic, CheckCoherent, Deliverable

LEMMA CoherentStep == PicTypeOK /\ CheckCoherent /\ [PicNext]_picVars => CheckCoherent'
<1> SUFFICES ASSUME PicTypeOK, CheckCoherent, [PicNext]_picVars PROVE CheckCoherent'
    OBVIOUS
<1> USE DEF CheckCoherent
<1>a. pic \in Controllers
    BY DEF PicTypeOK
<1>b. ASSUME pic'.check = pic.check, pic'.active = pic.active, pic'.masked = pic.masked
      PROVE CheckCoherent'
    BY <1>b DEF Deliverable, Open
<1>1. ASSUME NEW i \in IRQ, Raise(i) PROVE CheckCoherent'
    BY <1>1, <1>a DEF Raise, ActivateIRQ, Deliverable, Open, Controllers
<1>2. ASSUME NEW i \in IRQ, Lower(i) PROVE CheckCoherent'
    BY <1>2, <1>a DEF Lower, DeActivateIRQ, Deliverable, Open, Controllers
<1>3. ASSUME NEW i \in IRQ, NEW b \in BOOLEAN, DeviceMask(i, b) PROVE CheckCoherent'
    <2> DEFINE m == IF b THEN pic.masked \cup {i} ELSE pic.masked \ {i}
    <2>1. m \in SUBSET IRQ /\ \A j \in IRQ \ {i} : j \in pic.masked <=> j \in m
        BY <1>a DEF Controllers
    <2>2. pic' = pic \/ pic' = Rechecked(pic, [pic EXCEPT !.masked = m], {i})
        BY <1>3 DEF DeviceMask, SetIRQMask
    <2> HIDE DEF m
    <2> QED BY <2>1, <2>2, <1>a, RecheckedCoherent
<1>4. ASSUME NEW c \in Chips, NEW m \in SUBSET Lines(c), Mask(c, m) PROVE CheckCoherent'
    <2> DEFINE n == (pic.masked \ Lines(c)) \cup m
    <2>1. n \in SUBSET IRQ /\ \A j \in IRQ \ Lines(c) : j \in pic.masked <=> j \in n
        BY <1>a, LinesOfChips DEF Controllers
    <2>2. pic' = Rechecked(pic, [pic EXCEPT !.masked = n], Lines(c))
        BY <1>4 DEF Mask, WriteMask
    <2> HIDE DEF n
    <2> QED BY <2>1, <2>2, <1>a, RecheckedCoherent
<1>5. ASSUME NEW c \in Chips, NEW b \in BOOLEAN, NEW icw4 \in BOOLEAN,
             Initialise(c, b, icw4) \/ InitialiseWord(c, b) \/ SetSpecial(c, b)
      PROVE CheckCoherent'
    BY <1>5, <1>a, <1>b
    DEF Initialise, InitialiseWord, SetSpecial, WriteICW1, WriteICW, SpecialMask, Controllers
<1>6. CASE Interrupt
    <2> DEFINE i == First(Startable(pic))
    <2>1. pic' = StartIRQ(pic, i)
        BY <1>6 DEF Interrupt
    <2> HIDE DEF i
    <2>2. /\ pic'.check = pic.check \ {i} /\ pic'.active = pic.active \ {i}
          /\ pic'.masked = pic.masked
        BY <2>1, <1>a DEF StartIRQ, Controllers
    <2> QED BY <2>2 DEF Deliverable, Open
<1>7. CASE EndOfInterrupt
    BY <1>7, <1>a, <1>b, HandlerEOIKeeps DEF EndOfInterrupt, WriteEOI
<1>8. CASE EnableInterrupts \/ DisableInterrupts \/ Return \/ UNCHANGED picVars
    BY <1>8, <1>b DEF EnableInterrupts, SetFlag, DisableInterrupts, Return, PopFrame, picVars
<1> QED
    BY <1>1, <1>2, <1>3, <1>4, <1>5, <1>6, <1>7, <1>8 DEF PicNext

\* No request is forgotten behind a mask that was lifted, and none is looked for that
\* cannot be served, whatever order devices, masks and handlers come in: the bit-by-bit
\* updates of PIC_IRQCheck amount to recomputing it.
THEOREM CheckStaysCoherent == PicSpec => []CheckCoherent
<1>1. PicInit => PicTypeOK /\ CheckCoherent
    BY PicTypeInit, CoherentInit
<1>2. PicTypeOK /\ CheckCoherent /\ [PicNext]_picVars => (PicTypeOK /\ CheckCoherent)'
    BY PicTypeStep, CoherentStep
<1> QED BY <1>1, <1>2, PTL DEF PicSpec

-----------------------------------------------------------------------------
(* What is in service is what the stack says *)

\* While an inner handler runs, the outer ones have let it in or have ended before.
OuterNested ==
    \A j, k \in 1 .. Len(handlers) :
        j < k /\ ~handlers[j].ended => handlers[j].irq \in Nesting

\* Those that have not ended are ordered by rank, and what is in service is theirs.
StackOrdered ==
    \A j, k \in 1 .. Len(handlers) :
        j < k /\ ~handlers[j].ended /\ ~handlers[k].ended =>
            Rank(handlers[k].irq) < Rank(handlers[j].irq)

InServiceUnended ==
    \A i : i \in pic.inservice <=> \E k \in 1 .. Len(handlers) : handlers[k].irq = i /\ ~handlers[k].ended

\* What makes ServiceIsStack inductive.
ServiceInv ==
    /\ PicTypeOK
    /\ OuterNested
    /\ enabled /\ handlers # <<>> => Top.irq \in Nesting \/ Top.ended
    /\ plain => /\ pic.special = {} /\ pic.autoEoi = {}
                /\ StackOrdered /\ InServiceUnended
                /\ pic.current = FirstOrNone(pic.inservice)

\* A step that leaves the stack and what is in service alone keeps the invariant.
LEMMA ServiceKept ==
    ASSUME ServiceInv, PicTypeOK', UNCHANGED <<enabled, handlers>>,
           pic'.inservice = pic.inservice, pic'.current = pic.current,
           plain' => plain /\ pic'.special = {} /\ pic'.autoEoi = {}
    PROVE  ServiceInv'
BY DEF ServiceInv, OuterNested, StackOrdered, InServiceUnended, Top

\* The innermost handler that has not ended is the first of what is in service.
LEMMA TopIsCurrent ==
    ASSUME ServiceInv, plain, handlers # <<>>, ~Top.ended
    PROVE  Top.irq \in pic.inservice /\ pic.current = Top.irq
<1>1. Len(handlers) \in 1 .. Len(handlers) /\ Top = handlers[Len(handlers)]
    BY DEF ServiceInv, PicTypeOK, Top
<1>2. Top.irq \in pic.inservice
    BY <1>1 DEF ServiceInv, InServiceUnended
<1>3. ASSUME NEW j \in pic.inservice PROVE Rank(Top.irq) <= Rank(j)
    <2>1. PICK k \in 1 .. Len(handlers) : handlers[k].irq = j /\ ~handlers[k].ended
        BY <1>3 DEF ServiceInv, InServiceUnended
    <2>2. CASE k = Len(handlers)
        <3>1. j = Top.irq
            BY <2>1, <2>2, <1>1
        <3>2. j \in 0 .. 15
            BY <1>3, IrqAssumption DEF ServiceInv, PicTypeOK, Controllers
        <3> QED BY <3>1, <3>2 DEF Rank
    <2>3. CASE k # Len(handlers)
        <3>1. k < Len(handlers)
            BY <2>3 DEF ServiceInv, PicTypeOK
        <3>2. Rank(handlers[Len(handlers)].irq) < Rank(handlers[k].irq)
            BY <3>1, <2>1, <1>1 DEF ServiceInv, StackOrdered
        <3>3. j \in 0 .. 15 /\ Top.irq \in 0 .. 15
            BY <1>2, <1>3, IrqAssumption DEF ServiceInv, PicTypeOK, Controllers
        <3>4. Rank(Top.irq) < Rank(j)
            BY <3>2, <2>1, <1>1
        <3> QED BY <3>3, <3>4, RankBelow
    <2> QED BY <2>2, <2>3
<1>4. First(pic.inservice) = Top.irq
    BY <1>2, <1>3, FirstIs DEF ServiceInv, PicTypeOK, Controllers
<1> QED BY <1>2, <1>4 DEF ServiceInv, FirstOrNone

\* The EOI of the innermost handler ends its own line and no other: that of the second
\* chip is followed by one for the first, which finds no line of the first chip current.
LEMMA EndsOwnLine ==
    ASSUME NestsAboveCascade, ServiceInv, plain, handlers # <<>>, ~Top.ended
    PROVE  HandlerEOI(pic, Top.irq) = EndCurrent(pic)
<1> DEFINE left == pic.inservice \ {pic.current}
           q    == EndCurrent(pic)
<1>1. Top.irq \in pic.inservice /\ pic.current = Top.irq /\ Top.irq \in IRQ /\ Top.irq \in 0 .. 15
    BY TopIsCurrent, IrqAssumption DEF ServiceInv, PicTypeOK, Controllers
<1>2. q.current = FirstOrNone(left)
    BY DEF EndCurrent, ServiceInv, PicTypeOK, Controllers
<1>3. CASE Chip(Top.irq) = 0
    BY <1>1, <1>3, LinesOfChips DEF HandlerEOI, NonspecificEOI
<1>4. CASE Chip(Top.irq) # 0
    <2>1. Top.irq > 7
        BY <1>1, <1>4, LinesOfChips
    <2>2. NonspecificEOI(pic, 1) = q
        BY <1>1 DEF NonspecificEOI
    <2>3. ASSUME left # {} PROVE ~(q.current < 8)
        <3>1. left \subseteq IRQ
            BY DEF ServiceInv, PicTypeOK, Controllers
        <3>2. q.current \in left
            BY <1>2, <2>3, <3>1, FirstOfLines DEF FirstOrNone
        <3>3. PICK k \in 1 .. Len(handlers) : handlers[k].irq = q.current /\ ~handlers[k].ended
            BY <3>2 DEF ServiceInv, InServiceUnended
        <3>4. k < Len(handlers) /\ Len(handlers) \in 1 .. Len(handlers)
            BY <3>2, <3>3, <1>1 DEF ServiceInv, PicTypeOK, Top
        <3>5. q.current \in Nesting
            BY <3>3, <3>4 DEF ServiceInv, OuterNested
        <3>6. Rank(Top.irq) < Rank(q.current)
            BY <3>3, <3>4 DEF ServiceInv, StackOrdered, Top
        <3>7. q.current \in 0 .. 15
            BY <3>1, <3>2, IrqAssumption
        <3>8. q.current \notin 0 .. 2
            BY <1>1, <2>1, <3>6, SMTT(40) DEF Rank
        <3> QED BY <3>5, <3>7, <3>8 DEF NestsAboveCascade
    <2>4. ~(q.current < 8)
        BY <1>2, <2>3 DEF FirstOrNone, NoIRQ
    <2>5. NonspecificEOI(q, 0) = q
        BY <2>4 DEF NonspecificEOI
    <2> QED BY <1>4, <2>2, <2>5 DEF HandlerEOI
<1> QED BY <1>3, <1>4

LEMMA ServiceInit == PicInit => ServiceInv
<1> SUFFICES ASSUME PicInit PROVE ServiceInv
    OBVIOUS
<1>1. pic.inservice = {} /\ pic.current = NoIRQ /\ pic.special = {} /\ pic.autoEoi = {} /\ handlers = <<>>
    BY DEF PicInit, InitPic
<1> QED BY <1>1, PicTypeInit
        DEF ServiceInv, OuterNested, StackOrdered, InServiceUnended, FirstOrNone

LEMMA ServiceEnter ==
    ASSUME ServiceInv, PicTypeOK', Interrupt
    PROVE  ServiceInv'
<1> DEFINE i == First(Startable(pic))
           n == Len(handlers)
<1>1. /\ pic' = StartIRQ(pic, i)
      /\ handlers' = Append(handlers, [irq |-> i, ended |-> FALSE])
      /\ enabled /\ ~enabled' /\ plain' = plain
    BY DEF Interrupt
<1>2. i \in Startable(pic) /\ i \in IRQ
    <2>1. Startable(pic) \subseteq IRQ /\ Startable(pic) # {}
        BY DEF Interrupt, Startable, Deliverable, ServiceInv, PicTypeOK, Controllers
    <2> QED BY <2>1, FirstOfLines
<1> HIDE DEF i
<1>3. /\ n \in Nat /\ Len(handlers') = n + 1
      /\ \A k \in 1 .. n : handlers'[k] = handlers[k]
      /\ handlers'[n + 1] = [irq |-> i, ended |-> FALSE]
    BY <1>1 DEF ServiceInv, PicTypeOK
<1> HIDE DEF n
<1>4. OuterNested'
    <2> SUFFICES ASSUME NEW j \in 1 .. n + 1, NEW k \in 1 .. n + 1,
                        j < k, ~handlers'[j].ended
                 PROVE  handlers'[j].irq \in Nesting
        BY <1>3 DEF OuterNested
    <2>1. j \in 1 .. n /\ ~handlers[j].ended
        BY <1>3
    <2>2. CASE j = n
        BY <2>1, <2>2, <1>1, <1>3 DEF ServiceInv, Top, n
    <2>3. CASE j < n
        <3>1. n \in 1 .. n
            BY <2>1, <1>3
        <3> QED BY <2>1, <2>3, <3>1, <1>3 DEF ServiceInv, OuterNested, n
    <2> QED BY <2>1, <2>2, <2>3, <1>3
<1>5. ASSUME plain
      PROVE  /\ pic'.special = {} /\ pic'.autoEoi = {}
             /\ StackOrdered' /\ InServiceUnended'
             /\ pic'.current = FirstOrNone(pic'.inservice)
    <2>1. /\ pic'.special = {} /\ pic'.autoEoi = {}
          /\ pic'.current = i /\ pic'.inservice = pic.inservice \cup {i}
        BY <1>1, <1>5 DEF StartIRQ, ServiceInv, PicTypeOK, Controllers
    <2>2. ASSUME NEW j \in pic.inservice PROVE Rank(i) < Rank(j)
        <3>1. Rank(i) < RankOf(pic.current)
            BY <1>2, <1>5 DEF Startable, ServiceInv
        <3>2. pic.inservice \subseteq IRQ
            BY DEF ServiceInv, PicTypeOK, Controllers
        <3>3. pic.current = First(pic.inservice) /\ pic.current \in pic.inservice
              /\ Rank(pic.current) <= Rank(j)
            BY <3>2, <1>5, <2>2, FirstOfLines DEF ServiceInv, FirstOrNone
        <3>4. pic.current \in 0 .. 15 /\ j \in 0 .. 15 /\ i \in 0 .. 15
            BY <3>2, <3>3, <2>2, <1>2, IrqAssumption
        <3>5. Rank(i) < Rank(pic.current)
            BY <3>1, <3>4 DEF RankOf, NoIRQ
        <3> QED BY <3>3, <3>4, <3>5 DEF Rank
    <2>3. StackOrdered'
        <3> SUFFICES ASSUME NEW j \in 1 .. n + 1, NEW k \in 1 .. n + 1,
                            j < k, ~handlers'[j].ended, ~handlers'[k].ended
                     PROVE  Rank(handlers'[k].irq) < Rank(handlers'[j].irq)
            BY <1>3 DEF StackOrdered
        <3>1. j \in 1 .. n
            BY <1>3
        <3>2. CASE k = n + 1
            <4>1. handlers[j].irq \in pic.inservice
                BY <3>1, <1>3, <1>5 DEF ServiceInv, InServiceUnended, n
            <4>2. Rank(i) < Rank(handlers[j].irq)
                BY <4>1, <2>2
            <4>3. handlers'[k].irq = i /\ handlers'[j].irq = handlers[j].irq
                BY <3>1, <3>2, <1>3
            <4> QED BY <4>2, <4>3
        <3>3. CASE k # n + 1
            <4>1. k \in 1 .. n
                BY <3>3, <1>3
            <4>2. handlers'[k] = handlers[k] /\ handlers'[j] = handlers[j]
                BY <3>1, <4>1, <1>3
            <4>3. Rank(handlers[k].irq) < Rank(handlers[j].irq)
                BY <3>1, <4>1, <4>2, <1>5 DEF ServiceInv, StackOrdered, n
            <4> QED BY <4>2, <4>3
        <3> QED BY <3>2, <3>3
    <2>4. InServiceUnended'
        <3> SUFFICES ASSUME NEW l
                     PROVE  l \in pic'.inservice <=>
                                \E k \in 1 .. n + 1 : handlers'[k].irq = l /\ ~handlers'[k].ended
            BY <1>3 DEF InServiceUnended
        <3>1. l \in pic.inservice <=> \E k \in 1 .. n : handlers[k].irq = l /\ ~handlers[k].ended
            BY <1>5 DEF ServiceInv, InServiceUnended, n
        <3>2. n + 1 \in 1 .. n + 1 /\ \A k \in 1 .. n + 1 : k \in 1 .. n \/ k = n + 1
            BY <1>3
        <3>3. \A k \in 1 .. n : k \in 1 .. n + 1
            BY <1>3
        <3> QED BY <3>1, <3>2, <3>3, <2>1, <1>3
    <2>5. pic'.current = FirstOrNone(pic'.inservice)
        <3>1. pic'.inservice \subseteq IRQ /\ i \in pic'.inservice
            BY <2>1, <1>2 DEF ServiceInv, PicTypeOK, Controllers
        <3>2. \A j \in pic'.inservice : Rank(i) <= Rank(j)
            <4> TAKE j \in pic'.inservice
            <4>1. j \in 0 .. 15 /\ i \in 0 .. 15
                BY <3>1, IrqAssumption
            <4>2. j = i \/ Rank(i) < Rank(j)
                BY <2>1, <2>2
            <4> QED BY <4>1, <4>2 DEF Rank
        <3>3. First(pic'.inservice) = i
            BY <3>1, <3>2, FirstIs
        <3> QED BY <3>1, <3>3, <2>1 DEF FirstOrNone
    <2> QED BY <2>1, <2>3, <2>4, <2>5
<1> QED BY <1>1, <1>4, <1>5 DEF ServiceInv

LEMMA ServiceEnd ==
    ASSUME NestsAboveCascade, ServiceInv, PicTypeOK', EndOfInterrupt
    PROVE  ServiceInv'
<1> DEFINE n == Len(handlers)
<1>1. n \in Nat \ {0} /\ handlers # <<>> /\ ~Top.ended /\ Top = handlers[n]
    BY DEF EndOfInterrupt, WriteEOI, ServiceInv, PicTypeOK, Top
<1>2. /\ Len(handlers') = n
      /\ \A k \in 1 .. n : handlers'[k].irq = handlers[k].irq
      /\ \A k \in 1 .. n : k # n => handlers'[k] = handlers[k]
      /\ handlers'[n].ended
    <2>1. handlers' = [handlers EXCEPT ![n] = [@ EXCEPT !.ended = TRUE]]
        BY DEF EndOfInterrupt, WriteEOI
    <2>2. handlers[n] \in StackFrames
        BY <1>1 DEF ServiceInv, PicTypeOK
    <2>3. \A k \in 1 .. n : handlers'[k] = IF k = n THEN [handlers[n] EXCEPT !.ended = TRUE] ELSE handlers[k]
        BY <2>1, <1>1 DEF ServiceInv, PicTypeOK
    <2>4. Len(handlers') = n
        BY <2>1, <1>1 DEF ServiceInv, PicTypeOK
    <2> QED BY <2>2, <2>3, <2>4, <1>1 DEF StackFrames
<1>3. Top'.ended
    BY <1>2 DEF Top
<1> HIDE DEF n
<1>4. OuterNested'
    <2> SUFFICES ASSUME NEW j \in 1 .. n, NEW k \in 1 .. n, j < k, ~handlers'[j].ended
                 PROVE  handlers'[j].irq \in Nesting
        BY <1>2 DEF OuterNested
    <2>1. handlers'[j] = handlers[j]
        BY <1>1, <1>2
    <2> QED BY <2>1 DEF ServiceInv, OuterNested, n
<1>5. ASSUME plain
      PROVE  /\ pic'.special = {} /\ pic'.autoEoi = {}
             /\ StackOrdered' /\ InServiceUnended'
             /\ pic'.current = FirstOrNone(pic'.inservice)
    <2>1. pic' = EndCurrent(pic)
        BY <1>1, <1>5, EndsOwnLine DEF EndOfInterrupt, WriteEOI
    <2>2. Top.irq \in pic.inservice /\ pic.current = Top.irq
        BY <1>1, <1>5, TopIsCurrent
    <2>3. /\ pic'.special = {} /\ pic'.autoEoi = {}
          /\ pic'.inservice = pic.inservice \ {Top.irq}
          /\ pic'.current = FirstOrNone(pic'.inservice)
        BY <2>1, <2>2, <1>5 DEF EndCurrent, ServiceInv, PicTypeOK, Controllers
    <2>4. \A k \in 1 .. n : ~handlers'[k].ended <=> k # n /\ ~handlers[k].ended
        BY <1>2
    <2>5. StackOrdered'
        <3> SUFFICES ASSUME NEW j \in 1 .. n, NEW k \in 1 .. n,
                            j < k, ~handlers'[j].ended, ~handlers'[k].ended
                     PROVE  Rank(handlers'[k].irq) < Rank(handlers'[j].irq)
            BY <1>2 DEF StackOrdered
        <3>1. handlers'[j] = handlers[j] /\ handlers'[k] = handlers[k]
            BY <2>4, <1>2
        <3>2. Rank(handlers[k].irq) < Rank(handlers[j].irq)
            BY <3>1, <1>5 DEF ServiceInv, StackOrdered, n
        <3> QED BY <3>1, <3>2
    <2>6. InServiceUnended'
        <3> SUFFICES ASSUME NEW l
                     PROVE  l \in pic'.inservice <=>
                                \E k \in 1 .. n : handlers'[k].irq = l /\ ~handlers'[k].ended
            BY <1>2 DEF InServiceUnended
        <3>1. l \in pic.inservice <=> \E k \in 1 .. n : handlers[k].irq = l /\ ~handlers[k].ended
            BY <1>5 DEF ServiceInv, InServiceUnended, n
        <3>2. ASSUME NEW k \in 1 .. n, k # n, ~handlers[k].ended PROVE handlers[k].irq # Top.irq
            <4>1. k < n /\ n \in 1 .. n
                BY <1>1, <3>2
            <4>2. Rank(handlers[n].irq) < Rank(handlers[k].irq)
                BY <4>1, <3>2, <1>1, <1>5 DEF ServiceInv, StackOrdered, n
            <4>3. Top.irq \in 0 .. 15 /\ handlers[k].irq \in 0 .. 15
                <5>1. handlers[k].irq \in pic.inservice
                    BY <3>2, <1>5 DEF ServiceInv, InServiceUnended, n
                <5> QED BY <5>1, <2>2, IrqAssumption DEF ServiceInv, PicTypeOK, Controllers
            <4> QED BY <4>2, <4>3, <1>1, RankBelow
        <3> QED BY <3>1, <3>2, <2>3, <2>4, <1>1, <1>2
    <2> QED BY <2>3, <2>5, <2>6
<1> QED BY <1>3, <1>4, <1>5 DEF ServiceInv, EndOfInterrupt, WriteEOI

LEMMA ServiceReturn ==
    ASSUME ServiceInv, PicTypeOK', Return
    PROVE  ServiceInv'
<1> DEFINE n == Len(handlers)
<1>1. /\ n \in Nat \ {0} /\ handlers[n].ended
      /\ Len(handlers') = n - 1 /\ \A k \in 1 .. n - 1 : handlers'[k] = handlers[k]
    <2>1. handlers \in Seq(StackFrames) /\ handlers # <<>> /\ handlers[n].ended
          /\ handlers' = SubSeq(handlers, 1, n - 1)
        BY DEF Return, PopFrame, Outer, ServiceInv, PicTypeOK, Top
    <2>2. n \in Nat \ {0}
        BY <2>1
    <2>3. Len(handlers') = n - 1 /\ \A k \in 1 .. n - 1 : handlers'[k] = handlers[k]
        BY <2>1, <2>2, OuterElements
    <2> QED BY <2>1, <2>2, <2>3
<1> HIDE DEF n
<1>2. OuterNested'
    <2> SUFFICES ASSUME NEW j \in 1 .. n - 1, NEW k \in 1 .. n - 1, j < k, ~handlers'[j].ended
                 PROVE  handlers'[j].irq \in Nesting
        BY <1>1 DEF OuterNested
    <2>1. handlers'[j] = handlers[j] /\ j \in 1 .. n /\ k \in 1 .. n
        BY <1>1
    <2> QED BY <2>1 DEF ServiceInv, OuterNested, n
<1>3. ASSUME handlers' # <<>> PROVE Top'.irq \in Nesting \/ Top'.ended
    <2>1. n - 1 \in 1 .. n - 1
        BY <1>1, <1>3 DEF PicTypeOK
    <2>2. Top' = handlers[n - 1] /\ n - 1 \in 1 .. n /\ n \in 1 .. n /\ n - 1 < n
        BY <1>1, <2>1 DEF Top
    <2> QED BY <2>2 DEF ServiceInv, OuterNested, n
<1>4. \A k : k \in 1 .. n - 1 /\ ~handlers'[k].ended <=> k \in 1 .. n /\ ~handlers[k].ended
    <2>1. \A k : k \in 1 .. n - 1 <=> k \in 1 .. n /\ k # n
        BY <1>1
    <2> QED BY <2>1, <1>1
<1>5. ASSUME plain
      PROVE  StackOrdered' /\ InServiceUnended'
    <2>1. StackOrdered'
        <3> SUFFICES ASSUME NEW j \in 1 .. n - 1, NEW k \in 1 .. n - 1,
                            j < k, ~handlers'[j].ended, ~handlers'[k].ended
                     PROVE  Rank(handlers'[k].irq) < Rank(handlers'[j].irq)
            BY <1>1 DEF StackOrdered
        <3>1. handlers'[j] = handlers[j] /\ handlers'[k] = handlers[k]
            BY <1>1
        <3>2. Rank(handlers[k].irq) < Rank(handlers[j].irq)
            BY <3>1, <1>4, <1>5 DEF ServiceInv, StackOrdered, n
        <3> QED BY <3>1, <3>2
    <2>2. InServiceUnended'
        <3> SUFFICES ASSUME NEW l
                     PROVE  l \in pic'.inservice <=>
                                \E k \in 1 .. n - 1 : handlers'[k].irq = l /\ ~handlers'[k].ended
            BY <1>1 DEF InServiceUnended
        <3>1. l \in pic.inservice <=> \E k \in 1 .. n : handlers[k].irq = l /\ ~handlers[k].ended
            BY <1>5 DEF ServiceInv, InServiceUnended, n
        <3>2. pic' = pic
            BY DEF Return, PopFrame
        <3> QED BY <3>1, <3>2, <1>1, <1>4
    <2> QED BY <2>1, <2>2
<1> QED BY <1>2, <1>3, <1>5 DEF ServiceInv, Return, PopFrame

LEMMA ServiceStep == NestsAboveCascade /\ ServiceInv /\ [PicNext]_picVars => ServiceInv'
<1> SUFFICES ASSUME NestsAboveCascade, ServiceInv, [PicNext]_picVars PROVE ServiceInv'
    OBVIOUS
<1>a. pic \in Controllers /\ PicTypeOK'
    BY PicTypeStep DEF ServiceInv, PicTypeOK
<1>b. plain => pic.special = {} /\ pic.autoEoi = {}
    BY DEF ServiceInv
<1>1. ASSUME NEW i \in IRQ, Raise(i) \/ Lower(i) PROVE ServiceInv'
    <2>1. /\ pic'.inservice = pic.inservice /\ pic'.current = pic.current
          /\ pic'.special = pic.special /\ pic'.autoEoi = pic.autoEoi
        BY <1>1, <1>a DEF Raise, Lower, ActivateIRQ, DeActivateIRQ, Controllers
    <2> QED BY <1>1, <1>a, <1>b, <2>1, ServiceKept DEF Raise, Lower
<1>2. ASSUME NEW i \in IRQ, NEW b \in BOOLEAN, DeviceMask(i, b) PROVE ServiceInv'
    <2>1. /\ pic'.inservice = pic.inservice /\ pic'.current = pic.current
          /\ pic'.special = pic.special /\ pic'.autoEoi = pic.autoEoi
        BY <1>2, <1>a DEF DeviceMask, SetIRQMask, Rechecked, Controllers
    <2> QED BY <1>2, <1>a, <1>b, <2>1, ServiceKept DEF DeviceMask
<1>3. ASSUME NEW c \in Chips, NEW m \in SUBSET Lines(c), Mask(c, m) PROVE ServiceInv'
    <2>1. /\ pic'.inservice = pic.inservice /\ pic'.current = pic.current
          /\ pic'.special = pic.special /\ pic'.autoEoi = pic.autoEoi
        BY <1>3, <1>a DEF Mask, WriteMask, Rechecked, Controllers
    <2> QED BY <1>3, <1>a, <1>b, <2>1, ServiceKept DEF Mask
<1>4. ASSUME NEW c \in Chips, NEW b \in BOOLEAN, NEW icw4 \in BOOLEAN, Initialise(c, b, icw4)
      PROVE ServiceInv'
    <2>1. /\ pic'.inservice = pic.inservice /\ pic'.current = pic.current
          /\ pic'.special = pic.special /\ pic'.autoEoi = pic.autoEoi
        BY <1>4, <1>a DEF Initialise, WriteICW1, Controllers
    <2> QED BY <1>4, <1>a, <1>b, <2>1, ServiceKept DEF Initialise
<1>5. ASSUME NEW c \in Chips, NEW b \in BOOLEAN, InitialiseWord(c, b) PROVE ServiceInv'
    <2>1. /\ pic'.inservice = pic.inservice /\ pic'.current = pic.current
          /\ pic'.special = pic.special
        BY <1>5, <1>a DEF InitialiseWord, WriteICW, Controllers
    <2>2. plain' => plain /\ pic'.autoEoi = {}
        BY <1>5 DEF InitialiseWord
    <2> QED BY <1>5, <1>a, <1>b, <2>1, <2>2, ServiceKept DEF InitialiseWord
<1>6. ASSUME NEW c \in Chips, NEW b \in BOOLEAN, SetSpecial(c, b) PROVE ServiceInv'
    <2>1. /\ pic'.inservice = pic.inservice /\ pic'.current = pic.current
          /\ pic'.autoEoi = pic.autoEoi
        BY <1>6, <1>a DEF SetSpecial, SpecialMask, Controllers
    <2>2. plain' => plain /\ pic'.special = {}
        BY <1>6, <1>a, <1>b DEF SetSpecial, SpecialMask, Controllers
    <2> QED BY <1>6, <1>a, <1>b, <2>1, <2>2, ServiceKept DEF SetSpecial
<1>7. CASE Interrupt
    BY <1>7, <1>a, ServiceEnter
<1>8. CASE EnableInterrupts \/ DisableInterrupts
    <2>1. enabled' /\ handlers # <<>> => Top.irq \in Nesting \/ Top.ended
        BY <1>8 DEF EnableInterrupts, SetFlag, DisableInterrupts
    <2>2. UNCHANGED <<pic, handlers, plain>>
        BY <1>8 DEF EnableInterrupts, SetFlag, DisableInterrupts
    <2> QED BY <2>1, <2>2, <1>a
            DEF ServiceInv, OuterNested, StackOrdered, InServiceUnended, Top
<1>9. CASE EndOfInterrupt
    BY <1>9, <1>a, ServiceEnd
<1>10. CASE Return
    BY <1>10, <1>a, ServiceReturn
<1>11. CASE UNCHANGED picVars
    BY <1>11, <1>a, <1>b, ServiceKept DEF picVars
<1> QED
    BY <1>1, <1>2, <1>3, <1>4, <1>5, <1>6, <1>7, <1>8, <1>9, <1>10, <1>11 DEF PicNext

LEMMA ServiceImplies == ServiceInv => ServiceIsStack
<1> SUFFICES ASSUME ServiceInv, plain PROVE ServiceIsStack
    BY DEF ServiceIsStack
<1>1. ASSUME NEW i \in IRQ
      PROVE Cardinality(Unended(i)) = IF i \in pic.inservice THEN 1 ELSE 0
    <2>1. CASE i \in pic.inservice
        <3>1. PICK k \in 1 .. Len(handlers) : handlers[k].irq = i /\ ~handlers[k].ended
            BY <2>1 DEF ServiceInv, InServiceUnended
        <3>2. ASSUME NEW j \in Unended(i) PROVE j = k
            <4>1. j \in 1 .. Len(handlers) /\ handlers[j].irq = i /\ ~handlers[j].ended
                BY <3>2 DEF Unended
            <4>2. ~(Rank(i) < Rank(i))
                <5>1. i \in 0 .. 15
                    BY IrqAssumption
                <5> QED BY <5>1, RankBelow
            <4>3. ~(j < k) /\ ~(k < j)
                BY <3>1, <4>1, <4>2 DEF ServiceInv, StackOrdered
            <4> QED BY <4>1, <4>3
        <3>3. Unended(i) = {k}
            BY <3>1, <3>2 DEF Unended
        <3> QED BY <2>1, <3>3, FS_Singleton
    <2>2. CASE i \notin pic.inservice
        <3>1. Unended(i) = {}
            BY <2>2 DEF ServiceInv, InServiceUnended, Unended
        <3> QED BY <2>2, <3>1, FS_EmptySet
    <2> QED BY <2>1, <2>2
<1> QED BY <1>1 DEF ServiceInv, StackOrdered, ServiceIsStack

\* A line is in service while exactly one handler of it waits for its EOI, and
\* PIC_IRQActive is that of the innermost: every EOI ends the line of the handler that
\* writes it.  It takes that handlers of lines 3 to 7, which the priorities put behind the
\* second chip's, let nobody in before their EOI.
THEOREM StackInService ==
    ASSUME NestsAboveCascade
    PROVE  PicSpec => []ServiceIsStack
<1>1. PicInit => ServiceInv
    BY ServiceInit
<1>2. ServiceInv /\ [PicNext]_picVars => ServiceInv'
    BY ServiceStep
<1> QED BY <1>1, <1>2, ServiceImplies, PTL DEF PicSpec

-----------------------------------------------------------------------------
(* The mouse: its timer *)

TimerRuns(m) ==
    /\ m.limits = IF m.timer THEN 1 ELSE 0
    /\ m.queue # <<>> => m.timer

MouseInv == mouse \in Drivers /\ saved \in Drivers /\ (~loaded => TimerRuns(mouse))

LEMMA ArmTyped ==
    ASSUME NEW m \in Drivers
    PROVE  Arm(m) \in Drivers /\ Arm(m).timer = TRUE /\ Arm(m).limits = m.limits + 1
<1> DEFINE l == m.limits + 1
<1>1. l \in Nat
    BY DEF Drivers
<1>2. Arm(m) = [m EXCEPT !.timer = TRUE, !.limits = l]
    BY DEF Arm
<1> HIDE DEF l
<1>3. Arm(m) \in Drivers /\ Arm(m).timer = TRUE /\ Arm(m).limits = l
    BY <1>1, <1>2 DEF Drivers
<1> QED BY <1>3 DEF l

LEMMA AddEventKeeps ==
    ASSUME NEW m \in Drivers, NEW type \in EventTypes
    PROVE  AddEvent(m, type) \in Drivers /\ (TimerRuns(m) => TimerRuns(AddEvent(m, type)))
<1> DEFINE q == IF Len(m.queue) < QueueSize THEN Append(m.queue, type) ELSE m.queue
           n == [m EXCEPT !.queue = q]
<1>1. q \in Seq(EventTypes)
    BY DEF Drivers
<1> HIDE DEF q
<1>2. n \in Drivers /\ n.timer = m.timer /\ n.limits = m.limits
    BY <1>1 DEF Drivers
<1>3. Arm(n) \in Drivers /\ Arm(n).timer = TRUE /\ Arm(n).limits = m.limits + 1
    BY <1>2, ArmTyped DEF Arm, Drivers
<1>4. AddEvent(m, type) = m
      \/ (m.timer /\ AddEvent(m, type) = n) \/ (~m.timer /\ AddEvent(m, type) = Arm(n))
    BY DEF AddEvent, q
<1> HIDE DEF n
<1> QED BY <1>2, <1>3, <1>4 DEF TimerRuns, Drivers

LEMMA LimitEventsKeeps ==
    ASSUME NEW m \in Drivers, m.limits > 0
    PROVE  LimitEvents(m) \in Drivers /\ (TimerRuns(m) => TimerRuns(LimitEvents(m)))
<1> DEFINE l == m.limits - 1
           n == [m EXCEPT !.timer = FALSE, !.limits = l]
<1>0. l \in Nat /\ l + 1 = m.limits
    BY DEF Drivers
<1> HIDE DEF l
<1>1. n \in Drivers /\ n.timer = FALSE /\ n.limits = l /\ n.queue = m.queue
    BY <1>0 DEF Drivers
<1>2. Arm(n) \in Drivers /\ Arm(n).timer = TRUE /\ Arm(n).limits = m.limits
    BY <1>0, <1>1, ArmTyped
<1>3. LimitEvents(m) = IF m.queue = <<>> THEN n ELSE Arm(n)
    BY DEF LimitEvents, l
<1> HIDE DEF n
<1> QED BY <1>0, <1>1, <1>2, <1>3 DEF TimerRuns, Drivers

LEMMA TakeKeeps ==
    ASSUME NEW m \in Drivers
    PROVE  Take(m) \in Drivers /\ (TimerRuns(m) => TimerRuns(Take(m)))
<1>1. CASE m.queue = <<>>
    BY <1>1 DEF Take
<1>2. CASE m.queue # <<>>
    <2>1. Tail(m.queue) \in Seq(EventTypes)
        BY <1>2 DEF Drivers
    <2>2. CallsUser(m) \in BOOLEAN
        BY DEF CallsUser
    <2> DEFINE u == m.inUIR \/ CallsUser(m)
    <2>3. u \in BOOLEAN
        OBVIOUS
    <2>4. Take(m) = [m EXCEPT !.queue = Tail(m.queue), !.inUIR = u]
        BY <1>2 DEF Take, Drivers
    <2> HIDE DEF u
    <2>5. Take(m) \in Drivers /\ Take(m).timer = m.timer /\ Take(m).limits = m.limits
        BY <2>1, <2>3, <2>4 DEF Drivers
    <2> QED BY <1>2, <2>5 DEF TimerRuns
<1> QED BY <1>1, <1>2

LEMMA UserIntReturnedKeeps ==
    ASSUME NEW m \in Drivers
    PROVE  UserIntReturned(m) \in Drivers /\ (TimerRuns(m) => TimerRuns(UserIntReturned(m)))
<1> DEFINE n == [m EXCEPT !.inUIR = FALSE]
<1>1. n \in Drivers /\ n.timer = m.timer /\ n.limits = m.limits /\ n.queue = m.queue
    BY DEF Drivers
<1>2. Arm(n) \in Drivers /\ Arm(n).timer = TRUE /\ Arm(n).limits = m.limits + 1
    BY <1>1, ArmTyped DEF Arm, Drivers
<1>3. UserIntReturned(m) = IF m.queue # <<>> /\ ~m.timer THEN Arm(n) ELSE n
    BY DEF UserIntReturned
<1> HIDE DEF n
<1> QED BY <1>1, <1>2, <1>3 DEF TimerRuns, Drivers

LEMMA CallsKeep ==
    ASSUME NEW m \in Drivers, NEW types \in SUBSET EventTypes, NEW known \in BOOLEAN
    PROVE  /\ NewVideoMode(m, known) \in Drivers
           /\ TimerRuns(m) => TimerRuns(NewVideoMode(m, known))
           /\ Reset(m, known) \in Drivers /\ (TimerRuns(m) => TimerRuns(Reset(m, known)))
           /\ DefineSubroutine(m, types) \in Drivers
           /\ TimerRuns(m) => TimerRuns(DefineSubroutine(m, types))
<1>1. <<>> \in Seq(EventTypes)
    OBVIOUS
<1>2. NewVideoMode(m, known) \in Drivers /\ (TimerRuns(m) => TimerRuns(NewVideoMode(m, known)))
    BY <1>1 DEF NewVideoMode, Drivers, TimerRuns
<1>3. Reset(m, known) \in Drivers /\ (TimerRuns(m) => TimerRuns(Reset(m, known)))
    BY <1>2 DEF Reset, Drivers, TimerRuns
<1>4. DefineSubroutine(m, types) \in Drivers
      /\ (TimerRuns(m) => TimerRuns(DefineSubroutine(m, types)))
    BY DEF DefineSubroutine, Drivers, TimerRuns
<1> QED BY <1>2, <1>3, <1>4

LEMMA MouseInit == Init => MouseInv
<1> SUFFICES ASSUME Init PROVE MouseInv
    OBVIOUS
<1>1. <<>> \in Seq(EventTypes)
    OBVIOUS
<1>2. InitMouse \in Drivers /\ TimerRuns(InitMouse)
    BY <1>1 DEF InitMouse, Drivers, TimerRuns
<1> QED BY <1>2 DEF Init, MouseInv

LEMMA MouseStep == MouseInv /\ [Next]_vars => MouseInv'
<1> SUFFICES ASSUME MouseInv, [Next]_vars PROVE MouseInv'
    OBVIOUS
<1>a. ASSUME UNCHANGED <<mouse, saved, loaded>> PROVE MouseInv'
    BY <1>a DEF MouseInv
<1>b. ASSUME mouse' \in Drivers, TimerRuns(mouse) => TimerRuns(mouse'), UNCHANGED <<saved, loaded>>
      PROVE MouseInv'
    BY <1>b DEF MouseInv
<1>c. mouse \in Drivers
    BY DEF MouseInv
<1>1. CASE \/ \E key \in Keys : Press(key) \/ Release(key)
           \/ Repeat \/ Transfer \/ Enter \/ In60 \/ Decode \/ Idle \/ Resume \/ Sti \/ UserReturns
           \/ Eoi \/ Iret \/ GetKey \/ Poll60 \/ Flags
           \/ \E byte \in {"leds", "rate", "data"} : Send60(byte)
           \/ \E command \in {"ae", "d0", "d1"} : Send64(command)
           \/ UNCHANGED vars
    BY <1>1, <1>a
    DEF vars, Press, Release, Repeat, HostKey, Transfer, Enter, In60, Decode, Idle, Resume, Sti,
        UserReturns, Eoi, Iret, GetKey, Poll60, Send60, Send64, Ports, Flags
<1>2. ASSUME NEW type \in EventTypes, HostMouse(type) PROVE MouseInv'
    BY <1>2, <1>b, <1>c, AddEventKeeps DEF HostMouse
<1>3. CASE Limit
    BY <1>3, <1>b, <1>c, LimitEventsKeeps DEF Limit
<1>4. CASE Int74
    BY <1>4, <1>b, <1>c, TakeKeeps DEF Int74
<1>5. CASE Ret
    BY <1>5, <1>b, <1>c, UserIntReturnedKeeps DEF Ret
<1>6. CASE ResetDriver
    <2>1. PICK known \in BOOLEAN : mouse' = Reset(mouse, known)
        BY <1>6 DEF ResetDriver, Driver
    <2> QED BY <1>6, <2>1, <1>b, <1>c, CallsKeep DEF ResetDriver
<1>7. CASE SetVideoMode
    <2>1. PICK known \in BOOLEAN : mouse' = NewVideoMode(mouse, known)
        BY <1>7 DEF SetVideoMode, Driver
    <2> QED BY <1>7, <2>1, <1>b, <1>c, CallsKeep DEF SetVideoMode
<1>8. CASE SetSubroutine
    <2>1. PICK types \in SUBSET EventTypes : mouse' = DefineSubroutine(mouse, types)
        BY <1>8 DEF SetSubroutine, Driver, EventTypes
    <2> QED BY <1>8, <2>1, <1>b, <1>c, CallsKeep DEF SetSubroutine
<1>9. CASE SaveDriver
    BY <1>9 DEF SaveDriver, Driver, MouseInv
<1>10. CASE LoadDriver
    <2>1. LoadState(mouse, saved) \in Drivers
        BY DEF LoadState, MouseInv, Drivers
    <2> QED BY <1>10, <2>1 DEF LoadDriver, Driver, MouseInv
<1> QED BY <1>1, <1>2, <1>3, <1>4, <1>5, <1>6, <1>7, <1>8, <1>9, <1>10 DEF Next

\* The mouse's timer flag says whether its event is queued, and while an event waits the
\* timer runs, although the host, the event itself and the end of the handler arm it and a
\* new video mode takes it away; a state that the guest loads is the one exception.
THEOREM MouseKeepsMoving == Spec => []MouseMoves
<1>1. MouseInv => MouseMoves
    BY DEF MouseInv, TimerRuns, MouseMoves
<1> QED BY <1>1, MouseInit, MouseStep, PTL DEF Spec

-----------------------------------------------------------------------------
(* The keyboard: what waits in its buffer, and on port 60 *)

\* A transfer is queued once if scheduled; what is buffered waits for it or for a reader.
BufferServed(k) ==
    /\ k.transfers = IF k.scheduled THEN 1 ELSE 0
    /\ k.buffer # <<>> => k.scheduled \/ k.changed

LEMMA ScheduleKeeps ==
    ASSUME NEW k \in Boards
    PROVE  /\ Schedule(k) \in Boards
           /\ Schedule(k).scheduled = TRUE /\ Schedule(k).transfers = k.transfers + 1
           /\ Schedule(k).buffer = k.buffer /\ Schedule(k).changed = k.changed
<1> DEFINE t == k.transfers + 1
<1>1. t \in Nat
    BY DEF Boards
<1>2. Schedule(k) = [k EXCEPT !.scheduled = TRUE, !.transfers = t]
    BY DEF Schedule
<1> HIDE DEF t
<1>3. /\ Schedule(k) \in Boards
      /\ Schedule(k).scheduled = TRUE /\ Schedule(k).transfers = t
      /\ Schedule(k).buffer = k.buffer /\ Schedule(k).changed = k.changed
    BY <1>1, <1>2 DEF Boards
<1> QED BY <1>3 DEF t

LEMMA AddBufferKeeps ==
    ASSUME NEW k \in Boards, BufferServed(k), NEW code \in CodeRecords
    PROVE  LET r == AddBuffer(k, code)
           IN r \in Boards /\ BufferServed(r) /\ r.changed = k.changed
<1> DEFINE q == Append(k.buffer, code)
           b == [k EXCEPT !.buffer = q]
<1>1. q \in Seq(CodeRecords)
    BY DEF Boards
<1>2. AddBuffer(k, code) = k
      \/ AddBuffer(k, code) = IF ~k.scheduled /\ ~k.changed THEN Schedule(b) ELSE b
    BY DEF AddBuffer, Boards
<1> HIDE DEF q
<1>3. b \in Boards /\ b.scheduled = k.scheduled /\ b.changed = k.changed /\ b.transfers = k.transfers
    BY <1>1 DEF Boards
<1> HIDE DEF b
<1>4. /\ Schedule(b) \in Boards /\ Schedule(b).scheduled = TRUE
      /\ Schedule(b).transfers = b.transfers + 1 /\ Schedule(b).changed = b.changed
    BY <1>3, ScheduleKeeps
<1> QED BY <1>2, <1>3, <1>4 DEF BufferServed, Boards

LEMMA AddAllKeeps ==
    ASSUME NEW k \in Boards, BufferServed(k), NEW codes,
           Len(codes) \in 1 .. 3, \A i \in 1 .. Len(codes) : codes[i] \in CodeRecords
    PROVE  LET r == AddAll(k, codes)
           IN r \in Boards /\ BufferServed(r) /\ r.changed = k.changed
<1> DEFINE first  == AddBuffer(k, codes[1])
           second == AddBuffer(first, codes[2])
           third  == AddBuffer(second, codes[3])
<1>1. first \in Boards /\ BufferServed(first) /\ first.changed = k.changed
    BY AddBufferKeeps
<1>2. ASSUME Len(codes) # 1
      PROVE second \in Boards /\ BufferServed(second) /\ second.changed = k.changed
    <2>1. codes[2] \in CodeRecords
        BY <1>2
    <2> HIDE DEF first
    <2> QED BY <2>1, <1>1, AddBufferKeeps
<1>3. ASSUME Len(codes) # 1, Len(codes) # 2
      PROVE third \in Boards /\ BufferServed(third) /\ third.changed = k.changed
    <2>1. codes[3] \in CodeRecords
        BY <1>3
    <2> HIDE DEF second
    <2> QED BY <2>1, <1>2, <1>3, AddBufferKeeps
<1>4. AddAll(k, codes) = IF Len(codes) = 1 THEN first ELSE IF Len(codes) = 2 THEN second ELSE third
    BY DEF AddAll
<1> HIDE DEF first, second, third
<1> QED BY <1>1, <1>2, <1>3, <1>4

LEMMA CodesTyped ==
    ASSUME NEW key \in Keys, NEW down \in BOOLEAN, NEW tag \in Nat, NEW was \in BOOLEAN
    PROVE  LET codes == CodesOf(key, down, tag, was)
           IN Len(codes) \in 1 .. 3 /\ \A i \in 1 .. Len(codes) : codes[i] \in CodeRecords
<1>1. \A name \in KeyNames, d \in BOOLEAN, t \in Nat : Code(name, d, t, was) \in CodeRecords
    BY DEF Code, CodeRecords
<1>2. tag + 1 \in Nat /\ tag + 2 \in Nat /\ tag + 3 \in Nat /\ key \in KeyNames
    BY DEF KeyNames
<1> DEFINE one   == Code(key, down, tag + 1, was)
           e0    == Code("e0", FALSE, tag + 1, was)
           up    == Code("up", down, tag + 2, was)
           e1    == Code("e1", FALSE, tag + 1, was)
           ctrl  == Code("ctrl", down, tag + 2, was)
           num   == Code("num", down, tag + 3, was)
<1>3. {one, e0, up, e1, ctrl, num} \subseteq CodeRecords
    <2>1. {"e0", "up", "e1", "ctrl", "num"} \subseteq KeyNames
        BY DEF KeyNames, Keys
    <2> QED BY <2>1, <1>1, <1>2
<1>4. CodesOf(key, down, tag, was) \in {<<one>>, <<e0, up>>, <<e1, ctrl, num>>}
    BY DEF CodesOf, Keys
<1> HIDE DEF one, e0, up, e1, ctrl, num
<1> QED BY <1>3, <1>4

LEMMA AddKeyKeeps ==
    ASSUME NEW k \in Boards, BufferServed(k), NEW key \in Keys, NEW down \in BOOLEAN,
           NEW codes, Len(codes) \in 1 .. 3, \A i \in 1 .. Len(codes) : codes[i] \in CodeRecords
    PROVE  LET r == AddKey(k, key, down, codes)
           IN r \in Boards /\ BufferServed(r) /\ r.changed = k.changed
<1> DEFINE name == IF down THEN key ELSE NoKey
           n == [k EXCEPT !.repeat = name]
<1>1. name \in Keys \cup {NoKey}
    OBVIOUS
<1> HIDE DEF name
<1>2. n \in Boards /\ BufferServed(n) /\ n.changed = k.changed
    BY <1>1 DEF Boards, BufferServed
<1>3. AddKey(k, key, down, codes) = AddAll(k, codes) \/ AddKey(k, key, down, codes) = AddAll(n, codes)
    BY DEF AddKey, name
<1> HIDE DEF n
<1> QED BY <1>2, <1>3, AddAllKeeps

LEMMA TransferKeeps ==
    ASSUME NEW k \in Boards, BufferServed(k), k.transfers > 0
    PROVE  LET r == TransferBuffer(k)
           IN /\ r \in Boards /\ BufferServed(r)
              /\ r.changed => k.changed \/ k.buffer # <<>>
<1> DEFINE l == k.transfers - 1
           t == [k EXCEPT !.scheduled = FALSE, !.transfers = l]
<1>0. l \in Nat /\ l = 0
    BY DEF Boards, BufferServed
<1>a. TransferBuffer(k) = IF k.buffer = <<>> THEN t
                          ELSE [SetPort60(t, Head(k.buffer)) EXCEPT !.buffer = Tail(@)]
    BY DEF TransferBuffer
<1> HIDE DEF l
<1>1. t \in Boards /\ t.scheduled = FALSE /\ t.transfers = 0 /\ t.buffer = k.buffer /\ t.changed = k.changed
    BY <1>0 DEF Boards
<1>2. CASE k.buffer = <<>>
    BY <1>1, <1>2, <1>a DEF BufferServed
<1>3. CASE k.buffer # <<>>
    <2>1. Head(k.buffer) \in CodeRecords /\ Tail(k.buffer) \in Seq(CodeRecords)
        BY <1>3 DEF Boards
    <2> HIDE DEF t
    <2>2. TransferBuffer(k) = [t EXCEPT !.changed = TRUE, !.port60 = Head(k.buffer), !.buffer = Tail(k.buffer)]
        BY <1>3, <1>1, <1>a DEF SetPort60, Boards
    <2>3. TransferBuffer(k) \in Boards /\ TransferBuffer(k).changed = TRUE
          /\ TransferBuffer(k).scheduled = FALSE /\ TransferBuffer(k).transfers = 0
        BY <2>1, <2>2, <1>1 DEF Boards
    <2> QED BY <2>3, <1>3 DEF BufferServed
<1> QED BY <1>2, <1>3

LEMMA ReadP60Keeps ==
    ASSUME NEW k \in Boards, BufferServed(k)
    PROVE  ReadP60(k) \in Boards /\ BufferServed(ReadP60(k)) /\ ~ReadP60(k).changed
<1> DEFINE r == [k EXCEPT !.changed = FALSE]
<1>1. r \in Boards /\ r.changed = FALSE /\ r.scheduled = k.scheduled
      /\ r.transfers = k.transfers /\ r.buffer = k.buffer
    BY DEF Boards
<1>2. ReadP60(k) = IF ~k.scheduled /\ k.buffer # <<>> THEN Schedule(r) ELSE r
    BY DEF ReadP60
<1> HIDE DEF r
<1>3. /\ Schedule(r) \in Boards /\ Schedule(r).scheduled = TRUE
      /\ Schedule(r).transfers = r.transfers + 1 /\ Schedule(r).changed = r.changed
    BY <1>1, ScheduleKeeps
<1>4. CASE ~k.scheduled /\ k.buffer # <<>>
    BY <1>1, <1>2, <1>3, <1>4 DEF BufferServed, Boards
<1>5. CASE ~(~k.scheduled /\ k.buffer # <<>>)
    BY <1>1, <1>2, <1>5 DEF BufferServed, Boards
<1> QED BY <1>4, <1>5

LEMMA WritesKeep ==
    ASSUME NEW k \in Boards, BufferServed(k)
    PROVE  /\ \A byte \in {"leds", "rate", "data"} :
                  LET r == WriteP60(k, byte)
                  IN r \in Boards /\ BufferServed(r) /\ r.changed = k.changed
           /\ \A command \in {"ae", "d0", "d1"} :
                  LET r == WriteP64(k, command)
                  IN r \in Boards /\ BufferServed(r) /\ (command # "d0" => r.changed = k.changed)
<1>1. Ack \in CodeRecords /\ Outport \in CodeRecords
    BY DEF Ack, Outport, Code, CodeRecords, KeyNames
<1>2. ASSUME NEW c \in Commands
      PROVE  LET r == AddBuffer([ClrBuffer(k) EXCEPT !.command = c], Ack)
             IN r \in Boards /\ BufferServed(r) /\ r.changed = k.changed
    <2> DEFINE e == [ClrBuffer(k) EXCEPT !.command = c]
    <2>1. <<>> \in Seq(CodeRecords)
        OBVIOUS
    <2>2. e \in Boards /\ BufferServed(e) /\ e.changed = k.changed
        BY <2>1, <1>2 DEF ClrBuffer, Boards, BufferServed
    <2> HIDE DEF e
    <2>3. LET r == AddBuffer(e, Ack) IN r \in Boards /\ BufferServed(r) /\ r.changed = e.changed
        BY <2>2, <1>1, AddBufferKeeps
    <2> QED BY <2>2, <2>3 DEF e
<1>3. ASSUME NEW byte \in {"leds", "rate", "data"}
      PROVE  LET r == WriteP60(k, byte)
             IN r \in Boards /\ BufferServed(r) /\ r.changed = k.changed
    <2>1. CASE k.command = "none"
        <3> DEFINE c == IF byte \in {"leds", "rate"} THEN byte ELSE k.command
        <3>1. c \in Commands
            BY DEF Boards, Commands
        <3>2. WriteP60(k, byte) = AddBuffer([ClrBuffer(k) EXCEPT !.command = c], Ack)
            BY <2>1 DEF WriteP60, ClrBuffer, Boards
        <3> HIDE DEF c
        <3> QED BY <3>1, <3>2, <1>2
    <2>2. CASE k.command = "outport"
        <3>1. WriteP60(k, byte) = [k EXCEPT !.command = "none"]
            BY <2>2 DEF WriteP60
        <3> QED BY <3>1 DEF Boards, BufferServed, Commands
    <2>3. CASE k.command # "none" /\ k.command # "outport"
        <3>1. WriteP60(k, byte) = AddBuffer([ClrBuffer(k) EXCEPT !.command = "none"], Ack)
            BY <2>3 DEF WriteP60
        <3>2. "none" \in Commands
            BY DEF Commands
        <3> QED BY <3>1, <3>2, <1>2
    <2> QED BY <2>1, <2>2, <2>3
<1>4. ASSUME NEW command \in {"ae", "d0", "d1"}
      PROVE  LET r == WriteP64(k, command)
             IN r \in Boards /\ BufferServed(r) /\ (command # "d0" => r.changed = k.changed)
    <2>1. CASE command = "ae"
        <3>1. WriteP64(k, command)
                = IF k.buffer # <<>> /\ ~k.scheduled /\ ~k.changed THEN Schedule(k) ELSE k
            BY <2>1 DEF WriteP64
        <3> QED BY <3>1, ScheduleKeeps DEF BufferServed, Boards
    <2>2. CASE command = "d0"
        <3>1. WriteP64(k, command) = [k EXCEPT !.changed = TRUE, !.port60 = Outport]
            BY <2>2 DEF WriteP64, SetPort60
        <3> QED BY <3>1, <2>2, <1>1 DEF BufferServed, Boards
    <2>3. CASE command = "d1"
        <3>1. WriteP64(k, command) = [k EXCEPT !.command = "outport"]
            BY <2>3 DEF WriteP64
        <3> QED BY <3>1 DEF BufferServed, Boards, Commands
    <2> QED BY <2>1, <2>2, <2>3
<1> QED BY <1>3, <1>4

-----------------------------------------------------------------------------
(* The keyboard: what is on port 60 *)

Reads(stack) == \E i \in 1 .. Len(stack) : stack[i].pc = "in60"

KeyboardInv ==
    /\ keyb \in Boards /\ BufferServed(keyb)
    /\ sent \in Nat
    /\ steps \in Seq(StepRecords) /\ Len(steps) = Len(handlers)
    /\ keyb.changed => 1 \in pic.active \/ Reads(steps)

\* The innermost handler goes on: the others, and what they are about to read, stay.
LEMMA GotoKeeps ==
    ASSUME NEW s \in Seq(StepRecords), s # <<>>, s[Len(s)].pc # "in60", NEW pc \in Pcs
    PROVE  LET r == [s EXCEPT ![Len(s)].pc = pc]
           IN r \in Seq(StepRecords) /\ Len(r) = Len(s) /\ (Reads(s) => Reads(r))
<1> DEFINE n == Len(s)
           e == [s[n] EXCEPT !.pc = pc]
           r == [s EXCEPT ![n] = e]
<1>1. n \in 1 .. n /\ s[n] \in StepRecords
    OBVIOUS
<1>2. e \in StepRecords
    BY <1>1 DEF StepRecords
<1> HIDE DEF e
<1>3. r \in Seq(StepRecords) /\ Len(r) = n /\ \A i \in 1 .. n : i # n => r[i] = s[i]
    BY <1>1, <1>2
<1>4. Reads(s) => Reads(r)
    BY <1>3 DEF Reads
<1>5. [s EXCEPT ![Len(s)].pc = pc] = r
    BY DEF e
<1> HIDE DEF r
<1> QED BY <1>3, <1>4, <1>5

LEMMA AtTop ==
    ASSUME KeyboardInv, NEW pc, At(pc)
    PROVE  steps # <<>> /\ steps[Len(steps)].pc = pc /\ handlers # <<>>
           /\ Len(steps) \in 1 .. Len(steps)
BY DEF KeyboardInv, At, InHandler

LEMMA KeyboardInit == Init => KeyboardInv
<1> SUFFICES ASSUME Init PROVE KeyboardInv
    OBVIOUS
<1>1. <<>> \in Seq(CodeRecords) /\ <<>> \in Seq(StepRecords)
    OBVIOUS
<1>2. Ack \in CodeRecords
    BY DEF Ack, Code, CodeRecords, KeyNames
<1>3. keyb \in Boards /\ BufferServed(keyb) /\ ~keyb.changed
    BY <1>1, <1>2 DEF Init, InitKeyb, Boards, BufferServed, Commands
<1> QED BY <1>1, <1>3 DEF Init, PicInit, KeyboardInv

\* A step of the controller other than the start of a handler takes no request of IRQ 1.
LEMMA ActiveKept ==
    ASSUME PicTypeOK
    PROVE  /\ WriteEOI => pic'.active = pic.active
           /\ SetFlag \/ DisableInterrupts => pic'.active = pic.active
           /\ \A i : ActivateIRQ(pic, i).active = pic.active \cup {i}
           /\ \A i, b : SetIRQMask(pic, i, b).active = pic.active
           /\ \A c, m : WriteMask(pic, c, m).active = pic.active
<1>1. WriteEOI => pic'.active = pic.active
    BY HandlerEOIKeeps DEF WriteEOI, PicTypeOK
<1>2. SetFlag \/ DisableInterrupts => pic'.active = pic.active
    BY DEF SetFlag, DisableInterrupts
<1>3. \A i : ActivateIRQ(pic, i).active = pic.active \cup {i}
    BY DEF ActivateIRQ, PicTypeOK, Controllers
<1>4. \A i, b : SetIRQMask(pic, i, b).active = pic.active
    BY DEF SetIRQMask, Rechecked, PicTypeOK, Controllers
<1>5. \A c, m : WriteMask(pic, c, m).active = pic.active
    BY DEF WriteMask, Rechecked, PicTypeOK, Controllers
<1> QED BY <1>1, <1>2, <1>3, <1>4, <1>5

LEMMA HostKeyKeeps ==
    ASSUME KeyboardInv, NEW key \in Keys, NEW down \in BOOLEAN, HostKey(key, down)
    PROVE  KeyboardInv'
<1> DEFINE was == "shift" \in held
           codes == CodesOf(key, down, sent, was)
<1>1. was \in BOOLEAN /\ sent \in Nat
    BY DEF KeyboardInv
<1>2. keyb' = AddKey(keyb, key, down, codes) /\ sent' = sent + Len(codes)
    BY DEF HostKey
<1>3. UNCHANGED <<pic, handlers, steps>>
    BY DEF HostKey, picVars
<1> HIDE DEF was
<1>4. Len(codes) \in 1 .. 3 /\ \A i \in 1 .. Len(codes) : codes[i] \in CodeRecords
    BY <1>1, CodesTyped
<1> HIDE DEF codes
<1>5. keyb' \in Boards /\ BufferServed(keyb') /\ keyb'.changed = keyb.changed
    BY <1>2, <1>4, AddKeyKeeps DEF KeyboardInv
<1>6. sent' \in Nat
    BY <1>1, <1>2, <1>4
<1> QED BY <1>3, <1>5, <1>6 DEF KeyboardInv

LEMMA EnterKeeps ==
    ASSUME KeyboardInv, PicTypeOK, Enter
    PROVE  KeyboardInv'
<1> DEFINE i == First(Startable(pic))
           step == [pc |-> IF i = 1 THEN "in60" ELSE "sti", code |-> Ack]
<1>1. pic' = StartIRQ(pic, i) /\ handlers' = Append(handlers, [irq |-> i, ended |-> FALSE])
    BY DEF Enter, Interrupt
<1>2. steps' = Append(steps, step) /\ UNCHANGED <<keyb, sent>>
    BY DEF Enter, inputVars
<1> HIDE DEF i
<1>3. pic'.active = pic.active \ {i}
    BY <1>1 DEF StartIRQ, PicTypeOK, Controllers
<1>4. step \in StepRecords
    BY DEF StepRecords, Pcs, Ack, Code, CodeRecords, KeyNames
<1>5. step.pc = "in60" <=> i = 1
    OBVIOUS
<1> HIDE DEF step
<1>6. /\ steps' \in Seq(StepRecords) /\ Len(steps') = Len(steps) + 1
      /\ steps'[Len(steps) + 1] = step /\ \A k \in 1 .. Len(steps) : steps'[k] = steps[k]
    BY <1>2, <1>4 DEF KeyboardInv
<1>7. Len(steps') = Len(handlers')
    BY <1>1, <1>6 DEF KeyboardInv, PicTypeOK
<1>8. Reads(steps) \/ i = 1 => Reads(steps')
    <2>1. Len(steps) + 1 \in 1 .. Len(steps') /\ \A k \in 1 .. Len(steps) : k \in 1 .. Len(steps')
        BY <1>6 DEF KeyboardInv
    <2> QED BY <2>1, <1>5, <1>6 DEF Reads
<1> QED BY <1>2, <1>3, <1>6, <1>7, <1>8 DEF KeyboardInv

LEMMA In60Keeps ==
    ASSUME KeyboardInv, In60
    PROVE  KeyboardInv'
<1> DEFINE step == [pc |-> "decode", code |-> keyb.port60]
<1>1. keyb' = ReadP60(keyb) /\ steps' = [steps EXCEPT ![Len(steps)] = step]
      /\ UNCHANGED <<pic, handlers, sent>>
    BY DEF In60, picVars, inputVars
<1>2. keyb' \in Boards /\ BufferServed(keyb') /\ ~keyb'.changed
    BY <1>1, ReadP60Keeps DEF KeyboardInv
<1>3. step \in StepRecords
    BY DEF StepRecords, Pcs, KeyboardInv, Boards
<1> HIDE DEF step
<1>4. steps' \in Seq(StepRecords) /\ Len(steps') = Len(steps)
    BY <1>1, <1>3, AtTop DEF In60, KeyboardInv
<1> QED BY <1>1, <1>2, <1>4 DEF KeyboardInv

LEMMA EndKeepsLength ==
    ASSUME PicTypeOK, WriteEOI
    PROVE  Len(handlers') = Len(handlers)
BY DEF WriteEOI, PicTypeOK

LEMMA IretKeeps ==
    ASSUME KeyboardInv, PicTypeOK, Iret
    PROVE  KeyboardInv'
<1> DEFINE n == Len(steps)
<1>1. At("iret") /\ PopFrame /\ steps' = SubSeq(steps, 1, n - 1) /\ UNCHANGED <<pic, keyb, sent>>
    BY DEF Iret, PopFrame, inputVars
<1>2. n \in 1 .. n /\ steps[n].pc = "iret" /\ steps # <<>>
    BY <1>1, AtTop
<1>3. steps \in Seq(StepRecords) /\ n \in Nat \ {0} /\ n = Len(handlers)
    BY <1>2 DEF KeyboardInv
<1>4. /\ steps' \in Seq(StepRecords) /\ Len(steps') = n - 1
      /\ \A k \in 1 .. n - 1 : steps'[k] = steps[k]
    BY <1>1, <1>3, SubSeqProperties
<1>5. Len(handlers') = n - 1
    <2>1. handlers' = SubSeq(handlers, 1, n - 1) /\ handlers # <<>> /\ handlers \in Seq(StackFrames)
        BY <1>1, <1>3 DEF PopFrame, Outer, PicTypeOK
    <2> QED BY <2>1, <1>3, OuterElements
<1>6. Reads(steps) => Reads(steps')
    <2> SUFFICES ASSUME NEW k \in 1 .. n, steps[k].pc = "in60" PROVE Reads(steps')
        BY DEF Reads
    <2>1. k # n
        BY <1>2
    <2>2. k \in 1 .. n - 1
        BY <2>1, <1>3
    <2> QED BY <2>2, <1>4 DEF Reads
<1> HIDE DEF n
<1>7. n - 1 \in Nat
    BY <1>3
<1> QED BY <1>1, <1>4, <1>5, <1>6 DEF KeyboardInv

\* A step that leaves the keyboard and the stack alone and takes no request of IRQ 1.
LEMMA KeyboardKept ==
    ASSUME KeyboardInv, UNCHANGED <<keyb, sent, steps, handlers>>,
           pic.active \subseteq pic'.active
    PROVE  KeyboardInv'
BY DEF KeyboardInv

\* A step of the innermost handler that is not the reading of port 60.
LEMMA HandlerKept ==
    ASSUME KeyboardInv, NEW from \in Pcs \ {"in60"}, At(from), NEW to \in Pcs, Goto(to),
           UNCHANGED <<keyb, sent>>, Len(handlers') = Len(handlers), pic'.active = pic.active
    PROVE  KeyboardInv'
<1>1. steps # <<>> /\ steps[Len(steps)].pc = from
    BY AtTop
<1>2. steps' \in Seq(StepRecords) /\ Len(steps') = Len(steps) /\ (Reads(steps) => Reads(steps'))
    BY <1>1, GotoKeeps DEF Goto, KeyboardInv
<1> QED BY <1>2 DEF KeyboardInv

\* A step of the guest's ports.
LEMMA PortsKept ==
    ASSUME KeyboardInv, UNCHANGED <<sent, steps, handlers>>,
           keyb' \in Boards, BufferServed(keyb'), pic.active \subseteq pic'.active,
           keyb'.changed => keyb.changed \/ 1 \in pic'.active
    PROVE  KeyboardInv'
BY DEF KeyboardInv

LEMMA KeyboardStep == KeyboardInv /\ PicTypeOK /\ [Next]_vars => KeyboardInv'
<1> SUFFICES ASSUME KeyboardInv, PicTypeOK, [Next]_vars PROVE KeyboardInv'
    OBVIOUS
<1>a. keyb \in Boards /\ BufferServed(keyb)
    BY DEF KeyboardInv
<1>b. \A pc \in {"decode", "idle", "sti", "int74", "user", "ret", "eoi", "iret"} : pc \in Pcs \ {"in60"}
    BY DEF Pcs
<1>1. ASSUME NEW key \in Keys, Press(key) \/ Release(key) PROVE KeyboardInv'
    BY <1>1, HostKeyKeeps DEF Press, Release
<1>2. CASE Repeat
    <2>1. keyb.repeat \in Keys /\ HostKey(keyb.repeat, TRUE)
        BY <1>2, <1>a DEF Repeat, Boards
    <2> QED BY <2>1, HostKeyKeeps
<1>3. ASSUME NEW type \in EventTypes, HostMouse(type) PROVE KeyboardInv'
    <2>1. pic.active \subseteq pic'.active
        BY <1>3, ActiveKept DEF HostMouse
    <2> QED BY <1>3, <2>1, KeyboardKept DEF HostMouse
<1>4. CASE Transfer
    <2>1. keyb' \in Boards /\ BufferServed(keyb') /\ (keyb'.changed => keyb.changed \/ keyb.buffer # <<>>)
        BY <1>4, <1>a, TransferKeeps DEF Transfer
    <2>2. pic.active \subseteq pic'.active /\ (keyb.buffer # <<>> => 1 \in pic'.active)
        BY <1>4, ActiveKept DEF Transfer
    <2> QED BY <1>4, <2>1, <2>2, PortsKept DEF Transfer, inputVars
<1>5. CASE Limit
    <2>1. pic.active \subseteq pic'.active
        BY <1>5, ActiveKept DEF Limit
    <2> QED BY <1>5, <2>1, KeyboardKept DEF Limit, inputVars
<1>6. CASE Enter
    BY <1>6, EnterKeeps
<1>7. CASE In60
    BY <1>7, In60Keeps
<1>8. CASE Decode
    <2>1. PICK to \in {"idle", "eoi"} : Goto(to)
        BY <1>8 DEF Decode
    <2>2. At("decode") /\ UNCHANGED <<keyb, sent>>
        BY <1>8 DEF Decode, inputVars
    <2>3. CASE WriteEOI
        BY <2>1, <2>2, <2>3, <1>b, ActiveKept, EndKeepsLength, HandlerKept
    <2>4. CASE UNCHANGED picVars
        BY <2>1, <2>2, <2>4, <1>b, HandlerKept DEF picVars
    <2> QED BY <1>8, <2>3, <2>4 DEF Decode
<1>9. CASE Idle
    BY <1>9, KeyboardKept DEF Idle, SetFlag, inputVars
<1>10. CASE Resume
    BY <1>10, <1>b, HandlerKept DEF Resume, DisableInterrupts, inputVars
<1>11. CASE Sti
    BY <1>11, <1>b, HandlerKept DEF Sti, SetFlag, inputVars
<1>12. CASE Int74
    <2>1. PICK to \in {"user", "ret"} : Goto(to)
        BY <1>12 DEF Int74
    <2> QED BY <1>12, <2>1, <1>b, HandlerKept DEF Int74, picVars
<1>13. CASE UserReturns
    BY <1>13, <1>b, HandlerKept DEF UserReturns, picVars, inputVars
<1>14. CASE Ret
    BY <1>14, <1>b, HandlerKept DEF Ret, DisableInterrupts, inputVars
<1>15. CASE Eoi
    BY <1>15, <1>b, ActiveKept, EndKeepsLength, HandlerKept DEF Eoi, inputVars
<1>16. CASE Iret
    BY <1>16, IretKeeps
<1>17. CASE GetKey
    BY <1>17, KeyboardKept DEF GetKey, SetFlag, inputVars
<1>18. CASE Poll60
    BY <1>18, <1>a, ReadP60Keeps, PortsKept DEF Poll60, Ports
<1>19. CASE Flags
    <2>1. pic'.active = pic.active /\ UNCHANGED handlers
        BY <1>19, ActiveKept DEF Flags, Mask, SetFlag, DisableInterrupts
    <2> QED BY <1>19, <2>1, KeyboardKept DEF Flags, inputVars
<1>20. ASSUME NEW byte \in {"leds", "rate", "data"}, Send60(byte) PROVE KeyboardInv'
    BY <1>20, <1>a, WritesKeep, PortsKept DEF Send60, Ports
<1>21. ASSUME NEW command \in {"ae", "d0", "d1"}, Send64(command) PROVE KeyboardInv'
    <2>1. keyb' \in Boards /\ BufferServed(keyb') /\ (command # "d0" => keyb'.changed = keyb.changed)
        BY <1>21, <1>a, WritesKeep DEF Send64, Ports
    <2>2. pic.active \subseteq pic'.active /\ (command = "d0" => 1 \in pic'.active)
        BY <1>21, ActiveKept DEF Send64
    <2> QED BY <1>21, <2>1, <2>2, PortsKept DEF Send64, Ports
<1>22. CASE ResetDriver
    <2>1. pic'.active = pic.active
        <3>1. pic' = SetIRQMask(pic, 12, FALSE) \/ pic' = pic
            BY <1>22 DEF ResetDriver
        <3>2. SetIRQMask(pic, 12, FALSE).active = pic.active
            BY ActiveKept
        <3> QED BY <3>1, <3>2
    <2>2. UNCHANGED <<keyb, sent, steps, handlers>>
        BY <1>22 DEF ResetDriver, Driver
    <2> QED BY <2>1, <2>2, KeyboardKept
<1>23. CASE SetVideoMode \/ SetSubroutine \/ SaveDriver \/ LoadDriver
    BY <1>23, KeyboardKept DEF SetVideoMode, SetSubroutine, SaveDriver, LoadDriver, Driver
<1>24. CASE UNCHANGED vars
    BY <1>24, KeyboardKept DEF vars, picVars, inputVars
<1> QED
    BY <1>1, <1>2, <1>3, <1>4, <1>5, <1>6, <1>7, <1>8, <1>9, <1>10, <1>11, <1>12, <1>13, <1>14,
       <1>15, <1>16, <1>17, <1>18, <1>19, <1>20, <1>21, <1>22, <1>23, <1>24 DEF Next

-----------------------------------------------------------------------------
(* Where the handlers are *)

\* Which of the two handlers a place belongs to, and whether it has sent its EOI there.
PlaceOf(step, frame) ==
    /\ step.pc \in {"in60", "decode", "idle"} => frame.irq = 1
    /\ step.pc \in {"sti", "int74", "user", "ret"} => frame.irq = 12
    /\ frame.ended <=> step.pc \in {"idle", "iret"}

SubroutineInv ==
    /\ plain
    /\ pic.active \subseteq {1, 12}
    /\ \A k \in 1 .. Len(handlers) : handlers[k].irq \in {1, 12} /\ PlaceOf(steps[k], handlers[k])

Stacks ==
    /\ PicTypeOK
    /\ steps \in Seq(StepRecords) /\ Len(steps) = Len(handlers)

LEMMA SubroutineInit == Init => SubroutineInv
BY DEF Init, PicInit, InitPic, SubroutineInv

\* A step that leaves the stack alone and raises no other line.
LEMMA SubroutineKept ==
    ASSUME SubroutineInv, UNCHANGED <<handlers, steps, plain>>,
           pic'.active \subseteq pic.active \cup {1, 12}
    PROVE  SubroutineInv'
BY DEF SubroutineInv

\* The innermost handler goes on to a place that fits its line, and perhaps ends.
LEMMA PlaceKept ==
    ASSUME Stacks, SubroutineInv, handlers # <<>>, NEW pc \in Pcs, Goto(pc), UNCHANGED plain,
           pic'.active = pic.active,
           \/ handlers' = handlers /\ (pc \in {"idle", "iret"} <=> Top.ended)
           \/ /\ handlers' = [handlers EXCEPT ![Len(handlers)].ended = TRUE]
              /\ pc \in {"idle", "iret"},
           pc \in {"idle", "decode"} => Top.irq = 1,
           pc \in {"int74", "user", "ret"} => Top.irq = 12,
           pc \notin {"in60", "sti"}
    PROVE  SubroutineInv'
<1> DEFINE n == Len(handlers)
<1>1. n \in Nat \ {0} /\ n \in 1 .. n /\ handlers \in Seq(StackFrames)
      /\ steps \in Seq(StepRecords) /\ Len(steps) = n
    BY DEF Stacks, PicTypeOK
<1>2. steps' = [steps EXCEPT ![n] = [steps[n] EXCEPT !.pc = pc]]
    BY <1>1 DEF Goto
<1>3. handlers[n] \in StackFrames /\ steps[n] \in StepRecords
    BY <1>1
<1>4. /\ steps'[n].pc = pc
      /\ \A k \in 1 .. n : k # n => steps'[k] = steps[k]
    BY <1>1, <1>2, <1>3 DEF StepRecords
<1>5. /\ Len(handlers') = n
      /\ handlers'[n].irq = handlers[n].irq
      /\ \A k \in 1 .. n : k # n => handlers'[k] = handlers[k]
      /\ handlers'[n].ended <=> pc \in {"idle", "iret"}
    <2>1. CASE handlers' = handlers /\ (pc \in {"idle", "iret"} <=> Top.ended)
        BY <2>1 DEF Top
    <2>2. CASE handlers' = [handlers EXCEPT ![n].ended = TRUE] /\ pc \in {"idle", "iret"}
        BY <2>2, <1>1, <1>3 DEF StackFrames
    <2> QED BY <2>1, <2>2
<1>6. PlaceOf(steps'[n], handlers'[n])
    BY <1>4, <1>5 DEF PlaceOf, Top
<1>7. ASSUME NEW k \in 1 .. n
      PROVE  handlers'[k].irq \in {1, 12} /\ PlaceOf(steps'[k], handlers'[k])
    <2>1. CASE k = n
        BY <2>1, <1>1, <1>5, <1>6 DEF SubroutineInv
    <2>2. CASE k # n
        BY <2>2, <1>4, <1>5 DEF SubroutineInv
    <2> QED BY <2>1, <2>2
<1> QED BY <1>5, <1>7 DEF SubroutineInv

LEMMA SubroutineEnter ==
    ASSUME Stacks, SubroutineInv, Enter
    PROVE  SubroutineInv'
<1> DEFINE i == First(Startable(pic))
           n == Len(handlers)
           frame == [irq |-> i, ended |-> FALSE]
           step == [pc |-> IF i = 1 THEN "in60" ELSE "sti", code |-> Ack]
<1>1. pic' = StartIRQ(pic, i) /\ handlers' = Append(handlers, frame)
      /\ steps' = Append(steps, step) /\ UNCHANGED plain
    BY DEF Enter, Interrupt
<1>2. i \in {1, 12}
    <2>1. Startable(pic) # {} /\ Startable(pic) \subseteq pic.active
        BY DEF Enter, Interrupt, Startable, Deliverable
    <2>2. Startable(pic) \subseteq IRQ
        BY <2>1 DEF Stacks, PicTypeOK, Controllers
    <2>3. i \in Startable(pic)
        BY <2>1, <2>2, FirstOfLines
    <2> QED BY <2>1, <2>3 DEF SubroutineInv
<1> HIDE DEF i
<1>3. pic'.active \subseteq {1, 12}
    BY <1>1 DEF StartIRQ, Stacks, PicTypeOK, Controllers, SubroutineInv
<1>4. PlaceOf(step, frame) /\ frame.irq \in {1, 12}
    BY <1>2 DEF PlaceOf
<1> HIDE DEF step, frame
<1>5. /\ n \in Nat /\ Len(handlers') = n + 1 /\ handlers'[n + 1] = frame /\ steps'[n + 1] = step
      /\ \A k \in 1 .. n : handlers'[k] = handlers[k] /\ steps'[k] = steps[k]
    BY <1>1 DEF Stacks, PicTypeOK
<1>6. \A k \in 1 .. n + 1 : k \in 1 .. n \/ k = n + 1
    BY <1>5
<1> QED BY <1>1, <1>3, <1>4, <1>5, <1>6 DEF SubroutineInv

LEMMA SubroutineIret ==
    ASSUME Stacks, SubroutineInv, Iret
    PROVE  SubroutineInv'
<1> DEFINE n == Len(handlers)
<1>1. /\ n \in Nat \ {0} /\ handlers \in Seq(StackFrames) /\ steps \in Seq(StepRecords)
      /\ Len(steps) = n /\ handlers # <<>>
      /\ handlers' = SubSeq(handlers, 1, n - 1) /\ steps' = SubSeq(steps, 1, n - 1)
      /\ UNCHANGED <<pic, plain>>
    BY DEF Iret, At, InHandler, PopFrame, Outer, Stacks, PicTypeOK
<1>2. Len(handlers') = n - 1 /\ \A k \in 1 .. n - 1 : handlers'[k] = handlers[k]
    BY <1>1, OuterElements
<1>3. \A k \in 1 .. n - 1 : steps'[k] = steps[k]
    BY <1>1
<1>4. \A k \in 1 .. n - 1 : k \in 1 .. n
    BY <1>1
<1> QED BY <1>1, <1>2, <1>3, <1>4 DEF SubroutineInv

LEMMA TopPlaced ==
    ASSUME Stacks, SubroutineInv, NEW pc, At(pc)
    PROVE  /\ handlers # <<>> /\ PlaceOf(steps[Len(steps)], Top) /\ steps[Len(steps)].pc = pc
<1>1. Len(handlers) \in 1 .. Len(handlers)
    BY DEF At, InHandler, Stacks, PicTypeOK
<1> QED BY <1>1 DEF At, InHandler, SubroutineInv, Stacks, Top

LEMMA SubroutineStep == Stacks /\ SubroutineInv /\ [Next]_vars => SubroutineInv'
<1> SUFFICES ASSUME Stacks, SubroutineInv, [Next]_vars PROVE SubroutineInv'
    OBVIOUS
<1>a. PicTypeOK
    BY DEF Stacks
<1>b. \A pc : At(pc) => handlers # <<>> /\ PlaceOf(steps[Len(steps)], Top) /\ steps[Len(steps)].pc = pc
    BY TopPlaced
<1>1. CASE \/ \E key \in Keys : Press(key) \/ Release(key)
           \/ Repeat \/ Poll60 \/ Idle \/ GetKey \/ UNCHANGED vars
           \/ \E byte \in {"leds", "rate", "data"} : Send60(byte)
           \/ SetVideoMode \/ SetSubroutine \/ SaveDriver \/ LoadDriver
    BY <1>1, SubroutineKept
    DEF picVars, vars, Press, Release, Repeat, HostKey, Poll60, Send60, Ports, Idle, GetKey,
        SetFlag, SetVideoMode, SetSubroutine, SaveDriver, LoadDriver, Driver, inputVars
<1>2. ASSUME NEW type \in EventTypes, HostMouse(type) PROVE SubroutineInv'
    <2>1. pic'.active \subseteq pic.active \cup {1, 12}
        BY <1>2, <1>a, ActiveKept DEF HostMouse
    <2> QED BY <1>2, <2>1, SubroutineKept DEF HostMouse
<1>3. CASE Transfer \/ Limit
    <2>1. pic'.active \subseteq pic.active \cup {1, 12}
        BY <1>3, <1>a, ActiveKept DEF Transfer, Limit
    <2> QED BY <1>3, <2>1, SubroutineKept DEF Transfer, Limit
<1>4. CASE Enter
    BY <1>4, SubroutineEnter
<1>5. CASE In60
    <2>1. handlers # <<>> /\ Top.irq = 1 /\ ~Top.ended
        BY <1>5, <1>b DEF In60, PlaceOf
    <2> DEFINE n == Len(handlers)
               step == [pc |-> "decode", code |-> keyb.port60]
    <2>2. n \in 1 .. n /\ Len(steps) = n /\ steps \in Seq(StepRecords)
        BY <2>1 DEF Stacks, PicTypeOK
    <2>3. steps' = [steps EXCEPT ![n] = step] /\ UNCHANGED <<pic, handlers, plain>>
        BY <1>5, <2>2 DEF In60, picVars
    <2>4. PlaceOf(step, Top)
        BY <2>1 DEF PlaceOf
    <2> HIDE DEF step
    <2>5. steps'[n] = step /\ \A k \in 1 .. n : k # n => steps'[k] = steps[k]
        BY <2>2, <2>3
    <2> QED BY <2>3, <2>4, <2>5 DEF SubroutineInv, Top
<1>6. CASE Decode
    <2>1. handlers # <<>> /\ Top.irq = 1 /\ ~Top.ended
        BY <1>6, <1>b DEF Decode, PlaceOf
    <2>2. CASE Goto("idle") /\ WriteEOI
        BY <2>1, <2>2, <1>a, ActiveKept, PlaceKept DEF WriteEOI, Pcs
    <2>3. CASE Goto("eoi") /\ UNCHANGED picVars
        BY <2>1, <2>3, PlaceKept DEF picVars, Pcs
    <2> QED BY <1>6, <2>2, <2>3 DEF Decode
<1>7. CASE Resume
    <2>1. handlers # <<>> /\ Top.ended /\ Goto("iret") /\ DisableInterrupts
        BY <1>7, <1>b DEF Resume, PlaceOf
    <2> QED BY <2>1, PlaceKept DEF DisableInterrupts, Pcs
<1>8. CASE Sti
    <2>1. handlers # <<>> /\ Top.irq = 12 /\ ~Top.ended /\ SetFlag /\ Goto("int74")
        BY <1>8, <1>b DEF Sti, PlaceOf
    <2> QED BY <2>1, PlaceKept DEF SetFlag, Pcs
<1>9. CASE Int74
    <2>1. handlers # <<>> /\ Top.irq = 12 /\ ~Top.ended /\ UNCHANGED picVars
        BY <1>9, <1>b DEF Int74, PlaceOf
    <2>2. PICK pc \in {"user", "ret"} : Goto(pc)
        BY <1>9 DEF Int74
    <2> QED BY <2>1, <2>2, PlaceKept DEF picVars, Pcs
<1>10. CASE UserReturns
    <2>1. handlers # <<>> /\ Top.irq = 12 /\ ~Top.ended /\ UNCHANGED picVars /\ Goto("ret")
        BY <1>10, <1>b DEF UserReturns, PlaceOf
    <2> QED BY <2>1, PlaceKept DEF picVars, Pcs
<1>11. CASE Ret
    <2>1. handlers # <<>> /\ ~Top.ended /\ Goto("eoi") /\ DisableInterrupts
        BY <1>11, <1>b DEF Ret, PlaceOf
    <2> QED BY <2>1, PlaceKept DEF DisableInterrupts, Pcs
<1>12. CASE Eoi
    <2>1. handlers # <<>> /\ Goto("iret") /\ WriteEOI
        BY <1>12, <1>b DEF Eoi
    <2> QED BY <2>1, <1>a, ActiveKept, PlaceKept DEF WriteEOI, Pcs
<1>13. CASE Iret
    BY <1>13, SubroutineIret
<1>14. CASE Flags
    <2>1. pic'.active = pic.active /\ UNCHANGED <<handlers, plain>>
        BY <1>14, <1>a, ActiveKept DEF Flags, Mask, SetFlag, DisableInterrupts
    <2> QED BY <1>14, <2>1, SubroutineKept DEF Flags
<1>15. ASSUME NEW command \in {"ae", "d0", "d1"}, Send64(command) PROVE SubroutineInv'
    <2>1. pic'.active \subseteq pic.active \cup {1, 12}
        BY <1>15, <1>a, ActiveKept DEF Send64
    <2> QED BY <1>15, <2>1, SubroutineKept DEF Send64, Ports
<1>16. CASE ResetDriver
    <2>1. pic'.active = pic.active
        <3>1. pic' = SetIRQMask(pic, 12, FALSE) \/ pic' = pic
            BY <1>16 DEF ResetDriver
        <3>2. SetIRQMask(pic, 12, FALSE).active = pic.active
            BY <1>a, ActiveKept
        <3> QED BY <3>1, <3>2
    <2>2. UNCHANGED <<handlers, steps, plain>>
        BY <1>16 DEF ResetDriver, Driver
    <2> QED BY <2>1, <2>2, SubroutineKept
<1> QED
    BY <1>1, <1>2, <1>3, <1>4, <1>5, <1>6, <1>7, <1>8, <1>9, <1>10, <1>11, <1>12, <1>13, <1>14,
       <1>15, <1>16 DEF Next

-----------------------------------------------------------------------------
(* The machine implements Pic *)

LEMMA KeepsPic ==
    ASSUME UNCHANGED <<pic, enabled, handlers, plain>>
    PROVE  UNCHANGED picVars
BY DEF picVars

\* Every step of a handler comes at a place where Pic's handlers may take it: the EOI once
\* and before the iret, sti in the mouse's handler or after the EOI.
LEMMA StepIsPic == Stacks /\ SubroutineInv /\ [Next]_vars => [PicNext]_picVars
<1> SUFFICES ASSUME Stacks, SubroutineInv, [Next]_vars PROVE [PicNext]_picVars
    OBVIOUS
<1>a. 1 \in IRQ \ {Cascade} /\ 12 \in IRQ \ {Cascade} /\ 12 \in IRQ /\ 12 \in Nesting
    BY LinesAssumption DEF Cascade
<1>b. \A pc : At(pc) => handlers # <<>> /\ PlaceOf(steps[Len(steps)], Top) /\ steps[Len(steps)].pc = pc
    BY TopPlaced
<1>c. ASSUME Guest, SetFlag PROVE PicNext
    <2>1. handlers # <<>> => Top.irq = 12
        BY <1>c, <1>b DEF Guest, InHandler, PlaceOf
    <2>2. EnableInterrupts
        BY <2>1, <1>a, <1>c DEF EnableInterrupts
    <2> QED BY <2>2 DEF PicNext
<1>1. CASE \/ \E key \in Keys : Press(key) \/ Release(key)
           \/ Repeat \/ In60 \/ Int74 \/ UserReturns \/ Poll60
           \/ \E byte \in {"leds", "rate", "data"} : Send60(byte)
           \/ SetVideoMode \/ SetSubroutine \/ SaveDriver \/ LoadDriver
           \/ UNCHANGED vars
    BY <1>1, KeepsPic
    DEF picVars, vars, Press, Release, Repeat, HostKey, In60, Int74, UserReturns, Poll60, Send60, Ports,
        SetVideoMode, SetSubroutine, SaveDriver, LoadDriver, Driver
<1>2. ASSUME NEW type \in EventTypes, HostMouse(type) PROVE [PicNext]_picVars
    <2>1. CASE pic' = pic
        BY <1>2, <2>1, KeepsPic DEF HostMouse
    <2>2. CASE pic' = ActivateIRQ(pic, 12)
        BY <1>2, <2>2, <1>a DEF HostMouse, PicNext, Raise
    <2> QED BY <1>2, <2>1, <2>2 DEF HostMouse
<1>3. CASE Transfer
    <2>1. CASE pic' = pic
        BY <1>3, <2>1, KeepsPic DEF Transfer
    <2>2. CASE pic' = ActivateIRQ(pic, 1)
        BY <1>3, <2>2, <1>a DEF Transfer, PicNext, Raise
    <2> QED BY <1>3, <2>1, <2>2 DEF Transfer
<1>4. CASE Limit
    <2>1. CASE pic' = pic
        BY <1>4, <2>1, KeepsPic DEF Limit
    <2>2. CASE pic' = ActivateIRQ(pic, 12)
        BY <1>4, <2>2, <1>a DEF Limit, PicNext, Raise
    <2> QED BY <1>4, <2>1, <2>2 DEF Limit
<1>5. CASE Enter \/ Resume \/ Ret
    BY <1>5 DEF Enter, Resume, Ret, PicNext
<1>6. CASE Decode
    <2>1. CASE WriteEOI
        <3>1. handlers # <<>> /\ ~Top.ended
            BY <1>6, <1>b DEF Decode, PlaceOf
        <3> QED BY <2>1, <3>1 DEF EndOfInterrupt, PicNext
    <2> QED BY <1>6, <2>1 DEF Decode, picVars
<1>7. CASE Idle
    <2>1. Top.ended
        BY <1>7, <1>b DEF Idle, PlaceOf
    <2> QED BY <1>7, <2>1 DEF Idle, EnableInterrupts, PicNext
<1>8. CASE Sti
    <2>1. Top.irq = 12
        BY <1>8, <1>b DEF Sti, PlaceOf
    <2> QED BY <1>8, <2>1, <1>a DEF Sti, EnableInterrupts, PicNext
<1>9. CASE Eoi
    <2>1. handlers # <<>> /\ ~Top.ended
        BY <1>9, <1>b DEF Eoi, PlaceOf
    <2> QED BY <1>9, <2>1 DEF Eoi, EndOfInterrupt, PicNext
<1>10. CASE Iret
    <2>1. handlers # <<>> /\ Top.ended
        BY <1>10, <1>b DEF Iret, PlaceOf
    <2> QED BY <1>10, <2>1 DEF Iret, Return, PicNext
<1>11. CASE GetKey
    BY <1>11, <1>c DEF GetKey
<1>12. CASE Flags
    BY <1>12, <1>c DEF Flags, PicNext
<1>13. ASSUME NEW command \in {"ae", "d0", "d1"}, Send64(command) PROVE [PicNext]_picVars
    <2>1. CASE pic' = pic
        BY <1>13, <2>1, KeepsPic DEF Send64, Ports
    <2>2. CASE pic' = ActivateIRQ(pic, 1)
        BY <1>13, <2>2, <1>a DEF Send64, Ports, PicNext, Raise
    <2> QED BY <1>13, <2>1, <2>2 DEF Send64
<1>14. CASE ResetDriver
    <2>1. CASE pic' = pic
        BY <1>14, <2>1, KeepsPic DEF ResetDriver, Driver
    <2>2. CASE pic' = SetIRQMask(pic, 12, FALSE)
        <3>1. DeviceMask(12, FALSE)
            BY <1>14, <2>2 DEF ResetDriver, Driver, DeviceMask
        <3> QED BY <3>1, <1>a DEF PicNext
    <2> QED BY <1>14, <2>1, <2>2 DEF ResetDriver
<1> QED
    BY <1>1, <1>2, <1>3, <1>4, <1>5, <1>6, <1>7, <1>8, <1>9, <1>10, <1>11, <1>12, <1>13, <1>14 DEF Next

\* Types, stacks and places are inductive together: what a step does to the controller is
\* a step of Pic only where the handlers are where they should be.
MachineInv == PicTypeOK /\ KeyboardInv /\ SubroutineInv

LEMMA MachineInvStacks == MachineInv => Stacks
BY DEF MachineInv, KeyboardInv, Stacks

LEMMA MachineInvInit == Init => MachineInv
BY PicTypeInit, KeyboardInit, SubroutineInit DEF Init, MachineInv

LEMMA MachineInvStep == MachineInv /\ [Next]_vars => MachineInv'
<1> SUFFICES ASSUME MachineInv, [Next]_vars PROVE MachineInv'
    OBVIOUS
<1>1. Stacks
    BY MachineInvStacks
<1>2. PicTypeOK'
    BY <1>1, StepIsPic, PicTypeStep DEF MachineInv
<1>3. KeyboardInv'
    BY KeyboardStep DEF MachineInv
<1>4. SubroutineInv'
    BY <1>1, SubroutineStep DEF MachineInv
<1> QED BY <1>2, <1>3, <1>4 DEF MachineInv

LEMMA MachineInvHolds == Spec => []MachineInv
BY MachineInvInit, MachineInvStep, PTL DEF Spec

\* Keyboard, mouse, BIOS and guest together take no step that Pic does not allow: each
\* handler ends its own interrupt, once and before it returns, and lets others in only
\* where Pic's handlers may.
THEOREM MachineImplementsPic == Spec => PicSpec
<1>1. Init => PicInit
    BY DEF Init
<1>2. MachineInv /\ [Next]_vars => [PicNext]_picVars
    BY MachineInvStacks, StepIsPic DEF MachineInv
<1> QED BY <1>1, <1>2, MachineInvHolds, PTL DEF Spec, PicSpec

\* So what holds of the controller alone holds in the machine.
THEOREM MachineCheckCoherent == Spec => []CheckCoherent
BY MachineImplementsPic, CheckStaysCoherent

THEOREM MachineServiceIsStack ==
    ASSUME NestsAboveCascade
    PROVE  Spec => []ServiceIsStack
BY MachineImplementsPic, StackInService

\* The keyboard never stands still with a code in it: what is buffered waits for exactly
\* one event or for a reader of port 60, and what is on port 60 for IRQ 1 or for a handler
\* that is about to read it, whatever the guest writes to the ports, polls and masks.
THEOREM KeyboardKeepsMoving == Spec => []KeyboardMoves
<1>1. Spec => []PicTypeOK
    BY MachineImplementsPic, PicTypeCorrect, PTL
<1>2. KeyboardInv => KeyboardMoves
    BY DEF KeyboardInv, BufferServed, Reads, KeyboardMoves
<1> QED BY <1>1, <1>2, KeyboardInit, KeyboardStep, PTL DEF Spec

\* The devices' parts and the handlers' steps keep their types for every size of the
\* buffers: one step of a handler for every handler on the guest's stack, and the BIOS
\* only meets codes that the keyboard can send.
THEOREM MachineTypes == Spec => []TypeOK
<1>1. Spec => []PicTypeOK
    BY MachineImplementsPic, PicTypeCorrect, PTL
<1>2. PicTypeOK /\ KeyboardInv /\ MouseInv => TypeOK
    BY DEF KeyboardInv, MouseInv, TypeOK
<1> QED BY <1>1, <1>2, KeyboardInit, KeyboardStep, MouseInit, MouseStep, PTL DEF Spec

-----------------------------------------------------------------------------
(* The guest's subroutine is not entered twice *)

LEMMA OneRuns ==
    ASSUME Stacks, ServiceInv, SubroutineInv,
           NEW j \in Running({"user", "ret"}), NEW k \in Running({"user", "ret"})
    PROVE  j = k
<1>1. j \in 1 .. Len(handlers) /\ k \in 1 .. Len(handlers)
    BY DEF Stacks, Running
<1>2. handlers[j].irq = 12 /\ ~handlers[j].ended /\ handlers[k].irq = 12 /\ ~handlers[k].ended
    BY <1>1 DEF SubroutineInv, PlaceOf, Running
<1>3. ~(Rank(12) < Rank(12))
    BY RankBelow
<1>4. ~(j < k) /\ ~(k < j)
    BY <1>1, <1>2, <1>3 DEF ServiceInv, StackOrdered, SubroutineInv
<1> QED BY <1>1, <1>4

LEMMA OneUser ==
    ASSUME Stacks, ServiceInv, SubroutineInv
    PROVE  Cardinality(Running({"user"})) <= 1
<1> DEFINE users == Running({"user"})
<1>1. \A j, k \in users : j = k
    BY OneRuns DEF Running
<1> HIDE DEF users
<1>2. CASE users = {}
    BY <1>2, FS_EmptySet DEF users
<1>3. CASE users # {}
    <2>1. PICK k : users = {k}
        BY <1>1, <1>3
    <2> QED BY <2>1, FS_Singleton DEF users
<1> QED BY <1>2, <1>3

\* The driver's flag.
FlagInv ==
    ~loaded => /\ Running({"user"}) # {} /\ ~forgot => mouse.inUIR
               /\ mouse.inUIR => Running({"user", "ret"}) # {}

LEMMA FlagOf ==
    ASSUME NEW m \in Drivers, NEW types \in SUBSET EventTypes, NEW known \in BOOLEAN
    PROVE  /\ \A type \in EventTypes : AddEvent(m, type).inUIR = m.inUIR
           /\ LimitEvents(m).inUIR = m.inUIR
           /\ Take(m).inUIR = (m.inUIR \/ CallsUser(m))
           /\ UserIntReturned(m).inUIR = FALSE
           /\ NewVideoMode(m, known).inUIR = m.inUIR
           /\ Reset(m, known).inUIR = FALSE
           /\ DefineSubroutine(m, types).inUIR = m.inUIR
<1>1. ASSUME NEW type \in EventTypes PROVE AddEvent(m, type).inUIR = m.inUIR
    BY DEF AddEvent, Arm, Drivers
<1>2. LimitEvents(m).inUIR = m.inUIR
    BY DEF LimitEvents, Arm, Drivers
<1>3. Take(m).inUIR = (m.inUIR \/ CallsUser(m))
    <2>1. CASE m.queue = <<>>
        <3>1. CallsUser(m) = FALSE
            BY <2>1 DEF CallsUser
        <3> QED BY <2>1, <3>1 DEF Take, Drivers
    <2>2. CASE m.queue # <<>>
        BY <2>2 DEF Take, Drivers
    <2> QED BY <2>1, <2>2
<1>4. UserIntReturned(m).inUIR = FALSE
    BY DEF UserIntReturned, Arm, Drivers
<1>5. NewVideoMode(m, known).inUIR = m.inUIR /\ Reset(m, known).inUIR = FALSE
    BY DEF NewVideoMode, Reset, Drivers
<1>6. DefineSubroutine(m, types).inUIR = m.inUIR
    BY DEF DefineSubroutine, Drivers
<1> QED BY <1>1, <1>2, <1>3, <1>4, <1>5, <1>6

\* A step that leaves the flag, and the handlers in or behind the subroutine, alone.
LEMMA FlagKept ==
    ASSUME FlagInv, mouse'.inUIR = mouse.inUIR, UNCHANGED <<loaded, forgot>>,
           \A pcs \in {{"user"}, {"user", "ret"}} : Running(pcs)' = Running(pcs)
    PROVE  FlagInv'
BY DEF FlagInv

LEMMA RunningUnchanged ==
    ASSUME UNCHANGED steps
    PROVE  \A pcs \in {{"user"}, {"user", "ret"}} : Running(pcs)' = Running(pcs)
BY DEF Running

\* The innermost handler goes on.
LEMMA GotoPlaces ==
    ASSUME Stacks, handlers # <<>>, NEW to \in Pcs, Goto(to)
    PROVE  /\ Len(steps) \in 1 .. Len(steps) /\ Len(steps') = Len(steps)
           /\ \A k \in 1 .. Len(steps) :
                steps'[k].pc = IF k = Len(steps) THEN to ELSE steps[k].pc
<1> DEFINE n == Len(steps)
           e == [steps[n] EXCEPT !.pc = to]
<1>1. n \in 1 .. n /\ steps \in Seq(StepRecords) /\ steps[n] \in StepRecords
    BY DEF Stacks, PicTypeOK
<1>2. e.pc = to
    BY <1>1 DEF StepRecords
<1>3. steps' = [steps EXCEPT ![n] = e]
    BY DEF Goto
<1> HIDE DEF e
<1> QED BY <1>1, <1>2, <1>3

LEMMA RunningElsewhere ==
    ASSUME Stacks, NEW from, NEW to \in Pcs, At(from), Goto(to),
           from \notin {"user", "ret"}, to \notin {"user", "ret"}
    PROVE  \A pcs \in {{"user"}, {"user", "ret"}} : Running(pcs)' = Running(pcs)
<1>1. handlers # <<>> /\ steps[Len(steps)].pc = from
    BY DEF At, InHandler
<1>2. /\ Len(steps) \in 1 .. Len(steps) /\ Len(steps') = Len(steps)
      /\ \A k \in 1 .. Len(steps) : steps'[k].pc = IF k = Len(steps) THEN to ELSE steps[k].pc
    BY <1>1, GotoPlaces
<1> QED BY <1>1, <1>2 DEF Running

LEMMA FlagEnter ==
    ASSUME Stacks, FlagInv, Enter
    PROVE  FlagInv'
<1> DEFINE i == First(Startable(pic))
           step == [pc |-> IF i = 1 THEN "in60" ELSE "sti", code |-> Ack]
<1>1. steps' = Append(steps, step) /\ UNCHANGED <<mouse, loaded, forgot>>
    BY DEF Enter, inputVars
<1>2. step.pc \notin {"user", "ret"}
    OBVIOUS
<1> HIDE DEF step
<1>3. PICK n : n = Len(steps)
    OBVIOUS
<1>4. /\ n \in Nat /\ Len(steps') = n + 1 /\ steps'[n + 1] = step
      /\ \A k \in 1 .. n : steps'[k] = steps[k]
    BY <1>1, <1>3 DEF Stacks
<1>5. \A k : k \in 1 .. n + 1 <=> k \in 1 .. n \/ k = n + 1
    BY <1>4
<1>6. \A pcs \in {{"user"}, {"user", "ret"}} : Running(pcs)' = Running(pcs)
    BY <1>2, <1>3, <1>4, <1>5 DEF Running
<1> QED BY <1>1, <1>6, FlagKept

LEMMA FlagIn60 ==
    ASSUME Stacks, FlagInv, In60
    PROVE  FlagInv'
<1> DEFINE step == [pc |-> "decode", code |-> keyb.port60]
<1>1. /\ handlers # <<>> /\ steps[Len(steps)].pc = "in60"
      /\ steps' = [steps EXCEPT ![Len(steps)] = step] /\ UNCHANGED <<mouse, loaded, forgot>>
    BY DEF In60, At, InHandler, inputVars
<1>2. step.pc = "decode"
    OBVIOUS
<1> HIDE DEF step
<1>3. /\ Len(steps) \in 1 .. Len(steps) /\ Len(steps') = Len(steps)
      /\ \A k \in 1 .. Len(steps) : steps'[k] = IF k = Len(steps) THEN step ELSE steps[k]
    BY <1>1 DEF Stacks, PicTypeOK
<1>4. \A pcs \in {{"user"}, {"user", "ret"}} : Running(pcs)' = Running(pcs)
    BY <1>1, <1>2, <1>3 DEF Running
<1> QED BY <1>1, <1>4, FlagKept

LEMMA FlagIret ==
    ASSUME Stacks, FlagInv, Iret
    PROVE  FlagInv'
<1>1. PICK n : n = Len(steps)
    OBVIOUS
<1>2. /\ handlers # <<>> /\ steps[n].pc = "iret"
      /\ steps' = SubSeq(steps, 1, n - 1) /\ UNCHANGED <<mouse, loaded, forgot>>
    BY <1>1 DEF Iret, At, InHandler, inputVars
<1>3. n \in Nat \ {0} /\ steps \in Seq(StepRecords)
    BY <1>1, <1>2 DEF Stacks, PicTypeOK
<1>4. Len(steps') = n - 1 /\ \A k \in 1 .. n - 1 : steps'[k] = steps[k]
    BY <1>1, <1>2, <1>3, SubSeqProperties
<1>5. \A k : k \in 1 .. n <=> k \in 1 .. n - 1 \/ k = n
    BY <1>3
<1>6. \A pcs \in {{"user"}, {"user", "ret"}} : Running(pcs)' = Running(pcs)
    BY <1>1, <1>2, <1>4, <1>5 DEF Running
<1> QED BY <1>2, <1>6, FlagKept

\* The flag is raised with the call.
LEMMA FlagInt74 ==
    ASSUME Stacks, mouse \in Drivers, FlagInv, Int74
    PROVE  FlagInv'
<1> DEFINE to == IF CallsUser(mouse) THEN "user" ELSE "ret"
<1>1. /\ handlers # <<>> /\ steps[Len(steps)].pc = "int74" /\ Goto(to)
      /\ UNCHANGED <<loaded, forgot>>
    BY DEF Int74, At, InHandler
<1>2. to \in Pcs /\ to \in {"user", "ret"} /\ (to = "user" <=> CallsUser(mouse))
    BY DEF Pcs
<1>3. mouse'.inUIR = (mouse.inUIR \/ CallsUser(mouse))
    BY FlagOf DEF Int74
<1> HIDE DEF to
<1>4. /\ Len(steps) \in 1 .. Len(steps) /\ Len(steps') = Len(steps)
      /\ \A k \in 1 .. Len(steps) : steps'[k].pc = IF k = Len(steps) THEN to ELSE steps[k].pc
    BY <1>1, <1>2, GotoPlaces
<1>5. Len(steps) \in Running({"user", "ret"})'
    BY <1>2, <1>4 DEF Running
<1>6. ASSUME Running({"user"})' # {} PROVE CallsUser(mouse) \/ Running({"user"}) # {}
    <2>1. PICK k \in 1 .. Len(steps) : steps'[k].pc = "user"
        BY <1>4, <1>6 DEF Running
    <2> QED BY <2>1, <1>2, <1>4 DEF Running
<1> QED BY <1>1, <1>3, <1>5, <1>6 DEF FlagInv

\* And taken back behind it, when nothing else is in the subroutine.
LEMMA FlagUserReturns ==
    ASSUME Stacks, ServiceInv, SubroutineInv, FlagInv, UserReturns
    PROVE  FlagInv'
<1>1. /\ handlers # <<>> /\ steps[Len(steps)].pc = "user" /\ Goto("ret")
      /\ UNCHANGED <<mouse, loaded>>
    BY DEF UserReturns, At, InHandler
<1>2. "ret" \in Pcs
    BY DEF Pcs
<1>3. /\ Len(steps) \in 1 .. Len(steps) /\ Len(steps') = Len(steps)
      /\ \A k \in 1 .. Len(steps) : steps'[k].pc = IF k = Len(steps) THEN "ret" ELSE steps[k].pc
    BY <1>1, <1>2, GotoPlaces
<1>4. Len(steps) \in Running({"user", "ret"})'
    BY <1>3 DEF Running
<1>5. Len(steps) \in Running({"user", "ret"})
    BY <1>1, <1>3 DEF Running
<1>6. Running({"user"})' = {}
    <2> SUFFICES ASSUME NEW k \in 1 .. Len(steps), steps'[k].pc = "user" PROVE FALSE
        BY <1>3 DEF Running
    <2>1. k # Len(steps) /\ k \in Running({"user", "ret"})
        BY <1>3 DEF Running
    <2> QED BY <2>1, <1>5, OneRuns
<1> QED BY <1>1, <1>4, <1>6 DEF FlagInv

LEMMA FlagRet ==
    ASSUME Stacks, ServiceInv, SubroutineInv, mouse \in Drivers, FlagInv, Ret
    PROVE  FlagInv'
<1>1. /\ handlers # <<>> /\ steps[Len(steps)].pc = "ret" /\ Goto("eoi")
      /\ UNCHANGED <<loaded, forgot>>
    BY DEF Ret, At, InHandler, inputVars
<1>2. "eoi" \in Pcs
    BY DEF Pcs
<1>3. mouse'.inUIR = FALSE
    BY FlagOf DEF Ret
<1>4. /\ Len(steps) \in 1 .. Len(steps) /\ Len(steps') = Len(steps)
      /\ \A k \in 1 .. Len(steps) : steps'[k].pc = IF k = Len(steps) THEN "eoi" ELSE steps[k].pc
    BY <1>1, <1>2, GotoPlaces
<1>5. Len(steps) \in Running({"user", "ret"})
    BY <1>1, <1>4 DEF Running
<1>6. Running({"user"})' = {}
    <2> SUFFICES ASSUME NEW k \in 1 .. Len(steps), steps'[k].pc = "user" PROVE FALSE
        BY <1>4 DEF Running
    <2>1. k # Len(steps) /\ k \in Running({"user", "ret"})
        BY <1>4 DEF Running
    <2> QED BY <2>1, <1>5, OneRuns
<1> QED BY <1>3, <1>6 DEF FlagInv

LEMMA FlagReset ==
    ASSUME Stacks, mouse \in Drivers, FlagInv, ResetDriver
    PROVE  FlagInv'
<1>1. PICK known \in BOOLEAN : mouse' = Reset(mouse, known)
    BY DEF ResetDriver, Driver
<1>2. mouse'.inUIR = FALSE
    BY <1>1, FlagOf
<1>3. UNCHANGED steps /\ forgot' = (forgot \/ InHandler)
    BY DEF ResetDriver, Driver
<1>4. ASSUME Running({"user"})' # {} PROVE forgot'
    <2>1. Len(steps) # 0
        BY <1>3, <1>4 DEF Running
    <2>2. handlers # <<>>
        BY <2>1 DEF Stacks, PicTypeOK
    <2> QED BY <2>2, <1>3 DEF InHandler
<1> QED BY <1>2, <1>4 DEF FlagInv

LEMMA FlagStep ==
    Stacks /\ ServiceInv /\ SubroutineInv /\ MouseInv /\ FlagInv /\ [Next]_vars => FlagInv'
<1> SUFFICES ASSUME Stacks, ServiceInv, SubroutineInv, MouseInv, FlagInv, [Next]_vars PROVE FlagInv'
    OBVIOUS
<1>a. mouse \in Drivers
    BY DEF MouseInv
<1>1. CASE \/ \E key \in Keys : Press(key) \/ Release(key)
           \/ Repeat \/ Transfer \/ Idle \/ GetKey \/ Poll60 \/ Flags \/ SaveDriver
           \/ \E byte \in {"leds", "rate", "data"} : Send60(byte)
           \/ \E command \in {"ae", "d0", "d1"} : Send64(command)
           \/ UNCHANGED vars
    BY <1>1, FlagKept, RunningUnchanged
    DEF vars, inputVars, Press, Release, Repeat, HostKey, Transfer, Idle, GetKey, Poll60, Send60,
        Send64, Ports, Flags, SaveDriver, Driver
<1>2. ASSUME NEW type \in EventTypes, HostMouse(type) PROVE FlagInv'
    BY <1>2, <1>a, FlagOf, FlagKept, RunningUnchanged DEF HostMouse
<1>3. CASE Limit
    BY <1>3, <1>a, FlagOf, FlagKept, RunningUnchanged DEF Limit, inputVars
<1>4. CASE Enter \/ In60 \/ Iret
    BY <1>4, FlagEnter, FlagIn60, FlagIret
<1>5. CASE Decode \/ Resume \/ Sti \/ Eoi
    <2>1. PICK from, to \in {"decode", "idle", "sti", "int74", "eoi", "iret"} : At(from) /\ Goto(to)
        BY <1>5 DEF Decode, Resume, Sti, Eoi
    <2>2. to \in Pcs
        BY DEF Pcs
    <2>3. \A pcs \in {{"user"}, {"user", "ret"}} : Running(pcs)' = Running(pcs)
        BY <2>1, <2>2, RunningElsewhere
    <2>4. UNCHANGED <<mouse, loaded, forgot>>
        BY <1>5 DEF Decode, Resume, Sti, Eoi, inputVars
    <2> QED BY <2>3, <2>4, FlagKept
<1>6. CASE Int74
    BY <1>6, <1>a, FlagInt74
<1>7. CASE UserReturns
    BY <1>7, FlagUserReturns
<1>8. CASE Ret
    BY <1>8, <1>a, FlagRet
<1>9. CASE ResetDriver
    BY <1>9, <1>a, FlagReset
<1>10. CASE SetVideoMode
    <2>1. PICK known \in BOOLEAN : mouse' = NewVideoMode(mouse, known)
        BY <1>10 DEF SetVideoMode, Driver
    <2>2. UNCHANGED <<steps, loaded, forgot>>
        BY <1>10 DEF SetVideoMode, Driver
    <2> QED BY <2>1, <2>2, <1>a, FlagOf, FlagKept, RunningUnchanged
<1>11. CASE SetSubroutine
    <2>1. PICK types \in SUBSET EventTypes : mouse' = DefineSubroutine(mouse, types)
        BY <1>11 DEF SetSubroutine, Driver, EventTypes
    <2>2. UNCHANGED <<steps, loaded, forgot>>
        BY <1>11 DEF SetSubroutine, Driver
    <2> QED BY <2>1, <2>2, <1>a, FlagOf, FlagKept, RunningUnchanged
<1>12. CASE LoadDriver
    BY <1>12 DEF LoadDriver, FlagInv
<1> QED
    BY <1>1, <1>2, <1>3, <1>4, <1>5, <1>6, <1>7, <1>8, <1>9, <1>10, <1>11, <1>12 DEF Next

LEMMA FlagInit == Init => FlagInv
BY DEF Init, InitMouse, FlagInv, Running

\* The guest's mouse subroutine is never entered while it runs, however keys, buttons,
\* masks and the timer interleave: INT 74's handler lets others in before it has ended its
\* interrupt, but until then the controller starts no second one of line 12.  So the flag
\* that mouse.cpp only logs tells when it runs: the handler that takes it back is the one
\* that has set it.
THEOREM SubroutineRunsOnce ==
    ASSUME NestsAboveCascade
    PROVE  Spec => []OneSubroutine
<1>1. PicInit => ServiceInv
    BY ServiceInit
<1>2. ServiceInv /\ [PicNext]_picVars => ServiceInv'
    BY ServiceStep
<1>3. Spec => []ServiceInv
    <2>1. PicSpec => []ServiceInv
        BY <1>1, <1>2, PTL DEF PicSpec
    <2> QED BY <2>1, MachineImplementsPic, PTL
<1>4. Spec => []MouseInv
    BY MouseInit, MouseStep, PTL DEF Spec
<1>5. MachineInv => Stacks /\ SubroutineInv
    BY MachineInvStacks DEF MachineInv
<1>6. Stacks /\ ServiceInv /\ SubroutineInv /\ FlagInv => OneSubroutine
    BY OneUser DEF FlagInv, OneSubroutine
<1> QED BY <1>3, <1>4, <1>5, <1>6, MachineInvHolds, FlagInit, FlagStep, PTL DEF Spec

-----------------------------------------------------------------------------
(* Buttons reach the guest in order *)

Clicks == [made : EventTypes \ {Moved}, taken : EventTypes \ {Moved}, gone : BOOLEAN]

ClickInv ==
    /\ clicks \in Clicks
    /\ ~clicks.gone => Len(mouse.queue) <= QueueSize /\ ClicksPaired

LEMMA ClickInit == Init => ClickInv
<1> SUFFICES ASSUME Init PROVE ClickInv
    OBVIOUS
<1>1. mouse.queue = <<>> /\ clicks = [made |-> "released", taken |-> "released", gone |-> FALSE]
    BY DEF Init, InitMouse
<1>2. Buttons = {0}
    BY <1>1 DEF Buttons
<1>3. Len(mouse.queue) <= QueueSize
    BY <1>1, QueueSizeAssumption
<1> QED BY <1>1, <1>2, <1>3 DEF ClickInv, Clicks, ClicksPaired, ButtonAt, EventTypes, Moved

\* What the queue's operators do to the queue itself.
LEMMA QueueOf ==
    ASSUME NEW m \in Drivers, NEW types \in SUBSET EventTypes, NEW known \in BOOLEAN
    PROVE  /\ \A type \in EventTypes :
                AddEvent(m, type).queue =
                    IF Len(m.queue) < QueueSize /\ ~(type = Moved /\ m.queue # <<>>)
                    THEN Append(m.queue, type) ELSE m.queue
           /\ LimitEvents(m).queue = m.queue
           /\ UserIntReturned(m).queue = m.queue
           /\ Take(m).queue = IF m.queue = <<>> THEN <<>> ELSE Tail(m.queue)
           /\ NewVideoMode(m, known).queue = IF known THEN <<>> ELSE m.queue
           /\ Reset(m, known).queue = IF known THEN <<>> ELSE m.queue
           /\ DefineSubroutine(m, types).queue = m.queue
<1>1. ASSUME NEW n \in Drivers, NEW q PROVE [n EXCEPT !.queue = q].queue = q
    BY DEF Drivers
<1>2. ASSUME NEW n, NEW q, n = [m EXCEPT !.queue = q] PROVE n.queue = q /\ Arm(n).queue = q
    BY <1>2 DEF Arm, Drivers
<1>3. ASSUME NEW type \in EventTypes
      PROVE  AddEvent(m, type).queue =
                 IF Len(m.queue) < QueueSize /\ ~(type = Moved /\ m.queue # <<>>)
                 THEN Append(m.queue, type) ELSE m.queue
    BY <1>2 DEF AddEvent, Drivers
<1>4. LimitEvents(m).queue = m.queue /\ UserIntReturned(m).queue = m.queue
    BY DEF LimitEvents, UserIntReturned, Arm, Drivers
<1>5. Take(m).queue = IF m.queue = <<>> THEN <<>> ELSE Tail(m.queue)
    BY DEF Take, Drivers
<1>6. /\ NewVideoMode(m, known).queue = IF known THEN <<>> ELSE m.queue
      /\ Reset(m, known).queue = IF known THEN <<>> ELSE m.queue
      /\ DefineSubroutine(m, types).queue = m.queue
    BY DEF NewVideoMode, Reset, DefineSubroutine, Drivers
<1> QED BY <1>3, <1>4, <1>5, <1>6

\* A step that leaves queue and clicks alone, or only forgets that clicks are complete.
LEMMA ClicksKept ==
    ASSUME ClickInv, mouse'.queue = mouse.queue,
           clicks' = clicks \/ clicks' = [clicks EXCEPT !.gone = TRUE]
    PROVE  ClickInv'
<1>1. CASE clicks' = clicks
    BY <1>1 DEF ClickInv, ClicksPaired, Buttons, ButtonAt
<1>2. CASE clicks' = [clicks EXCEPT !.gone = TRUE]
    BY <1>2 DEF ClickInv, Clicks
<1> QED BY <1>1, <1>2

\* An event appended alternates with the last button before it.
LEMMA ClickAppended ==
    ASSUME mouse \in Drivers, ClickInv, ~clicks.gone, NEW type \in EventTypes,
           mouse'.queue = Append(mouse.queue, type), type # Moved => type # clicks.made,
           clicks' = [clicks EXCEPT !.made = IF type = Moved THEN @ ELSE type]
    PROVE  ClicksPaired'
<1>0. PICK n : n = Len(mouse.queue)
    OBVIOUS
<1>1. /\ n \in Nat /\ mouse.queue \in Seq(EventTypes)
      /\ Len(mouse'.queue) = n + 1 /\ mouse'.queue[n + 1] = type
      /\ \A i \in 1 .. n : mouse'.queue[i] = mouse.queue[i]
    BY <1>0 DEF Drivers
<1>2. clicks'.taken = clicks.taken /\ clicks'.made = (IF type = Moved THEN clicks.made ELSE type)
    BY DEF ClickInv, Clicks
<1>3. Buttons' = IF type = Moved THEN Buttons ELSE Buttons \cup {n + 1}
    <2>1. \A i : i \in Buttons' <=> i = 0 \/ (i \in 1 .. n + 1 /\ mouse'.queue[i] # Moved)
        BY <1>1 DEF Buttons
    <2>2. \A i : i \in Buttons <=> i = 0 \/ (i \in 1 .. n /\ mouse.queue[i] # Moved)
        BY <1>0 DEF Buttons
    <2>3. \A i : i \in 1 .. n + 1 <=> i \in 1 .. n \/ i = n + 1
        BY <1>1
    <2>4. n + 1 \notin 1 .. n
        BY <1>1
    <2>5. \A i : i \in Buttons' <=> i \in Buttons \/ (i = n + 1 /\ type # Moved)
        BY <2>1, <2>2, <2>3, <2>4, <1>1
    <2> QED BY <2>5
<1>4. Buttons \subseteq 0 .. n
    BY <1>0, <1>1 DEF Buttons
<1>5. \A i \in Buttons : ButtonAt(i)' = ButtonAt(i)
    BY <1>1, <1>2, <1>4 DEF ButtonAt
<1>6. PICK last \in Buttons : ButtonAt(last) = clicks.made /\ \A j \in Buttons : j <= last
    BY DEF ClickInv, ClicksPaired
<1>7. ASSUME NEW i \in Buttons, NEW j \in Buttons, i < j, ButtonAt(i) = ButtonAt(j)
      PROVE  \E k \in Buttons : i < k /\ k < j
    BY <1>7 DEF ClickInv, ClicksPaired
<1>8. CASE type = Moved
    BY <1>2, <1>3, <1>5, <1>6, <1>7, <1>8 DEF ClicksPaired
<1>9. CASE type # Moved
    <2>1. n + 1 \in Buttons' /\ \A i \in Buttons : i \in Buttons' /\ i < n + 1
        BY <1>1, <1>3, <1>4, <1>9
    <2>2. ButtonAt(n + 1)' = type
        BY <1>1 DEF ButtonAt
    <2>3. \A j \in Buttons' : j <= n + 1
        BY <1>1, <1>3, <1>4, <1>9
    <2>4. ASSUME NEW i \in Buttons', NEW j \in Buttons', i < j, ButtonAt(i)' = ButtonAt(j)'
          PROVE  \E k \in Buttons' : i < k /\ k < j
        <3>1. CASE j = n + 1
            <4>1. i \in Buttons
                BY <2>4, <3>1, <1>1, <1>3, <1>9
            <4>2. ButtonAt(i) = type
                BY <4>1, <2>2, <2>4, <3>1, <1>5
            <4>3. i # last /\ i <= last
                BY <4>1, <4>2, <1>6, <1>9
            <4>4. i < last
                BY <4>1, <4>3, <1>1, <1>4
            <4> QED BY <4>4, <2>1, <3>1
        <3>2. CASE j # n + 1
            <4>1. j \in Buttons /\ i \in Buttons
                BY <2>4, <3>2, <1>1, <1>3, <1>4, <1>9
            <4>2. ButtonAt(i) = ButtonAt(j)
                BY <4>1, <2>4, <1>5
            <4>3. \E k \in Buttons : i < k /\ k < j
                BY <4>1, <4>2, <2>4, <1>7
            <4> QED BY <4>3, <2>1
        <3> QED BY <3>1, <3>2
    <2>5. clicks'.made = type
        BY <1>2, <1>9
    <2>6. \E i \in Buttons' : ButtonAt(i)' = clicks'.made /\ \A j \in Buttons' : j <= i
        BY <2>1, <2>2, <2>3, <2>5
    <2> QED BY <2>4, <2>6 DEF ClicksPaired
<1> QED BY <1>8, <1>9

\* Taking the oldest event moves those behind it one place to the front; a button taken
\* becomes the last one taken.
LEMMA ClickTaken ==
    ASSUME mouse \in Drivers, ClickInv, ~clicks.gone, mouse.queue # <<>>,
           mouse'.queue = Tail(mouse.queue),
           clicks' = IF Head(mouse.queue) = Moved THEN clicks
                     ELSE [clicks EXCEPT !.taken = Head(mouse.queue)]
    PROVE  ClicksPaired'
<1> DEFINE moved == mouse.queue[1] = Moved
<1>0. PICK n : n = Len(mouse.queue)
    OBVIOUS
<1>a. PICK was : was = [i \in 0 .. n - 1 |-> IF moved /\ i = 0 THEN 0 ELSE i + 1]
    OBVIOUS
<1>1. /\ n \in Nat \ {0} /\ mouse.queue \in Seq(EventTypes)
      /\ Len(mouse'.queue) = n - 1 /\ Head(mouse.queue) = mouse.queue[1]
      /\ \A i \in 1 .. n - 1 : mouse'.queue[i] = mouse.queue[i + 1]
    BY <1>0 DEF Drivers
<1>2. clicks'.made = clicks.made /\ clicks'.taken = (IF moved THEN clicks.taken ELSE mouse.queue[1])
    BY <1>1 DEF ClickInv, Clicks
<1>3. \A i : i \in Buttons' <=> i = 0 \/ (i \in 1 .. n - 1 /\ mouse'.queue[i] # Moved)
    BY <1>1 DEF Buttons
<1>4. \A i : i \in Buttons <=> i = 0 \/ (i \in 1 .. n /\ mouse.queue[i] # Moved)
    BY <1>0 DEF Buttons
<1>5. Buttons' \subseteq 0 .. n - 1 /\ Buttons \subseteq 0 .. n
    BY <1>1, <1>3, <1>4
<1>6. ASSUME NEW i \in Buttons' PROVE was[i] \in Buttons /\ ButtonAt(i)' = ButtonAt(was[i])
    <2>1. i \in 0 .. n - 1
        BY <1>5
    <2>2. CASE i = 0
        <3>1. was[i] = IF moved THEN 0 ELSE 1
            BY <1>a, <2>1, <2>2
        <3> QED BY <3>1, <2>2, <1>1, <1>2, <1>4 DEF ButtonAt
    <2>3. CASE i # 0
        <3>1. was[i] = i + 1 /\ i \in 1 .. n - 1 /\ i + 1 \in 1 .. n /\ i + 1 # 0
            BY <1>a, <2>1, <2>3, <1>1
        <3> QED BY <3>1, <2>3, <1>1, <1>3, <1>4 DEF ButtonAt
    <2> QED BY <2>2, <2>3
<1>7. ASSUME NEW i \in Buttons', NEW j \in Buttons'
      PROVE  (i < j <=> was[i] < was[j]) /\ (i = j <=> was[i] = was[j])
    BY <1>a, <1>1, <1>5
<1>8. ASSUME NEW k \in Buttons, k # 0 \/ moved
      PROVE  \E i \in Buttons' : was[i] = k
    <2>1. CASE k = 0
        <3>1. 0 \in Buttons' /\ was[0] = 0
            BY <1>a, <2>1, <1>1, <1>3, <1>8
        <3> QED BY <2>1, <3>1
    <2>2. CASE k = 1
        <3>1. ~moved
            BY <2>2, <1>4
        <3>2. 0 \in Buttons' /\ was[0] = 1
            BY <1>a, <3>1, <1>1, <1>3
        <3> QED BY <2>2, <3>2
    <2>3. CASE k # 0 /\ k # 1
        <3>1. k - 1 \in 1 .. n - 1 /\ k = (k - 1) + 1 /\ mouse.queue[k] # Moved
            BY <2>3, <1>1, <1>4, <1>5
        <3>2. k - 1 \in Buttons' /\ was[k - 1] = k
            BY <1>a, <3>1, <1>1, <1>3
        <3> QED BY <3>2
    <2> QED BY <2>1, <2>2, <2>3
<1>9. \E m \in Buttons' : ButtonAt(m)' = clicks'.made /\ \A j \in Buttons' : j <= m
    <2>1. PICK last \in Buttons : ButtonAt(last) = clicks.made /\ \A j \in Buttons : j <= last
        BY DEF ClickInv, ClicksPaired
    <2>2. last # 0 \/ moved
        <3>1. ~moved => 1 \in Buttons
            BY <1>1, <1>4
        <3> QED BY <3>1, <2>1, <1>5
    <2>3. PICK m \in Buttons' : was[m] = last
        BY <2>2, <1>8
    <2>4. ASSUME NEW j \in Buttons' PROVE j <= m
        <3>1. was[j] <= was[m]
            BY <2>1, <2>3, <1>6
        <3>2. was[j] \in 0 .. n /\ was[m] \in 0 .. n
            BY <1>5, <1>6
        <3>3. ~(m < j)
            BY <3>1, <3>2, <1>7
        <3> QED BY <3>3, <1>1, <1>5
    <2>5. ButtonAt(m)' = clicks'.made
        BY <2>1, <2>3, <1>2, <1>6
    <2> QED BY <2>4, <2>5
<1>10. ASSUME NEW i \in Buttons', NEW j \in Buttons', i < j, ButtonAt(i)' = ButtonAt(j)'
       PROVE  \E k \in Buttons' : i < k /\ k < j
    <2>1. was[i] \in Buttons /\ was[j] \in Buttons /\ was[i] < was[j] /\ ButtonAt(was[i]) = ButtonAt(was[j])
        BY <1>6, <1>7, <1>10
    <2>2. PICK b \in Buttons : was[i] < b /\ b < was[j]
        BY <2>1 DEF ClickInv, ClicksPaired
    <2>3. b # 0
        BY <2>1, <2>2, <1>5
    <2>4. PICK k \in Buttons' : was[k] = b
        BY <2>3, <1>8
    <2> QED BY <2>2, <2>4, <1>7
<1> QED BY <1>9, <1>10 DEF ClicksPaired

LEMMA ClickStep == MouseInv /\ ClickInv /\ [Next]_vars => ClickInv'
<1> SUFFICES ASSUME MouseInv, ClickInv, [Next]_vars PROVE ClickInv'
    OBVIOUS
<1>a. mouse \in Drivers /\ mouse.queue \in Seq(EventTypes) /\ Len(mouse.queue) \in Nat /\ clicks \in Clicks
    BY DEF MouseInv, Drivers, ClickInv
<1>1. CASE \/ \E key \in Keys : Press(key) \/ Release(key)
           \/ Repeat \/ Transfer \/ Enter \/ In60 \/ Decode \/ Idle \/ Resume \/ Sti \/ UserReturns
           \/ Eoi \/ Iret \/ GetKey \/ Poll60 \/ Flags
           \/ \E byte \in {"leds", "rate", "data"} : Send60(byte)
           \/ \E command \in {"ae", "d0", "d1"} : Send64(command)
           \/ UNCHANGED vars
    BY <1>1, ClicksKept
    DEF vars, inputVars, Press, Release, Repeat, HostKey, Transfer, Enter, In60, Decode, Idle, Resume,
        Sti, UserReturns, Eoi, Iret, GetKey, Poll60, Send60, Send64, Ports, Flags
<1>2. ASSUME NEW type \in EventTypes, HostMouse(type) PROVE ClickInv'
    <2> DEFINE made == IF type = Moved THEN clicks.made ELSE type
               gone == clicks.gone \/ ButtonGone(type)
    <2>1. gone \in BOOLEAN
        BY <1>a DEF Clicks, ButtonGone
    <2>2. clicks' = [clicks EXCEPT !.made = made, !.gone = gone] /\ (type # Moved => type # clicks.made)
        BY <1>2, <1>a DEF HostMouse, Clicks
    <2>3. made \in EventTypes \ {Moved}
        BY <1>a DEF Clicks
    <2>4. clicks' \in Clicks /\ clicks'.gone = gone
        BY <2>1, <2>2, <2>3, <1>a DEF Clicks
    <2>5. ASSUME ~gone PROVE Len(mouse.queue)' <= QueueSize /\ ClicksPaired'
        <3>1. mouse'.queue = IF Len(mouse.queue) < QueueSize /\ ~(type = Moved /\ mouse.queue # <<>>)
                             THEN Append(mouse.queue, type) ELSE mouse.queue
            BY <1>2, <1>a, QueueOf DEF HostMouse
        <3>2. ~clicks.gone /\ Len(mouse.queue) <= QueueSize
            BY <2>5 DEF ClickInv
        <3>3. clicks' = [clicks EXCEPT !.made = IF type = Moved THEN @ ELSE type]
            BY <2>2, <2>5, <3>2, <1>a DEF Clicks
        <3>4. CASE mouse'.queue = Append(mouse.queue, type) /\ Len(mouse.queue) < QueueSize
            <4>1. ClicksPaired'
                BY <3>2, <3>3, <3>4, <2>2, <1>a, ClickAppended
            <4>2. Len(mouse'.queue) = Len(mouse.queue) + 1
                BY <3>4, <1>a
            <4> QED BY <4>1, <4>2, <3>4, <1>a, QueueSizeAssumption
        <3>5. CASE mouse'.queue = mouse.queue /\ ~(Len(mouse.queue) < QueueSize /\ ~(type = Moved /\ mouse.queue # <<>>))
            <4>1. type = Moved
                BY <2>5, <3>2, <3>5, <1>a, QueueSizeAssumption DEF ButtonGone
            <4>2. clicks' = clicks
                BY <4>1, <3>3, <1>a DEF Clicks
            <4>3. ClickInv'
                BY <3>5, <4>2, ClicksKept
            <4> QED BY <4>3, <2>4, <2>5 DEF ClickInv
        <3> QED BY <3>1, <3>4, <3>5
    <2> QED BY <2>4, <2>5 DEF ClickInv
<1>3. CASE Limit
    BY <1>3, <1>a, QueueOf, ClicksKept DEF Limit, inputVars
<1>4. CASE Int74
    <2>1. CASE mouse.queue = <<>>
        BY <1>4, <2>1, <1>a, QueueOf, ClicksKept DEF Int74
    <2>2. CASE mouse.queue # <<>>
        <3>1. /\ mouse'.queue = Tail(mouse.queue) /\ Len(mouse'.queue) <= Len(mouse.queue)
              /\ Len(mouse'.queue) \in Nat /\ Head(mouse.queue) \in EventTypes
            <4>1. mouse'.queue = Tail(mouse.queue)
                BY <1>4, <2>2, <1>a, QueueOf DEF Int74
            <4>2. Len(Tail(mouse.queue)) = Len(mouse.queue) - 1 /\ Len(mouse.queue) > 0
                BY <2>2, <1>a
            <4>3. Head(mouse.queue) \in EventTypes
                BY <2>2, <1>a
            <4> QED BY <4>1, <4>2, <4>3, <1>a
        <3>2. clicks' = IF Head(mouse.queue) = Moved THEN clicks
                        ELSE [clicks EXCEPT !.taken = Head(mouse.queue)]
            BY <1>4, <2>2 DEF Int74
        <3>3. clicks' \in Clicks /\ clicks'.gone = clicks.gone
            BY <3>1, <3>2, <1>a DEF Clicks
        <3>4. ASSUME ~clicks.gone PROVE ClicksPaired'
            BY <3>1, <3>2, <3>4, <2>2, <1>a, ClickTaken
        <3> QED BY <3>1, <3>3, <3>4, <1>a, QueueSizeAssumption DEF ClickInv
    <2> QED BY <2>1, <2>2
<1>5. CASE Ret
    BY <1>5, <1>a, QueueOf, ClicksKept DEF Ret, inputVars
<1>6. CASE ResetDriver \/ SetVideoMode
    <2>a. PICK known \in BOOLEAN :
              /\ mouse' = NewVideoMode(mouse, known) \/ mouse' = Reset(mouse, known)
              /\ clicks' = [clicks EXCEPT !.gone = @ \/ (known /\ WaitingClicks)]
        BY <1>6 DEF ResetDriver, SetVideoMode, Driver
    <2>b. CASE ~known
        <3>1. mouse'.queue = mouse.queue
            BY <2>a, <2>b, <1>a, QueueOf
        <3>2. clicks' = clicks
            BY <2>a, <2>b, <1>a DEF Clicks
        <3> QED BY <3>1, <3>2, ClicksKept
    <2> SUFFICES ASSUME known PROVE ClickInv'
        BY <2>b
    <2>1. mouse'.queue = <<>> /\ clicks' = [clicks EXCEPT !.gone = @ \/ WaitingClicks]
        BY <2>a, <1>a, QueueOf
    <2>2. WaitingClicks \in BOOLEAN
        BY DEF WaitingClicks
    <2>3. clicks' \in Clicks /\ clicks'.made = clicks.made /\ clicks'.taken = clicks.taken
          /\ clicks'.gone = (clicks.gone \/ WaitingClicks)
        BY <2>1, <2>2, <1>a DEF Clicks
    <2>4. ASSUME ~clicks.gone, ~WaitingClicks PROVE ClicksPaired'
        <3>1. Buttons = {0} /\ Buttons' = {0}
            BY <2>1, <2>4 DEF Buttons, WaitingClicks
        <3>2. clicks.taken = clicks.made
            BY <3>1, <2>4 DEF ClickInv, ClicksPaired, ButtonAt
        <3> QED BY <3>1, <3>2, <2>3 DEF ClicksPaired, ButtonAt
    <2>5. Len(mouse'.queue) <= QueueSize
        BY <2>1, QueueSizeAssumption
    <2> QED BY <2>3, <2>4, <2>5 DEF ClickInv
<1>7. CASE SetSubroutine
    <2>1. PICK types \in SUBSET EventTypes :
              mouse' = DefineSubroutine(mouse, types) /\ clicks' = [clicks EXCEPT !.gone = @ \/ FALSE]
        BY <1>7 DEF SetSubroutine, Driver, EventTypes
    <2>2. clicks' = clicks
        BY <2>1, <1>a DEF Clicks
    <2> QED BY <2>1, <2>2, <1>a, QueueOf, ClicksKept
<1>8. CASE SaveDriver
    <2>1. clicks' = clicks /\ mouse' = mouse
        BY <1>8, <1>a DEF SaveDriver, Driver, Clicks
    <2> QED BY <2>1, ClicksKept
<1>9. CASE LoadDriver
    <2>1. clicks' \in Clicks /\ clicks'.gone
        BY <1>9, <1>a DEF LoadDriver, Driver, Clicks
    <2> QED BY <2>1 DEF ClickInv
<1> QED BY <1>1, <1>2, <1>3, <1>4, <1>5, <1>6, <1>7, <1>8, <1>9 DEF Next

\* Presses and releases of the button reach the guest alternately and in the host's
\* order, for every size of the queue, until one is dropped or the queue is emptied:
\* skipping and merging movements never takes a button's event away or changes places.
THEOREM ButtonsInOrder == Spec => []ClicksPaired
<1>1. ClickInv => ClicksPaired
    BY DEF ClickInv, ClicksPaired
<1> QED BY <1>1, MouseInit, MouseStep, ClickInit, ClickStep, PTL DEF Spec

-----------------------------------------------------------------------------
(* The host's codes on their way: sequences of codes *)

\* The host's codes in s are numbered m + 1 to n, in this order.
InOrder(s, m, n) ==
    LET theirs == {i \in 1 .. Len(s) : s[i].tag # 0}
    IN /\ {s[i].tag : i \in theirs} = m + 1 .. n
       /\ \A i, j \in theirs : i < j => s[i].tag < s[j].tag

\* A run of the shift flag over the codes of s, from its value before them to that after.
ShiftRuns(s, f, before, after) ==
    /\ f[1] = before /\ f[Len(s) + 1] = after
    /\ \A i \in 1 .. Len(s) : /\ s[i].key = "shift" => f[i + 1] = s[i].down
                              /\ s[i].tag # 0 => s[i].was = f[i]
    /\ \A i, j \in 1 .. Len(s) + 1 :
         i < j /\ (\A k \in i .. j - 1 : s[k].key # "shift") => f[i] = f[j]

\* Decoding s keeps prefixes with their keys and keystrokes with their shift state: e0 and
\* before are the flags at its start, after is whether the host holds a shift key.
Faithful(s, e0, before, after) ==
    /\ \A i \in 1 .. Len(s) : (s[i].tag = 0 => s[i].key = "ack") /\ s[i].key # "outport"
    /\ \A i \in 1 .. Len(s) : s[i].key = "up" => IF i = 1 THEN e0 ELSE s[i - 1].key = "e0"
    /\ \E f \in [1 .. Len(s) + 1 -> BOOLEAN] : ShiftRuns(s, f, before, after)

LEMMA InOrderAppend ==
    ASSUME NEW s \in Seq(CodeRecords), NEW c \in CodeRecords, NEW m \in Nat, NEW n \in Nat, m <= n,
           InOrder(s, m, n), c.tag = n + 1
    PROVE  InOrder(Append(s, c), m, n + 1)
<1> DEFINE r == Append(s, c)
           l == Len(s)
           theirs == {i \in 1 .. l : s[i].tag # 0}
           now == {i \in 1 .. l + 1 : r[i].tag # 0}
<1>1. l \in Nat /\ Len(r) = l + 1 /\ r[l + 1] = c /\ \A i \in 1 .. l : r[i] = s[i]
    OBVIOUS
<1>2. now = theirs \cup {l + 1}
    <2>1. \A i : i \in 1 .. l + 1 <=> i \in 1 .. l \/ i = l + 1
        BY <1>1
    <2>2. c.tag # 0
        OBVIOUS
    <2> QED BY <2>1, <2>2, <1>1
<1>3. {s[i].tag : i \in theirs} = m + 1 .. n /\ \A i, j \in theirs : i < j => s[i].tag < s[j].tag
    BY DEF InOrder
<1>4. \A i \in theirs : r[i].tag = s[i].tag /\ i \in 1 .. l
    BY <1>1
<1> HIDE DEF r, theirs, now
<1>5. {r[i].tag : i \in now} = {s[i].tag : i \in theirs} \cup {n + 1}
    BY <1>1, <1>2, <1>4
<1>6. m + 1 .. n + 1 = (m + 1 .. n) \cup {n + 1}
    OBVIOUS
<1>7. \A i \in theirs : r[i].tag \in m + 1 .. n
    BY <1>3, <1>4
<1>8. ASSUME NEW i \in now, NEW j \in now, i < j PROVE r[i].tag < r[j].tag
    <2>1. CASE j = l + 1
        BY <2>1, <1>1, <1>2, <1>7, <1>8
    <2>2. CASE j # l + 1
        BY <2>2, <1>1, <1>2, <1>3, <1>4, <1>8
    <2> QED BY <2>1, <2>2
<1>9. Len(r) = l + 1
    BY <1>1
<1> QED BY <1>3, <1>5, <1>6, <1>8, <1>9 DEF InOrder, now, r

LEMMA InOrderTail ==
    ASSUME NEW s \in Seq(CodeRecords), s # <<>>, NEW m \in Nat, NEW n \in Nat, m <= n,
           InOrder(s, m, n)
    PROVE  /\ s[1].tag = 0 => InOrder(Tail(s), m, n)
           /\ s[1].tag # 0 => s[1].tag = m + 1 /\ m + 1 <= n /\ InOrder(Tail(s), m + 1, n)
<1> DEFINE t == Tail(s)
           l == Len(s)
           theirs == {i \in 1 .. l : s[i].tag # 0}
           now == {i \in 1 .. l - 1 : t[i].tag # 0}
<1>1. l \in Nat \ {0} /\ Len(t) = l - 1 /\ \A i \in 1 .. l - 1 : t[i] = s[i + 1]
    BY HeadTailProperties
<1>2. {s[i].tag : i \in theirs} = m + 1 .. n /\ \A i, j \in theirs : i < j => s[i].tag < s[j].tag
    BY DEF InOrder
<1>3. ASSUME NEW i \in now PROVE i + 1 \in theirs /\ i + 1 # 1 /\ t[i].tag = s[i + 1].tag
    BY <1>1
<1>4. ASSUME NEW i \in theirs, i # 1 PROVE i - 1 \in now /\ t[i - 1].tag = s[i].tag
    <2>1. i - 1 \in 1 .. l - 1 /\ (i - 1) + 1 = i
        BY <1>1, <1>4
    <2> QED BY <2>1, <1>1
<1>5. theirs \subseteq Nat /\ now \subseteq Nat
    BY <1>1
<1>6. 1 \in theirs <=> s[1].tag # 0
    BY <1>1
<1> HIDE DEF t, theirs, now
<1>7. {t[i].tag : i \in now} = {s[i].tag : i \in theirs \ {1}}
    <2>1. ASSUME NEW i \in now PROVE \E j \in theirs \ {1} : t[i].tag = s[j].tag
        BY <1>3
    <2>2. ASSUME NEW j \in theirs \ {1} PROVE \E i \in now : t[i].tag = s[j].tag
        BY <1>4
    <2> QED BY <2>1, <2>2
<1>8. ASSUME NEW i \in now, NEW j \in now, i < j PROVE t[i].tag < t[j].tag
    BY <1>2, <1>3, <1>5, <1>8
<1>9. CASE s[1].tag = 0
    <2>1. theirs \ {1} = theirs
        BY <1>6, <1>9
    <2>2. {t[i].tag : i \in now} = m + 1 .. n
        BY <2>1, <1>2, <1>7
    <2> QED BY <2>2, <1>1, <1>8, <1>9 DEF InOrder, now, t
<1>10. CASE s[1].tag # 0
    <2>1. s[1].tag \in m + 1 .. n
        BY <1>2, <1>6, <1>10
    <2>2. \A i \in theirs : i = 1 \/ 1 < i
        BY <1>5, <1>6 DEF theirs
    <2>3. \A i \in theirs \ {1} : s[1].tag < s[i].tag
        BY <2>2, <1>2, <1>6, <1>10
    <2>4. s[1].tag = m + 1
        <3>0. m + 1 \in m + 1 .. n
            BY <2>1
        <3>1. PICK i \in theirs : s[i].tag = m + 1
            BY <3>0, <1>2
        <3>2. CASE i = 1
            BY <3>1, <3>2
        <3>3. CASE i # 1
            BY <3>1, <3>3, <2>1, <2>3
        <3> QED BY <3>2, <3>3
    <2>5. {s[i].tag : i \in theirs \ {1}} = (m + 1 .. n) \ {m + 1}
        <3>1. ASSUME NEW i \in theirs \ {1} PROVE s[i].tag \in (m + 1 .. n) \ {m + 1}
            BY <3>1, <2>1, <2>3, <2>4, <1>2
        <3>2. ASSUME NEW v \in (m + 1 .. n) \ {m + 1} PROVE \E i \in theirs \ {1} : s[i].tag = v
            BY <3>2, <2>4, <1>2
        <3> QED BY <3>1, <3>2
    <2>6. (m + 1 .. n) \ {m + 1} = (m + 1) + 1 .. n
        OBVIOUS
    <2>7. {t[i].tag : i \in now} = (m + 1) + 1 .. n
        BY <2>5, <2>6, <1>7
    <2>8. InOrder(t, m + 1, n)
        BY <2>7, <1>1, <1>8 DEF InOrder, now
    <2> QED BY <2>1, <2>4, <2>8, <1>10 DEF t
<1> QED BY <1>9, <1>10

\* Codes of the keyboard's own do not matter.
LEMMA InOrderOwn ==
    ASSUME NEW p \in Seq(CodeRecords), NEW q \in Seq(CodeRecords), NEW r \in Seq(CodeRecords),
           \A i \in 1 .. Len(q) : q[i].tag = 0, \A i \in 1 .. Len(r) : r[i].tag = 0,
           NEW m, NEW n, InOrder(p \o q, m, n)
    PROVE  InOrder(p \o r, m, n)
<1>1. ASSUME NEW x \in Seq(CodeRecords), \A i \in 1 .. Len(x) : x[i].tag = 0
      PROVE  /\ {i \in 1 .. Len(p \o x) : (p \o x)[i].tag # 0} = {i \in 1 .. Len(p) : p[i].tag # 0}
             /\ \A i \in 1 .. Len(p) : (p \o x)[i] = p[i]
    <2>1. /\ Len(p \o x) = Len(p) + Len(x) /\ Len(p) \in Nat /\ Len(x) \in Nat
          /\ \A i \in 1 .. Len(p) + Len(x) :
               (p \o x)[i] = IF i <= Len(p) THEN p[i] ELSE x[i - Len(p)]
        BY ConcatProperties
    <2>2. ASSUME NEW i \in 1 .. Len(p) + Len(x), ~(i <= Len(p)) PROVE (p \o x)[i].tag = 0
        BY <2>1, <2>2, <1>1
    <2>3. \A i \in 1 .. Len(p) : i \in 1 .. Len(p) + Len(x) /\ (p \o x)[i] = p[i]
        BY <2>1
    <2>4. \A i \in 1 .. Len(p) + Len(x) : i <= Len(p) => i \in 1 .. Len(p)
        BY <2>1
    <2> QED BY <2>1, <2>2, <2>3, <2>4
<1> DEFINE theirs == {i \in 1 .. Len(p) : p[i].tag # 0}
<1>2. /\ {i \in 1 .. Len(p \o q) : (p \o q)[i].tag # 0} = theirs
      /\ \A i \in theirs : (p \o q)[i] = p[i]
    BY <1>1
<1>3. /\ {i \in 1 .. Len(p \o r) : (p \o r)[i].tag # 0} = theirs
      /\ \A i \in theirs : (p \o r)[i] = p[i]
    BY <1>1
<1> HIDE DEF theirs
<1>4. {(p \o q)[i].tag : i \in theirs} = {p[i].tag : i \in theirs}
      /\ {(p \o r)[i].tag : i \in theirs} = {p[i].tag : i \in theirs}
    BY <1>2, <1>3, SMTT(40)
<1> QED BY <1>2, <1>3, <1>4 DEF InOrder

LEMMA FaithfulAppend ==
    ASSUME NEW s \in Seq(CodeRecords), NEW c \in CodeRecords,
           NEW e0, NEW before, NEW after \in BOOLEAN, Faithful(s, e0, before, after),
           c.tag # 0, c.key # "outport", c.was = after,
           c.key = "up" => s # <<>> /\ s[Len(s)].key = "e0"
    PROVE  Faithful(Append(s, c), e0, before, IF c.key = "shift" THEN c.down ELSE after)
<1> DEFINE r == Append(s, c)
           l == Len(s)
           now == IF c.key = "shift" THEN c.down ELSE after
<1>1. l \in Nat /\ Len(r) = l + 1 /\ r[l + 1] = c /\ \A i \in 1 .. l : r[i] = s[i]
    OBVIOUS
<1>2. PICK f \in [1 .. l + 1 -> BOOLEAN] : ShiftRuns(s, f, before, after)
    BY DEF Faithful
<1>3. now \in BOOLEAN
    BY DEF CodeRecords
<1> HIDE DEF r, now
<1> DEFINE g == [i \in 1 .. l + 2 |-> IF i = l + 2 THEN now ELSE f[i]]
<1>4. /\ g \in [1 .. (l + 1) + 1 -> BOOLEAN] /\ g[l + 2] = now
      /\ \A i \in 1 .. l + 1 : g[i] = f[i]
    BY <1>1, <1>2, <1>3
<1> HIDE DEF g
<1>5. ShiftRuns(r, g, before, now)
    <2>1. g[1] = before /\ g[Len(r) + 1] = now
        BY <1>1, <1>2, <1>4 DEF ShiftRuns
    <2>2. ASSUME NEW i \in 1 .. Len(r)
          PROVE  /\ r[i].key = "shift" => g[i + 1] = r[i].down
                 /\ r[i].tag # 0 => r[i].was = g[i]
        <3>1. CASE i = l + 1
            <4>1. r[i] = c /\ g[i + 1] = now /\ g[i] = after
                BY <3>1, <1>1, <1>2, <1>4 DEF ShiftRuns
            <4> QED BY <4>1 DEF now
        <3>2. CASE i # l + 1
            <4>1. i \in 1 .. l /\ i + 1 \in 1 .. l + 1 /\ i \in 1 .. l + 1
                BY <3>2, <1>1
            <4> QED BY <4>1, <1>1, <1>2, <1>4 DEF ShiftRuns
        <3> QED BY <3>1, <3>2
    <2>3. ASSUME NEW i \in 1 .. Len(r) + 1, NEW j \in 1 .. Len(r) + 1, i < j,
                 \A k \in i .. j - 1 : r[k].key # "shift"
          PROVE  g[i] = g[j]
        <3>1. i \in 1 .. l + 1
            BY <2>3, <1>1
        <3>2. CASE j = l + 2
            <4>1. c.key # "shift"
                BY <2>3, <3>1, <3>2, <1>1
            <4>2. CASE i = l + 1
                BY <4>1, <4>2, <3>2, <1>1, <1>2, <1>4 DEF ShiftRuns, now
            <4>3. CASE i # l + 1
                <5>1. i < l + 1 /\ l + 1 \in 1 .. l + 1
                    BY <4>3, <3>1, <1>1
                <5>2. \A k \in i .. l : k \in i .. j - 1 /\ k \in 1 .. l
                    BY <3>1, <3>2, <1>1
                <5>3. \A k \in i .. (l + 1) - 1 : s[k].key # "shift"
                    BY <5>2, <2>3, <1>1
                <5>4. f[i] = f[l + 1] /\ f[l + 1] = after
                    BY <5>1, <5>3, <3>1, <1>2 DEF ShiftRuns
                <5> QED BY <5>4, <4>1, <3>1, <3>2, <1>4 DEF now
            <4> QED BY <4>2, <4>3
        <3>3. CASE j # l + 2
            <4>1. j \in 1 .. l + 1
                BY <3>3, <1>1
            <4>2. \A k \in i .. j - 1 : k \in 1 .. l
                BY <4>1, <3>1, <1>1
            <4>3. \A k \in i .. j - 1 : s[k].key # "shift"
                BY <4>2, <2>3, <1>1
            <4>4. f[i] = f[j]
                BY <4>1, <4>3, <2>3, <3>1, <1>2 DEF ShiftRuns
            <4> QED BY <4>1, <4>4, <3>1, <1>4
        <3> QED BY <3>2, <3>3
    <2> QED BY <2>1, <2>2, <2>3 DEF ShiftRuns
<1>6. ASSUME NEW i \in 1 .. Len(r)
      PROVE  /\ (r[i].tag = 0 => r[i].key = "ack") /\ r[i].key # "outport"
             /\ r[i].key = "up" => IF i = 1 THEN e0 ELSE r[i - 1].key = "e0"
    <2>1. CASE i = l + 1
        <3>1. c.key = "up" => i # 1 /\ i - 1 = l /\ l \in 1 .. l
            BY <2>1, <1>1
        <3> QED BY <3>1, <2>1, <1>1
    <2>2. CASE i # l + 1
        <3>1. i \in 1 .. l /\ (i # 1 => i - 1 \in 1 .. l)
            BY <2>2, <1>1
        <3> QED BY <3>1, <1>1 DEF Faithful
    <2> QED BY <2>1, <2>2
<1>7. Len(r) + 1 = (l + 1) + 1
    BY <1>1
<1>8. \E h \in [1 .. Len(r) + 1 -> BOOLEAN] : ShiftRuns(r, h, before, now)
    BY <1>4, <1>5, <1>7
<1>9. Faithful(r, e0, before, now)
    BY <1>6, <1>8 DEF Faithful
<1> QED BY <1>9 DEF r, now

LEMMA FaithfulTail ==
    ASSUME NEW s \in Seq(CodeRecords), s # <<>>,
           NEW e0, NEW before, NEW after, Faithful(s, e0, before, after),
           NEW flag, s[1].key = "e0" => flag
    PROVE  /\ Faithful(Tail(s), flag, IF s[1].key = "shift" THEN s[1].down ELSE before, after)
           /\ s[1].tag # 0 => s[1].was = before
           /\ s[1].key = "up" => e0
           /\ s[1].key # "outport"
<1> DEFINE t == Tail(s)
           l == Len(s)
           now == IF s[1].key = "shift" THEN s[1].down ELSE before
<1>1. l \in Nat \ {0} /\ Len(t) = l - 1 /\ \A i \in 1 .. l - 1 : t[i] = s[i + 1]
    BY HeadTailProperties
<1>2. PICK f \in [1 .. l + 1 -> BOOLEAN] : ShiftRuns(s, f, before, after)
    BY DEF Faithful
<1>3. /\ 1 \in 1 .. l
      /\ \A i \in 1 .. l - 1 : i + 1 \in 1 .. l /\ i + 1 # 1 /\ (i + 1) - 1 = i
      /\ \A i \in 1 .. l : i + 1 \in 1 .. l + 1
    BY <1>1
<1> HIDE DEF t
<1> DEFINE g == [i \in 1 .. l |-> f[i + 1]]
<1>4. /\ g \in [1 .. Len(t) + 1 -> BOOLEAN]
      /\ \A i \in 1 .. l : g[i] = f[i + 1]
    <2>1. Len(t) + 1 = l
        BY <1>1
    <2> QED BY <2>1, <1>2, <1>3
<1> HIDE DEF g
<1>5. f[2] = now
    <2>1. CASE s[1].key = "shift"
        BY <2>1, <1>2, <1>3 DEF ShiftRuns
    <2>2. CASE s[1].key # "shift"
        <3>1. \A k \in 1 .. 2 - 1 : s[k].key # "shift"
            BY <2>2
        <3>2. 1 \in 1 .. l + 1 /\ 2 \in 1 .. l + 1
            BY <1>1
        <3> QED BY <3>1, <3>2, <2>2, <1>2 DEF ShiftRuns
    <2> QED BY <2>1, <2>2
<1>6. ShiftRuns(t, g, now, after)
    <2>1. g[1] = now /\ g[Len(t) + 1] = after
        <3>1. g[1] = f[2] /\ g[l] = f[l + 1] /\ Len(t) + 1 = l
            BY <1>1, <1>3, <1>4
        <3> QED BY <3>1, <1>2, <1>5 DEF ShiftRuns
    <2>2. ASSUME NEW i \in 1 .. Len(t)
          PROVE  /\ t[i].key = "shift" => g[i + 1] = t[i].down
                 /\ t[i].tag # 0 => t[i].was = g[i]
        <3>1. t[i] = s[i + 1] /\ g[i] = f[i + 1] /\ g[i + 1] = f[(i + 1) + 1] /\ i + 1 \in 1 .. l
            BY <1>1, <1>3, <1>4
        <3> QED BY <3>1, <1>2 DEF ShiftRuns
    <2>3. ASSUME NEW i \in 1 .. Len(t) + 1, NEW j \in 1 .. Len(t) + 1, i < j,
                 \A k \in i .. j - 1 : t[k].key # "shift"
          PROVE  g[i] = g[j]
        <3>1. i \in 1 .. l /\ j \in 1 .. l
            BY <1>1
        <3>2. ASSUME NEW k \in i + 1 .. (j + 1) - 1 PROVE s[k].key # "shift"
            <4>1. k - 1 \in i .. j - 1 /\ k - 1 \in 1 .. l - 1 /\ (k - 1) + 1 = k
                BY <3>1, <1>1
            <4> QED BY <4>1, <2>3, <1>1
        <3>3. i + 1 \in 1 .. l + 1 /\ j + 1 \in 1 .. l + 1 /\ i + 1 < j + 1
            BY <3>1, <2>3, <1>3
        <3>4. f[i + 1] = f[j + 1]
            BY <3>2, <3>3, <1>2 DEF ShiftRuns
        <3> QED BY <3>1, <3>4, <1>4
    <2> QED BY <2>1, <2>2, <2>3 DEF ShiftRuns
<1>7. ASSUME NEW i \in 1 .. Len(t)
      PROVE  /\ (t[i].tag = 0 => t[i].key = "ack") /\ t[i].key # "outport"
             /\ t[i].key = "up" => IF i = 1 THEN flag ELSE t[i - 1].key = "e0"
    <2>1. t[i] = s[i + 1] /\ i + 1 \in 1 .. l /\ i + 1 # 1 /\ (i + 1) - 1 = i
        BY <1>1, <1>3
    <2>2. i # 1 => t[i - 1] = s[i]
        <3> SUFFICES ASSUME i # 1 PROVE t[i - 1] = s[i]
            OBVIOUS
        <3>1. i - 1 \in 1 .. l - 1 /\ (i - 1) + 1 = i
            BY <1>1
        <3> QED BY <3>1, <1>1
    <2>3. t[i].key = "up" => s[i].key = "e0"
        BY <2>1 DEF Faithful
    <2>4. (t[i].tag = 0 => t[i].key = "ack") /\ t[i].key # "outport"
        BY <2>1 DEF Faithful
    <2> QED BY <2>2, <2>3, <2>4
<1>8. Faithful(t, flag, now, after)
    BY <1>4, <1>6, <1>7 DEF Faithful
<1>9. (s[1].tag # 0 => s[1].was = before) /\ (s[1].key = "up" => e0) /\ s[1].key # "outport"
    BY <1>2, <1>3 DEF ShiftRuns, Faithful
<1> QED BY <1>8, <1>9 DEF t

\* Acknowledgements in place of acknowledgements.
LEMMA FaithfulOwn ==
    ASSUME NEW p \in Seq(CodeRecords), NEW q \in Seq(CodeRecords), NEW r \in Seq(CodeRecords),
           \A i \in 1 .. Len(q) : q[i].tag = 0,
           \A i \in 1 .. Len(r) : r[i].tag = 0 /\ r[i].key = "ack",
           NEW e0, NEW before, NEW after, Faithful(p \o q, e0, before, after)
    PROVE  Faithful(p \o r, e0, before, after)
<1> DEFINE s == p \o q
           t == p \o r
           l == Len(p)
<1>1. /\ Len(s) = l + Len(q) /\ l \in Nat /\ Len(q) \in Nat
      /\ \A i \in 1 .. l + Len(q) : s[i] = IF i <= l THEN p[i] ELSE q[i - l]
    BY ConcatProperties
<1>2. /\ Len(t) = l + Len(r) /\ Len(r) \in Nat
      /\ \A i \in 1 .. l + Len(r) : t[i] = IF i <= l THEN p[i] ELSE r[i - l]
    BY ConcatProperties
<1>3. PICK f \in [1 .. Len(s) + 1 -> BOOLEAN] : ShiftRuns(s, f, before, after)
    BY DEF Faithful
<1>a. ASSUME NEW i \in 1 .. Len(s), l < i PROVE s[i].key = "ack"
    <2>1. i - l \in 1 .. Len(q) /\ s[i] = q[i - l]
        BY <1>1, <1>a
    <2> QED BY <2>1 DEF Faithful
<1>b. ASSUME NEW i \in 1 .. Len(t), l < i PROVE t[i].key = "ack" /\ t[i].tag = 0
    <2>1. i - l \in 1 .. Len(r) /\ t[i] = r[i - l]
        BY <1>2, <1>b
    <2> QED BY <2>1
<1>c. \A i \in 1 .. l : i \in 1 .. Len(s) /\ i \in 1 .. Len(t) /\ s[i] = p[i] /\ t[i] = p[i]
    BY <1>1, <1>2
<1>d. l \in Nat /\ Len(s) \in Nat /\ Len(t) \in Nat /\ l <= Len(s) /\ l <= Len(t)
    BY <1>1, <1>2
<1> HIDE DEF s, t
<1> DEFINE g == [i \in 1 .. Len(t) + 1 |-> IF i <= l THEN f[i] ELSE after]
<1>4. g \in [1 .. Len(t) + 1 -> BOOLEAN]
    <2>1. after \in BOOLEAN
        BY <1>3, <1>d DEF ShiftRuns
    <2>2. \A i \in 1 .. Len(t) + 1 : i <= l => i \in 1 .. Len(s) + 1
        BY <1>d
    <2> QED BY <2>1, <2>2, <1>3
<1>5. \A i \in 1 .. l : g[i] = f[i]
    BY <1>d
<1>6. \A i \in 1 .. Len(t) + 1 : l < i => g[i] = after
    BY <1>d
<1>7. f[l + 1] = after
    <2>1. CASE l = Len(s)
        BY <2>1, <1>3 DEF ShiftRuns
    <2>2. CASE l # Len(s)
        <3>1. l + 1 < Len(s) + 1 /\ l + 1 \in 1 .. Len(s) + 1 /\ Len(s) + 1 \in 1 .. Len(s) + 1
            BY <2>2, <1>d
        <3>2. ASSUME NEW k \in l + 1 .. (Len(s) + 1) - 1 PROVE s[k].key # "shift"
            <4>1. k \in 1 .. Len(s) /\ l < k
                BY <1>d
            <4> QED BY <4>1, <1>a
        <3>3. f[l + 1] = f[Len(s) + 1]
            BY <3>1, <3>2, <1>3 DEF ShiftRuns
        <3> QED BY <3>3, <1>3 DEF ShiftRuns
    <2> QED BY <2>1, <2>2
<1>8. \A i \in 1 .. l + 1 : g[i] = f[i]
    <2>1. l + 1 \in 1 .. Len(t) + 1 /\ l < l + 1
        BY <1>d
    <2>2. g[l + 1] = f[l + 1]
        BY <2>1, <1>6, <1>7
    <2>3. \A i \in 1 .. l + 1 : i \in 1 .. l \/ i = l + 1
        BY <1>d
    <2> QED BY <2>2, <2>3, <1>5
<1> HIDE DEF g
<1>9. ShiftRuns(t, g, before, after)
    <2>1. g[1] = before /\ g[Len(t) + 1] = after
        <3>1. 1 \in 1 .. l + 1 /\ Len(t) + 1 \in 1 .. Len(t) + 1 /\ l < Len(t) + 1
            BY <1>d
        <3> QED BY <3>1, <1>3, <1>6, <1>8 DEF ShiftRuns
    <2>2. ASSUME NEW i \in 1 .. Len(t)
          PROVE  /\ t[i].key = "shift" => g[i + 1] = t[i].down
                 /\ t[i].tag # 0 => t[i].was = g[i]
        <3>1. CASE i <= l
            <4>1. i \in 1 .. l /\ i \in 1 .. l + 1 /\ i + 1 \in 1 .. l + 1
                BY <3>1, <1>d
            <4>2. t[i] = s[i] /\ i \in 1 .. Len(s) /\ g[i] = f[i] /\ g[i + 1] = f[i + 1]
                BY <4>1, <1>c, <1>8
            <4> QED BY <4>2, <1>3 DEF ShiftRuns
        <3>2. CASE ~(i <= l)
            <4>1. l < i
                BY <3>2, <1>d
            <4> QED BY <4>1, <1>b
        <3> QED BY <3>1, <3>2
    <2>3. ASSUME NEW i \in 1 .. Len(t) + 1, NEW j \in 1 .. Len(t) + 1, i < j,
                 \A k \in i .. j - 1 : t[k].key # "shift"
          PROVE  g[i] = g[j]
        <3>1. CASE l < i
            BY <3>1, <2>3, <1>6, <1>d
        <3>2. CASE ~(l < i)
            <4> DEFINE m == IF j <= l + 1 THEN j ELSE l + 1
            <4>1. i \in 1 .. l + 1 /\ m \in 1 .. l + 1 /\ i < m /\ m <= j
                BY <3>2, <2>3, <1>d
            <4>2. g[m] = g[j]
                <5>1. CASE j <= l + 1
                    BY <5>1
                <5>2. CASE ~(j <= l + 1)
                    <6>1. l < j /\ l < l + 1 /\ l + 1 \in 1 .. Len(t) + 1 /\ m = l + 1
                        BY <5>2, <1>d
                    <6> QED BY <6>1, <1>6
                <5> QED BY <5>1, <5>2
            <4> HIDE DEF m
            <4>3. ASSUME NEW k \in i .. m - 1 PROVE s[k].key # "shift"
                <5>1. k \in 1 .. l /\ k \in i .. j - 1
                    BY <4>1, <1>d
                <5> QED BY <5>1, <2>3, <1>c
            <4>4. i \in 1 .. Len(s) + 1 /\ m \in 1 .. Len(s) + 1
                BY <4>1, <1>d
            <4>5. f[i] = f[m]
                BY <4>1, <4>3, <4>4, <1>3 DEF ShiftRuns
            <4> QED BY <4>1, <4>2, <4>5, <1>8
        <3> QED BY <3>1, <3>2
    <2> QED BY <2>1, <2>2, <2>3 DEF ShiftRuns
<1>10. ASSUME NEW i \in 1 .. Len(t)
       PROVE  /\ (t[i].tag = 0 => t[i].key = "ack") /\ t[i].key # "outport"
              /\ t[i].key = "up" => IF i = 1 THEN e0 ELSE t[i - 1].key = "e0"
    <2>1. CASE i <= l
        <3>1. i \in 1 .. l /\ (i # 1 => i - 1 \in 1 .. l)
            BY <2>1, <1>d
        <3>2. i \in 1 .. Len(s) /\ t[i] = s[i] /\ (i # 1 => t[i - 1] = s[i - 1])
            BY <3>1, <1>c
        <3> QED BY <3>2 DEF Faithful, s
    <2>2. CASE ~(i <= l)
        <3>1. l < i
            BY <2>2, <1>d
        <3> QED BY <3>1, <1>b
    <2> QED BY <2>1, <2>2
<1>11. Faithful(t, e0, before, after)
    BY <1>4, <1>9, <1>10 DEF Faithful
<1> QED BY <1>11 DEF t

-----------------------------------------------------------------------------
(* The host's codes on their way: who reads them *)

\* Between its start and the end of its callback the keyboard's handler is the innermost,
\* with interrupts disabled.
ReaderInv ==
    \A k \in 1 .. Len(steps) :
        steps[k].pc \in {"in60", "decode"} => k = Len(steps) /\ ~enabled

LEMMA ReaderInit == Init => ReaderInv
BY DEF Init, ReaderInv

\* No step is between the two when the innermost one is elsewhere.
LEMMA NoReader ==
    ASSUME Stacks, ReaderInv, \A pc \in {"in60", "decode"} : ~At(pc)
    PROVE  \A k \in 1 .. Len(steps) : steps[k].pc \notin {"in60", "decode"}
<1> SUFFICES ASSUME NEW k \in 1 .. Len(steps), steps[k].pc \in {"in60", "decode"} PROVE FALSE
    OBVIOUS
<1>1. k = Len(steps)
    BY DEF ReaderInv
<1>2. handlers # <<>>
    BY DEF Stacks, PicTypeOK
<1> QED BY <1>1, <1>2 DEF At, InHandler

LEMMA NotReading ==
    ASSUME Stacks, NEW pc \in Pcs \ {"in60", "decode"}, At(pc)
    PROVE  /\ \A p \in {"in60", "decode"} : ~At(p)
           /\ handlers # <<>> /\ Len(handlers) \in 1 .. Len(steps) /\ Len(steps) = Len(handlers)
<1>1. Len(steps) = Len(handlers) /\ handlers # <<>> /\ Len(handlers) \in 1 .. Len(handlers)
    BY DEF At, InHandler, Stacks, PicTypeOK
<1> QED BY <1>1 DEF At, InHandler

\* The innermost handler goes on to a place outside.
LEMMA ReaderGoto ==
    ASSUME Stacks, ReaderInv, handlers # <<>>, NEW pc \in Pcs \ {"in60", "decode"}, Goto(pc)
    PROVE  ReaderInv'
<1> DEFINE n == Len(steps)
<1>1. n \in 1 .. n /\ steps \in Seq(StepRecords) /\ steps[n] \in StepRecords
    BY DEF Stacks, PicTypeOK
<1>2. steps' = [steps EXCEPT ![n] = [steps[n] EXCEPT !.pc = pc]]
    BY DEF Goto
<1>3. /\ Len(steps') = n /\ steps'[n].pc = pc
      /\ \A k \in 1 .. n : k # n => steps'[k] = steps[k]
    BY <1>1, <1>2 DEF StepRecords
<1> QED BY <1>3 DEF ReaderInv

LEMMA ReaderEnter ==
    ASSUME Stacks, ReaderInv, Enter
    PROVE  ReaderInv'
<1> DEFINE n == Len(steps)
<1>1. enabled /\ enabled' = FALSE
    BY DEF Enter, Interrupt
<1>2. PICK step : steps' = Append(steps, step)
    BY DEF Enter
<1>3. n \in Nat /\ Len(steps') = n + 1 /\ \A k \in 1 .. n : steps'[k] = steps[k]
    BY <1>2 DEF Stacks
<1>4. \A k \in 1 .. n : steps[k].pc \notin {"in60", "decode"}
    BY <1>1 DEF ReaderInv
<1>5. \A k \in 1 .. n + 1 : k \in 1 .. n \/ k = n + 1
    BY <1>3
<1> QED BY <1>1, <1>3, <1>4, <1>5 DEF ReaderInv

LEMMA ReaderIret ==
    ASSUME Stacks, ReaderInv, Iret
    PROVE  ReaderInv'
<1> DEFINE n == Len(steps)
<1>1. \A k \in 1 .. n : steps[k].pc \notin {"in60", "decode"}
    BY NotReading, NoReader DEF Iret, Pcs
<1>2. n \in Nat \ {0} /\ steps' = SubSeq(steps, 1, n - 1)
    BY NotReading DEF Iret, Stacks, Pcs
<1>3. Len(steps') = n - 1 /\ \A k \in 1 .. n - 1 : steps'[k] = steps[k] /\ k \in 1 .. n
    BY <1>2, SubSeqProperties DEF Stacks
<1> QED BY <1>1, <1>3 DEF ReaderInv

LEMMA GuestNotReading ==
    ASSUME Stacks, Guest
    PROVE  \A pc \in {"in60", "decode"} : ~At(pc)
BY DEF Guest, At, InHandler

LEMMA ReaderStep == Stacks /\ ReaderInv /\ [Next]_vars => ReaderInv'
<1> SUFFICES ASSUME Stacks, ReaderInv, [Next]_vars PROVE ReaderInv'
    OBVIOUS
<1>a. ASSUME UNCHANGED <<steps, enabled>> PROVE ReaderInv'
    BY <1>a DEF ReaderInv
<1>b. ASSUME UNCHANGED steps, \A pc \in {"in60", "decode"} : ~At(pc) PROVE ReaderInv'
    BY <1>b, NoReader DEF ReaderInv
<1>c. {"idle", "sti", "int74", "user", "ret", "eoi", "iret"} \subseteq Pcs \ {"in60", "decode"}
    BY DEF Pcs
<1>1. CASE \/ \E key \in Keys : Press(key) \/ Release(key)
           \/ Repeat \/ Transfer \/ Limit \/ Poll60
           \/ \E type \in EventTypes : HostMouse(type)
           \/ \E byte \in {"leds", "rate", "data"} : Send60(byte)
           \/ \E command \in {"ae", "d0", "d1"} : Send64(command)
           \/ ResetDriver \/ SetVideoMode \/ SetSubroutine \/ SaveDriver \/ LoadDriver
           \/ UNCHANGED vars
    BY <1>1, <1>a
    DEF vars, picVars, Press, Release, Repeat, HostKey, HostMouse, Transfer, Limit, Poll60, Send60,
        Send64, Ports, ResetDriver, SetVideoMode, SetSubroutine, SaveDriver, LoadDriver, Driver
<1>2. CASE Enter
    BY <1>2, ReaderEnter
<1>3. CASE In60
    <2> DEFINE n == Len(steps)
               step == [pc |-> "decode", code |-> keyb.port60]
    <2>1. handlers # <<>> /\ steps[n].pc = "in60" /\ n \in 1 .. n /\ steps \in Seq(StepRecords)
        BY <1>3 DEF In60, At, InHandler, Stacks, PicTypeOK
    <2>2. ~enabled /\ ~enabled'
        BY <1>3, <2>1 DEF ReaderInv, In60, picVars
    <2>3. steps' = [steps EXCEPT ![n] = step]
        BY <1>3 DEF In60
    <2> HIDE DEF step
    <2>4. Len(steps') = n /\ \A k \in 1 .. n : k # n => steps'[k] = steps[k]
        BY <2>1, <2>3
    <2> QED BY <2>2, <2>4 DEF ReaderInv
<1>4. CASE Decode \/ Resume \/ Sti \/ Int74 \/ UserReturns \/ Ret \/ Eoi
    <2>1. handlers # <<>> /\ \E pc \in {"idle", "sti", "int74", "user", "ret", "eoi", "iret"} : Goto(pc)
        BY <1>4 DEF Decode, Resume, Sti, Int74, UserReturns, Ret, Eoi, At, InHandler
    <2> QED BY <2>1, <1>c, ReaderGoto
<1>5. CASE Idle
    BY <1>5, <1>b, <1>c, NotReading DEF Idle
<1>6. CASE GetKey \/ Flags
    BY <1>6, <1>b, GuestNotReading DEF GetKey, Flags
<1>7. CASE Iret
    BY <1>7, ReaderIret
<1> QED BY <1>1, <1>2, <1>3, <1>4, <1>5, <1>6, <1>7 DEF Next

-----------------------------------------------------------------------------
(* The host's codes on their way: what the operators do *)

\* The innermost handler's code and the one on port 60.
Underway ==
    (IF At("decode") THEN <<steps[Len(steps)].code>> ELSE <<>>)
      \o (IF keyb.changed THEN <<keyb.port60>> ELSE <<>>)

LEMMA FlightTyped ==
    ASSUME KeyboardInv
    PROVE  /\ Underway \in Seq(CodeRecords) /\ keyb.buffer \in Seq(CodeRecords)
           /\ InFlight = Underway \o keyb.buffer /\ InFlight \in Seq(CodeRecords)
<1> DEFINE d == IF At("decode") THEN <<steps[Len(steps)].code>> ELSE <<>>
           p == IF keyb.changed THEN <<keyb.port60>> ELSE <<>>
<1>1. keyb.port60 \in CodeRecords /\ keyb.buffer \in Seq(CodeRecords)
    BY DEF KeyboardInv, Boards
<1>2. p \in Seq(CodeRecords)
    BY <1>1
<1>3. d \in Seq(CodeRecords)
    <2>1. CASE At("decode")
        <3>1. steps[Len(steps)] \in StepRecords
            BY <2>1, AtTop DEF KeyboardInv
        <3>2. steps[Len(steps)].code \in CodeRecords
            BY <3>1 DEF StepRecords
        <3> QED BY <2>1, <3>2
    <2>2. CASE ~At("decode")
        BY <2>2
    <2> QED BY <2>1, <2>2
<1>4. Underway = d \o p /\ InFlight = (d \o p) \o keyb.buffer
    BY DEF Underway, InFlight
<1> HIDE DEF d, p
<1>5. d \o p \in Seq(CodeRecords) /\ (d \o p) \o keyb.buffer \in Seq(CodeRecords)
    BY <1>1, <1>2, <1>3, ConcatProperties
<1> QED BY <1>1, <1>4, <1>5

LEMMA ConcatAppend ==
    ASSUME NEW S, NEW p \in Seq(S), NEW q \in Seq(S), NEW c \in S
    PROVE  p \o Append(q, c) = Append(p \o q, c)
<1>1. Append(q, c) = q \o <<c>> /\ <<c>> \in Seq(S) /\ p \o q \in Seq(S)
    BY AppendProperties, ConcatProperties
<1>2. Append(p \o q, c) = (p \o q) \o <<c>>
    BY <1>1, AppendProperties
<1> QED BY <1>1, <1>2, ConcatAssociative

LEMMA FirstMoves ==
    ASSUME NEW S, NEW p \in Seq(S), NEW q \in Seq(S), q # <<>>
    PROVE  (p \o <<Head(q)>>) \o Tail(q) = p \o q
<1>1. Head(q) \in S /\ Tail(q) \in Seq(S) /\ <<Head(q)>> \in Seq(S)
    BY HeadTailProperties
<1>2. <<Head(q)>> \o Tail(q) = q
    OBVIOUS
<1>3. (p \o <<Head(q)>>) \o Tail(q) = p \o (<<Head(q)>> \o Tail(q))
    BY <1>1, ConcatAssociative
<1> QED BY <1>2, <1>3

LEMMA FirstRemoved ==
    ASSUME NEW S, NEW c \in S, NEW p \in Seq(S), NEW q \in Seq(S)
    PROVE  LET s == (<<c>> \o p) \o q
           IN s # <<>> /\ s[1] = c /\ Tail(s) = (<<>> \o p) \o q
<1> DEFINE s == <<c>> \o (p \o q)
<1>1. <<c>> \in Seq(S) /\ p \o q \in Seq(S) /\ (<<c>> \o p) \o q = s /\ (<<>> \o p) \o q = p \o q
    BY ConcatProperties, ConcatAssociative, ConcatEmptySeq
<1>2. s # <<>> /\ s[1] = c /\ Tail(s) = p \o q
    BY <1>1
<1> QED BY <1>1, <1>2

\* What everything but the reading of port 60 leaves as it is.
SamePort(k, r) ==
    /\ r.port60 = k.port60 /\ r.changed = k.changed /\ r.repeat = k.repeat
    /\ k.changed => r.scheduled = k.scheduled

LEMMA AddBufferIs ==
    ASSUME NEW k \in Boards, NEW code \in CodeRecords
    PROVE  LET r == AddBuffer(k, code)
           IN /\ r \in Boards /\ SamePort(k, r)
              /\ r.buffer = IF Len(k.buffer) >= KeyBufSize THEN k.buffer ELSE Append(k.buffer, code)
<1> DEFINE q == Append(k.buffer, code)
           b == [k EXCEPT !.buffer = q]
<1>1. q \in Seq(CodeRecords)
    BY DEF Boards
<1>2. AddBuffer(k, code) = IF Len(k.buffer) >= KeyBufSize THEN k
                           ELSE IF ~k.scheduled /\ ~k.changed THEN Schedule(b) ELSE b
    BY DEF AddBuffer, Boards
<1> HIDE DEF q
<1>3. b \in Boards /\ b.buffer = q /\ SamePort(k, b) /\ b.changed = k.changed
    BY <1>1 DEF Boards, SamePort
<1> HIDE DEF b
<1>4. Schedule(b) \in Boards /\ Schedule(b).buffer = q /\ (~b.changed => SamePort(b, Schedule(b)))
    <2> DEFINE n == b.transfers + 1
    <2>1. n \in Nat
        BY <1>3 DEF Boards
    <2>2. Schedule(b) = [b EXCEPT !.scheduled = TRUE, !.transfers = n]
        BY DEF Schedule
    <2> HIDE DEF n
    <2> QED BY <2>1, <2>2, <1>3 DEF Boards, SamePort
<1> QED BY <1>2, <1>3, <1>4 DEF SamePort, q

LEMMA AddAllIs ==
    ASSUME NEW k \in Boards, NEW codes,
           Len(codes) \in 1 .. 3, \A i \in 1 .. Len(codes) : codes[i] \in CodeRecords
    PROVE  LET r == AddAll(k, codes)
               one == Append(k.buffer, codes[1])
               two == Append(one, codes[2])
           IN /\ SamePort(k, r)
              /\ Len(k.buffer) + Len(codes) <= KeyBufSize =>
                   r.buffer = IF Len(codes) = 1 THEN one
                              ELSE IF Len(codes) = 2 THEN two ELSE Append(two, codes[3])
<1> DEFINE first  == AddBuffer(k, codes[1])
           second == AddBuffer(first, codes[2])
           third  == AddBuffer(second, codes[3])
           one == Append(k.buffer, codes[1])
           two == Append(one, codes[2])
           r == AddAll(k, codes)
<1>0. k.buffer \in Seq(CodeRecords) /\ Len(k.buffer) \in Nat /\ codes[1] \in CodeRecords
    BY DEF Boards
<1>1. /\ first \in Boards /\ SamePort(k, first)
      /\ first.buffer = IF Len(k.buffer) >= KeyBufSize THEN k.buffer ELSE one
    BY <1>0, AddBufferIs
<1>2. one \in Seq(CodeRecords) /\ Len(one) = Len(k.buffer) + 1
    BY <1>0
<1>3. AddAll(k, codes) = IF Len(codes) = 1 THEN first ELSE IF Len(codes) = 2 THEN second ELSE third
    BY DEF AddAll
<1> HIDE DEF first, one
<1>4. ASSUME Len(codes) # 1
      PROVE  /\ second \in Boards /\ SamePort(first, second) /\ codes[2] \in CodeRecords
             /\ second.buffer = IF Len(first.buffer) >= KeyBufSize THEN first.buffer
                                ELSE Append(first.buffer, codes[2])
             /\ two \in Seq(CodeRecords) /\ Len(two) = Len(k.buffer) + 2
    <2>1. codes[2] \in CodeRecords
        BY <1>4
    <2>2. two \in Seq(CodeRecords) /\ Len(two) = Len(one) + 1
        BY <2>1, <1>2
    <2>3. /\ second \in Boards /\ SamePort(first, second)
          /\ second.buffer = IF Len(first.buffer) >= KeyBufSize THEN first.buffer
                             ELSE Append(first.buffer, codes[2])
        BY <2>1, <1>1, AddBufferIs
    <2> HIDE DEF second, two
    <2>4. Len(two) = Len(k.buffer) + 2
        BY <2>2, <1>0, <1>2
    <2> QED BY <2>1, <2>2, <2>3, <2>4
<1> HIDE DEF second, two
<1>5. ASSUME Len(codes) # 1, Len(codes) # 2
      PROVE  /\ SamePort(second, third)
             /\ third.buffer = IF Len(second.buffer) >= KeyBufSize THEN second.buffer
                               ELSE Append(second.buffer, codes[3])
    <2>1. codes[3] \in CodeRecords
        BY <1>5
    <2> QED BY <2>1, <1>4, <1>5, AddBufferIs
<1> HIDE DEF third
<1>6. SamePort(k, r)
    BY <1>1, <1>3, <1>4, <1>5 DEF SamePort
<1>7. ASSUME Len(k.buffer) + Len(codes) <= KeyBufSize
      PROVE r.buffer = IF Len(codes) = 1 THEN one ELSE IF Len(codes) = 2 THEN two ELSE Append(two, codes[3])
    <2> DEFINE l == Len(k.buffer)
               n == Len(codes)
    <2>0. l \in Nat /\ n \in 1 .. 3 /\ l + n <= KeyBufSize /\ KeyBufSize \in Nat
        BY <1>0, <1>7, KeyBufAssumption
    <2> HIDE DEF l, n
    <2>a. ~(l >= KeyBufSize) /\ (n # 1 => ~(l + 1 >= KeyBufSize))
          /\ (n # 1 /\ n # 2 => ~(l + 2 >= KeyBufSize))
        BY <2>0
    <2>1. first.buffer = one
        BY <2>a, <1>1 DEF l
    <2>2. ASSUME n # 1 PROVE second.buffer = two
        <3>1. Len(first.buffer) = l + 1
            BY <2>1, <1>2 DEF l
        <3> QED BY <3>1, <2>1, <2>2, <2>a, <1>4 DEF two, n
    <2>3. ASSUME n # 1, n # 2 PROVE third.buffer = Append(two, codes[3])
        <3>1. second.buffer = two /\ Len(second.buffer) = l + 2
            BY <2>2, <2>3, <1>4 DEF l, n
        <3> QED BY <3>1, <2>3, <2>a, <1>5 DEF n
    <2> QED BY <2>1, <2>2, <2>3, <1>3 DEF n
<1> QED BY <1>6, <1>7 DEF one, two

LEMMA AddKeyIs ==
    ASSUME NEW k \in Boards, NEW key \in Keys, NEW down \in BOOLEAN, NEW codes,
           Len(codes) \in 1 .. 3, \A i \in 1 .. Len(codes) : codes[i] \in CodeRecords
    PROVE  LET r == AddKey(k, key, down, codes)
               one == Append(k.buffer, codes[1])
               two == Append(one, codes[2])
           IN /\ r.port60 = k.port60 /\ r.changed = k.changed
              /\ k.changed => r.scheduled = k.scheduled
              /\ r.repeat = IF key = "pause" THEN k.repeat ELSE IF down THEN key ELSE NoKey
              /\ Len(k.buffer) + Len(codes) <= KeyBufSize =>
                   r.buffer = IF Len(codes) = 1 THEN one
                              ELSE IF Len(codes) = 2 THEN two ELSE Append(two, codes[3])
<1> DEFINE name == IF key = "pause" THEN k.repeat ELSE IF down THEN key ELSE NoKey
           n == [k EXCEPT !.repeat = name]
<1>1. name \in Keys \cup {NoKey}
    BY DEF Boards
<1>2. AddKey(k, key, down, codes) = AddAll(n, codes)
    <2>1. CASE key = "pause"
        <3>1. n = k
            BY <2>1 DEF Boards
        <3> QED BY <2>1, <3>1 DEF AddKey
    <2>2. CASE key # "pause"
        BY <2>2 DEF AddKey
    <2> QED BY <2>1, <2>2
<1> HIDE DEF name
<1>3. n \in Boards /\ n.repeat = name /\ n.changed = k.changed /\ n.port60 = k.port60
      /\ n.scheduled = k.scheduled /\ n.buffer = k.buffer
    BY <1>1 DEF Boards
<1> HIDE DEF n
<1> DEFINE r == AddAll(n, codes)
           one == Append(n.buffer, codes[1])
           two == Append(one, codes[2])
<1>4. /\ SamePort(n, r)
      /\ Len(n.buffer) + Len(codes) <= KeyBufSize =>
           r.buffer = IF Len(codes) = 1 THEN one
                      ELSE IF Len(codes) = 2 THEN two ELSE Append(two, codes[3])
    BY <1>3, AddAllIs
<1> QED BY <1>2, <1>3, <1>4 DEF SamePort, name

-----------------------------------------------------------------------------
(* Every code is decoded once and in order, and makes the keystroke it was *)

Strokes == [key : KeyNames \cup {"kp8"}, shift : BOOLEAN, was : BOOLEAN]
Bioses == [ring : Seq(Strokes), shift : BOOLEAN, ctrl : BOOLEAN, e0 : BOOLEAN, e1 : BOOLEAN,
           paused : BOOLEAN]

RingRight(ring) == \A i \in 1 .. Len(ring) : ring[i].key \in Keys /\ ring[i].shift = ring[i].was

\* What is on port 60 holds up the next transfer, and IRQ 1 or its handler announces it.
PortServed ==
    /\ keyb.changed => ~keyb.scheduled
    /\ 1 \in pic.active => keyb.changed
    /\ At("in60") => keyb.changed /\ 1 \notin pic.active

FlightInv ==
    /\ handled \in Nat /\ bios \in Bioses
    /\ keyb.repeat = "shift" => "shift" \in held
    /\ ~disturbed => /\ PortServed /\ handled <= sent
                     /\ InOrder(InFlight, handled, sent)
                     /\ Faithful(InFlight, bios.e0, bios.shift, "shift" \in held)
                     /\ RingRight(bios.ring)

LEMMA FlightInit == Init => FlightInv
<1> SUFFICES ASSUME Init PROVE FlightInv
    OBVIOUS
<1>1. keyb = InitKeyb /\ bios = InitBios /\ held = {} /\ sent = 0 /\ handled = 0
      /\ pic.active = {} /\ handlers = <<>>
    BY DEF Init, PicInit, InitPic
<1>2. ~At("decode") /\ ~At("in60")
    BY <1>1 DEF At, InHandler
<1>3. InFlight = <<>>
    BY <1>1, <1>2 DEF InFlight, InitKeyb
<1>4. InOrder(<<>>, 0, 0)
    BY DEF InOrder
<1>5. Faithful(InFlight, bios.e0, bios.shift, "shift" \in held)
    <2> DEFINE f == [i \in 1 .. 1 |-> FALSE]
    <2>1. f \in [1 .. 1 -> BOOLEAN] /\ f[1] = FALSE
        OBVIOUS
    <2> HIDE DEF f
    <2>2. 1 .. Len(InFlight) = {} /\ Len(InFlight) + 1 = 1
        BY <1>3
    <2>3. ASSUME NEW i \in 1 .. 1, NEW j \in 1 .. 1 PROVE ~(i < j)
        OBVIOUS
    <2>6. bios.shift = FALSE
        BY <1>1 DEF InitBios
    <2>7. ("shift" \in held) = FALSE
        BY <1>1
    <2>4. f[1] = bios.shift /\ f[1] = ("shift" \in held)
        BY <2>1, <2>6, <2>7
    <2>5. ShiftRuns(InFlight, f, bios.shift, "shift" \in held)
        BY <2>2, <2>3, <2>4 DEF ShiftRuns
    <2> QED BY <2>1, <2>2, <2>5 DEF Faithful
<1>6. bios \in Bioses /\ RingRight(bios.ring)
    BY <1>1 DEF InitBios, Bioses, RingRight
<1>7. PortServed /\ keyb.repeat # "shift"
    BY <1>1, <1>2 DEF PortServed, InitKeyb, NoKey
<1> QED BY <1>1, <1>3, <1>4, <1>5, <1>6, <1>7 DEF FlightInv

\* A step that neither adds a code nor decodes one.
LEMMA FlightKept ==
    ASSUME FlightInv, UNCHANGED <<sent, handled, held>>, keyb'.repeat = keyb.repeat,
           bios' \in Bioses, bios'.e0 = bios.e0, bios'.shift = bios.shift,
           RingRight(bios.ring) => RingRight(bios'.ring),
           ~disturbed' => ~disturbed /\ PortServed' /\ InOrder(InFlight', handled, sent)
                          /\ Faithful(InFlight', bios.e0, bios.shift, "shift" \in held)
    PROVE  FlightInv'
BY DEF FlightInv

\* A step elsewhere: not of the keyboard, of its handler or of its line.
LEMMA FlightElsewhere ==
    ASSUME FlightInv, UNCHANGED <<keyb, bios, sent, handled, held, disturbed>>,
           1 \in pic'.active => 1 \in pic.active,
           \/ UNCHANGED <<steps, handlers>>
           \/ \A pc \in {"in60", "decode"} : ~At(pc) /\ ~At(pc)'
    PROVE  FlightInv'
<1>1. At("in60")' => At("in60")
    BY DEF At, InHandler
<1>2. InFlight' = InFlight
    <2>1. CASE UNCHANGED <<steps, handlers>>
        BY <2>1 DEF InFlight, At, InHandler
    <2>2. CASE \A pc \in {"in60", "decode"} : ~At(pc) /\ ~At(pc)'
        BY <2>2 DEF InFlight
    <2> QED BY <2>1, <2>2
<1>3. PortServed => PortServed'
    BY <1>1 DEF PortServed
<1> QED BY <1>2, <1>3 DEF FlightInv

\* Where the innermost handler is after it went on, and after one returned.
LEMMA GotoElsewhere ==
    ASSUME Stacks, handlers # <<>>, NEW to \in Pcs \ {"in60", "decode"}, Goto(to),
           Len(handlers') = Len(handlers)
    PROVE  \A pc \in {"in60", "decode"} : ~At(pc)'
<1> DEFINE n == Len(steps)
<1>1. n \in 1 .. n /\ steps \in Seq(StepRecords) /\ steps[n] \in StepRecords
    BY DEF Stacks, PicTypeOK
<1>2. steps' = [steps EXCEPT ![n] = [steps[n] EXCEPT !.pc = to]]
    BY DEF Goto
<1>3. Len(steps') = n /\ steps'[n].pc = to
    BY <1>1, <1>2 DEF StepRecords
<1> QED BY <1>3 DEF At

LEMMA IretElsewhere ==
    ASSUME Stacks, ReaderInv, Iret
    PROVE  \A pc \in {"in60", "decode"} : ~At(pc) /\ ~At(pc)'
<1> DEFINE n == Len(steps)
<1>1. \A pc \in {"in60", "decode"} : ~At(pc)
    BY NotReading DEF Iret, Pcs
<1>2. \A k \in 1 .. n : steps[k].pc \notin {"in60", "decode"}
    BY <1>1, NoReader
<1>3. n \in Nat \ {0} /\ steps' = SubSeq(steps, 1, n - 1) /\ n = Len(handlers) /\ handlers # <<>>
    BY NotReading DEF Iret, Stacks, Pcs
<1>4. Len(steps') = n - 1 /\ \A k \in 1 .. n - 1 : steps'[k] = steps[k] /\ k \in 1 .. n
    BY <1>3, SubSeqProperties DEF Stacks
<1>5. Len(handlers') = n - 1
    <2>1. handlers' = SubSeq(handlers, 1, Len(handlers) - 1) /\ handlers \in Seq(StackFrames)
        BY DEF Iret, PopFrame, Outer, Stacks, PicTypeOK
    <2> QED BY <2>1, <1>3, OuterElements
<1>6. ASSUME NEW pc \in {"in60", "decode"}, At(pc)' PROVE FALSE
    <2>1. handlers' # <<>> /\ steps'[n - 1].pc = pc
        BY <1>4, <1>6 DEF At, InHandler
    <2>2. handlers' \in Seq(StackFrames)
        BY <1>3, OuterTyped DEF Iret, PopFrame, Outer, Stacks, PicTypeOK
    <2>3. n - 1 \in 1 .. n - 1
        BY <1>3, <1>5, <2>1, <2>2
    <2> QED BY <1>2, <1>4, <2>1, <2>3
<1> QED BY <1>1, <1>6

-----------------------------------------------------------------------------
(* The steps of the keyboard *)

\* The codes t on their way, n the last of them and x the shift state after them.
GoodFlight(t, n, x) ==
    /\ t \in Seq(CodeRecords) /\ handled <= n
    /\ InOrder(t, handled, n) /\ Faithful(t, bios.e0, bios.shift, x)

LEMMA FlightAppend ==
    ASSUME handled \in Nat, NEW t, NEW c \in CodeRecords, NEW n \in Nat, NEW x \in BOOLEAN,
           GoodFlight(t, n, x), c.tag = n + 1, c.was = x, c.key # "outport",
           c.key = "up" => t # <<>> /\ t[Len(t)].key = "e0"
    PROVE  /\ Append(t, c) # <<>> /\ Append(t, c)[Len(Append(t, c))] = c
           /\ GoodFlight(Append(t, c), n + 1, IF c.key = "shift" THEN c.down ELSE x)
<1>1. t \in Seq(CodeRecords) /\ handled <= n /\ InOrder(t, handled, n)
      /\ Faithful(t, bios.e0, bios.shift, x)
    BY DEF GoodFlight
<1>2. InOrder(Append(t, c), handled, n + 1)
    BY <1>1, InOrderAppend
<1>3. Faithful(Append(t, c), bios.e0, bios.shift, IF c.key = "shift" THEN c.down ELSE x)
    <2>1. c.tag # 0
        OBVIOUS
    <2> QED BY <2>1, <1>1, FaithfulAppend
<1>4. Append(t, c) \in Seq(CodeRecords) /\ Append(t, c) # <<>> /\ Append(t, c)[Len(Append(t, c))] = c
    BY <1>1
<1>5. handled <= n + 1
    BY <1>1
<1> QED BY <1>2, <1>3, <1>4, <1>5 DEF GoodFlight

LEMMA FlightHostKey ==
    ASSUME KeyboardInv, FlightInv, NEW key \in Keys, NEW down \in BOOLEAN, HostKey(key, down),
           ("shift" \in held') = IF key = "shift" THEN down ELSE "shift" \in held
    PROVE  FlightInv'
<1> DEFINE was == "shift" \in held
           codes == CodesOf(key, down, sent, was)
           one == Append(keyb.buffer, codes[1])
           two == Append(one, codes[2])
<1>1. was \in BOOLEAN /\ sent \in Nat /\ keyb \in Boards /\ keyb.buffer \in Seq(CodeRecords)
    BY DEF KeyboardInv, Boards
<1>2. keyb' = AddKey(keyb, key, down, codes) /\ sent' = sent + Len(codes)
      /\ disturbed' = (disturbed \/ Len(keyb.buffer) + Len(codes) > KeyBufSize)
    BY DEF HostKey
<1>3. UNCHANGED <<pic, handlers, steps, bios, handled>>
    BY DEF HostKey, picVars
<1> HIDE DEF was
<1>4. Len(codes) \in 1 .. 3 /\ \A i \in 1 .. Len(codes) : codes[i] \in CodeRecords
    BY <1>1, CodesTyped
<1>5. /\ keyb'.port60 = keyb.port60 /\ keyb'.changed = keyb.changed
      /\ keyb.changed => keyb'.scheduled = keyb.scheduled
      /\ keyb'.repeat = IF key = "pause" THEN keyb.repeat ELSE IF down THEN key ELSE NoKey
      /\ Len(keyb.buffer) + Len(codes) <= KeyBufSize =>
           keyb'.buffer = IF Len(codes) = 1 THEN one
                          ELSE IF Len(codes) = 2 THEN two ELSE Append(two, codes[3])
    BY <1>1, <1>2, <1>4, AddKeyIs
<1>6. keyb'.repeat = "shift" => "shift" \in held'
    BY <1>5 DEF FlightInv, NoKey
<1>7. ASSUME ~disturbed'
      PROVE  /\ PortServed' /\ handled' <= sent' /\ InOrder(InFlight, handled, sent)'
             /\ Faithful(InFlight, bios.e0, bios.shift, "shift" \in held)'
    <2> DEFINE s == InFlight
               last == IF key = "shift" THEN down ELSE was
    <2>1. /\ PortServed /\ handled <= sent /\ InOrder(s, handled, sent) /\ s \in Seq(CodeRecords)
          /\ Faithful(s, bios.e0, bios.shift, was) /\ handled \in Nat
        BY <1>2, <1>7, FlightTyped DEF FlightInv, was
    <2>2. keyb'.buffer = IF Len(codes) = 1 THEN one
                         ELSE IF Len(codes) = 2 THEN two ELSE Append(two, codes[3])
        <3>1. Len(keyb.buffer) + Len(codes) <= KeyBufSize
            <4>1. ~(Len(keyb.buffer) + Len(codes) > KeyBufSize)
                BY <1>2, <1>7
            <4>2. Len(keyb.buffer) \in Nat /\ Len(codes) \in Nat /\ KeyBufSize \in Nat
                BY <1>1, <1>4, KeyBufAssumption
            <4> HIDE DEF codes
            <4> QED BY <4>1, <4>2
        <3> QED BY <3>1, <1>5
    <2>3. PortServed'
        BY <2>1, <1>3, <1>5 DEF PortServed, At, InHandler
    <2>4. Underway' = Underway
        BY <1>3, <1>5 DEF Underway, At, InHandler
    <2>5. InFlight' = Underway \o keyb'.buffer /\ InFlight = Underway \o keyb.buffer
          /\ Underway \in Seq(CodeRecords)
        BY <2>4, FlightTyped DEF InFlight, Underway
    <2> DEFINE s1 == Append(s, codes[1])
               s2 == Append(s1, codes[2])
               s3 == Append(s2, codes[3])
    <2>7. codes[1] \in CodeRecords /\ (Len(codes) # 1 => codes[2] \in CodeRecords)
          /\ (Len(codes) # 1 /\ Len(codes) # 2 => codes[3] \in CodeRecords)
        BY <1>4
    <2>8. InFlight' = IF Len(codes) = 1 THEN s1 ELSE IF Len(codes) = 2 THEN s2 ELSE s3
        <3> HIDE DEF codes
        <3>1. one \in Seq(CodeRecords) /\ Underway \o one = s1
            BY <1>1, <2>5, <2>7, ConcatAppend, AppendProperties, SMTT(40)
        <3> HIDE DEF one, s1
        <3>2. ASSUME Len(codes) # 1 PROVE two \in Seq(CodeRecords) /\ Underway \o two = s2
            <4>1. codes[2] \in CodeRecords
                BY <3>2, <2>7
            <4> QED BY <3>1, <4>1, <2>5, ConcatAppend, AppendProperties
        <3> HIDE DEF two, s2
        <3>3. ASSUME Len(codes) # 1, Len(codes) # 2 PROVE Underway \o Append(two, codes[3]) = s3
            <4>1. codes[3] \in CodeRecords
                BY <3>3, <2>7
            <4> QED BY <3>2, <3>3, <4>1, <2>5, ConcatAppend, SMTT(40)
        <3> HIDE DEF s3
        <3> QED BY <3>1, <3>2, <3>3, <2>2, <2>5
    <2>a. GoodFlight(s, sent, was)
        BY <2>1 DEF GoodFlight
    <2>9. GoodFlight(InFlight', sent', last)
        <3>1. CASE key = "up"
            <4> DEFINE c1 == Code("e0", FALSE, sent + 1, was)
                       c2 == Code("up", down, sent + 2, was)
            <4>1. codes = <<c1, c2>>
                BY <3>1 DEF CodesOf
            <4>2. c1.key = "e0" /\ c1.tag = sent + 1 /\ c1.was = was
                  /\ c2.key = "up" /\ c2.tag = (sent + 1) + 1 /\ c2.was = was
                BY <1>1 DEF Code
            <4> HIDE DEF c1, c2
            <4>3. Len(codes) = 2 /\ codes[1] = c1 /\ codes[2] = c2 /\ sent' = (sent + 1) + 1
                BY <4>1, <1>1, <1>2
            <4>4. c1 \in CodeRecords /\ c2 \in CodeRecords /\ InFlight' = s2
                BY <4>3, <2>7, <2>8
            <4> HIDE DEF codes
            <4>8. s1 = Append(s, c1)
                BY <4>3
            <4> HIDE DEF s, s1
            <4>5. s1 # <<>> /\ s1[Len(s1)] = c1 /\ GoodFlight(s1, sent + 1, was)
                <5>1. c1.key # "shift" /\ c1.key # "up" /\ c1.key # "outport"
                    BY <4>2
                <5> QED BY <5>1, <4>2, <4>4, <4>8, <2>1, <2>a, <1>1, FlightAppend
            <4>6. sent + 1 \in Nat
                BY <1>1
            <4>7. GoodFlight(s2, (sent + 1) + 1, was)
                BY <4>2, <4>3, <4>4, <4>5, <4>6, <2>1, <1>1, FlightAppend
            <4> QED BY <4>3, <4>4, <4>7, <3>1
        <3>2. CASE key = "pause"
            <4> DEFINE c1 == Code("e1", FALSE, sent + 1, was)
                       c2 == Code("ctrl", down, sent + 2, was)
                       c3 == Code("num", down, sent + 3, was)
            <4>1. codes = <<c1, c2, c3>>
                BY <3>2 DEF CodesOf
            <4>2. c1.key = "e1" /\ c1.tag = sent + 1 /\ c1.was = was
                  /\ c2.key = "ctrl" /\ c2.tag = (sent + 1) + 1 /\ c2.was = was
                  /\ c3.key = "num" /\ c3.tag = ((sent + 1) + 1) + 1 /\ c3.was = was
                BY <1>1 DEF Code
            <4> HIDE DEF c1, c2, c3
            <4>3. Len(codes) = 3 /\ codes[1] = c1 /\ codes[2] = c2 /\ codes[3] = c3
                  /\ sent' = ((sent + 1) + 1) + 1
                BY <4>1, <1>1, <1>2
            <4>4. c1 \in CodeRecords /\ c2 \in CodeRecords /\ c3 \in CodeRecords /\ InFlight' = s3
                BY <4>3, <2>7, <2>8
            <4> HIDE DEF codes
            <4>5. GoodFlight(s1, sent + 1, was)
                BY <4>2, <4>3, <4>4, <2>1, <2>a, <1>1, FlightAppend, SMTT(40)
            <4> HIDE DEF s1
            <4>6. sent + 1 \in Nat /\ (sent + 1) + 1 \in Nat
                BY <1>1
            <4>7. GoodFlight(s2, (sent + 1) + 1, was)
                BY <4>2, <4>3, <4>4, <4>5, <4>6, <2>1, <1>1, FlightAppend
            <4> HIDE DEF s2
            <4>9. s3 = Append(s2, c3) /\ c3.key # "shift" /\ c3.key # "up" /\ c3.key # "outport"
                BY <4>2, <4>3
            <4> HIDE DEF s3
            <4>8. GoodFlight(s3, ((sent + 1) + 1) + 1, was)
                BY <4>2, <4>4, <4>6, <4>7, <4>9, <2>1, <1>1, FlightAppend, SMTT(40)
            <4> QED BY <4>3, <4>4, <4>8, <3>2
        <3>3. CASE key \notin {"up", "pause"}
            <4> DEFINE c1 == Code(key, down, sent + 1, was)
            <4>1. codes = <<c1>>
                BY <3>3 DEF CodesOf
            <4>2. c1.key = key /\ c1.down = down /\ c1.tag = sent + 1 /\ c1.was = was
                BY <1>1 DEF Code
            <4> HIDE DEF c1
            <4>3. Len(codes) = 1 /\ codes[1] = c1 /\ sent' = sent + 1
                BY <4>1, <1>1, <1>2
            <4>4. c1 \in CodeRecords /\ InFlight' = s1
                BY <4>3, <2>7, <2>8
            <4> HIDE DEF codes
            <4>5. c1.key # "outport" /\ c1.key # "up"
                BY <4>2, <3>3 DEF Keys
            <4>6. GoodFlight(s1, sent + 1, last)
                BY <4>2, <4>3, <4>4, <4>5, <2>1, <2>a, <1>1, FlightAppend
            <4> QED BY <4>3, <4>4, <4>6
        <3> QED BY <3>1, <3>2, <3>3
    <2>b. last = ("shift" \in held')
        BY DEF was
    <2> HIDE DEF last
    <2> QED BY <2>3, <2>9, <2>b, <1>3 DEF GoodFlight
<1>8. ~disturbed' => ~disturbed
    BY <1>2
<1> QED BY <1>3, <1>6, <1>7, <1>8 DEF FlightInv

LEMMA FlightTransfer ==
    ASSUME KeyboardInv, PicTypeOK, FlightInv, Transfer
    PROVE  FlightInv'
<1> DEFINE d == IF At("decode") THEN <<steps[Len(steps)].code>> ELSE <<>>
           q == keyb.buffer
           l == keyb.transfers - 1
           t == [keyb EXCEPT !.scheduled = FALSE, !.transfers = l]
<1>1. /\ keyb' = IF q = <<>> THEN t ELSE [SetPort60(t, Head(q)) EXCEPT !.buffer = Tail(@)]
      /\ pic' = IF q = <<>> THEN pic ELSE ActivateIRQ(pic, 1)
      /\ UNCHANGED <<handlers, steps, bios, sent, handled, held, disturbed>>
    BY DEF Transfer, TransferBuffer, inputVars
<1>2. keyb \in Boards /\ keyb.transfers > 0 /\ BufferServed(keyb)
    BY DEF Transfer, KeyboardInv
<1>3. keyb.scheduled
    BY <1>2 DEF BufferServed
<1>4. d' = d /\ (At("in60")' <=> At("in60"))
    BY <1>1 DEF At, InHandler
<1>5. InFlight = (d \o IF keyb.changed THEN <<keyb.port60>> ELSE <<>>) \o q
      /\ InFlight' = (d \o IF keyb'.changed THEN <<keyb'.port60>> ELSE <<>>) \o keyb'.buffer
    BY <1>4 DEF InFlight
<1>6. CASE q = <<>>
    <2>1. keyb'.changed = keyb.changed /\ keyb'.port60 = keyb.port60 /\ keyb'.buffer = q
          /\ keyb'.scheduled = FALSE /\ keyb'.repeat = keyb.repeat
        BY <1>1, <1>2, <1>6 DEF Boards
    <2>2. InFlight' = InFlight
        BY <1>5, <2>1
    <2>3. PortServed => PortServed'
        BY <1>1, <1>4, <1>6, <2>1 DEF PortServed
    <2> QED BY <1>1, <2>1, <2>2, <2>3, FlightKept DEF FlightInv
<1>7. CASE q # <<>>
    <2> HIDE DEF l
    <2>1. t.buffer = q /\ t.changed = keyb.changed /\ t.scheduled = FALSE /\ t.repeat = keyb.repeat
        BY <1>2 DEF Boards
    <2>2. keyb' = [t EXCEPT !.changed = TRUE, !.port60 = Head(q), !.buffer = Tail(q)]
        BY <1>1, <1>2, <1>7, <2>1 DEF SetPort60, Boards
    <2>3. keyb'.changed = TRUE /\ keyb'.port60 = Head(q) /\ keyb'.buffer = Tail(q)
          /\ keyb'.scheduled = FALSE /\ keyb'.repeat = keyb.repeat
        BY <1>2, <2>1, <2>2 DEF Boards
    <2>4. 1 \in pic'.active
        BY <1>1, <1>7, ActiveKept
    <2>5. ASSUME PortServed PROVE PortServed' /\ InFlight' = InFlight
        <3>1. ~keyb.changed /\ ~At("in60")
            BY <2>5, <1>3 DEF PortServed
        <3>2. PortServed'
            BY <3>1, <2>3, <1>4 DEF PortServed
        <3>3. d \in Seq(CodeRecords) /\ q \in Seq(CodeRecords)
            <4>1. At("decode") => steps[Len(steps)] \in StepRecords
                BY AtTop DEF KeyboardInv
            <4>2. At("decode") => steps[Len(steps)].code \in CodeRecords
                BY <4>1 DEF StepRecords
            <4> QED BY <4>2, <1>2 DEF Boards
        <3> HIDE DEF d, q
        <3>4. InFlight = d \o q
            BY <3>1, <3>3, <1>5, ConcatEmptySeq
        <3>5. InFlight' = (d \o <<Head(q)>>) \o Tail(q)
            BY <2>3, <1>5
        <3> QED BY <3>2, <3>3, <3>4, <3>5, <1>7, FirstMoves
    <2> QED BY <1>1, <2>3, <2>5, FlightKept DEF FlightInv
<1> QED BY <1>6, <1>7

LEMMA FlightEnter ==
    ASSUME KeyboardInv, Stacks, ReaderInv, PicTypeOK, FlightInv, Enter
    PROVE  FlightInv'
<1> DEFINE i == First(Startable(pic))
           n == Len(steps)
<1>1. pic' = StartIRQ(pic, i) /\ handlers' = Append(handlers, [irq |-> i, ended |-> FALSE])
      /\ Startable(pic) # {} /\ enabled
    BY DEF Enter, Interrupt
<1>2. steps' = Append(steps, [pc |-> IF i = 1 THEN "in60" ELSE "sti", code |-> Ack])
      /\ UNCHANGED <<keyb, bios, held, sent, handled, disturbed>>
    BY DEF Enter, inputVars
<1>3. Startable(pic) \subseteq pic.active
    BY DEF Startable, Deliverable
<1>4. i \in pic.active
    <2>1. Startable(pic) \subseteq IRQ
        BY <1>3 DEF PicTypeOK, Controllers
    <2> QED BY <1>1, <1>3, <2>1, FirstOfLines
<1> HIDE DEF i
<1>5. pic'.active = pic.active \ {i}
    BY <1>1 DEF StartIRQ, PicTypeOK, Controllers
<1>6. \A pc \in {"in60", "decode"} : ~At(pc)
    <2>1. At("in60") => n \in 1 .. n
        BY AtTop
    <2>2. At("decode") => n \in 1 .. n
        BY AtTop
    <2> QED BY <1>1, <2>1, <2>2 DEF ReaderInv, At
<1>7. Len(steps') = n + 1 /\ steps'[n + 1].pc = IF i = 1 THEN "in60" ELSE "sti"
    BY <1>2 DEF Stacks
<1>8. At("decode")' = FALSE /\ (At("in60")' => i = 1)
    BY <1>7 DEF At
<1>9. InFlight' = InFlight
    BY <1>2, <1>6, <1>8 DEF InFlight
<1>10. PortServed => PortServed'
    BY <1>2, <1>4, <1>5, <1>8 DEF PortServed
<1> QED BY <1>2, <1>9, <1>10, FlightKept DEF FlightInv

LEMMA FlightIn60 ==
    ASSUME KeyboardInv, FlightInv, In60
    PROVE  FlightInv'
<1> DEFINE n == Len(steps)
           r == [keyb EXCEPT !.changed = FALSE]
           step == [pc |-> "decode", code |-> keyb.port60]
<1>1. /\ At("in60") /\ keyb' = ReadP60(keyb) /\ steps' = [steps EXCEPT ![n] = step]
      /\ UNCHANGED <<pic, handlers, bios, held, sent, handled, disturbed>>
    BY DEF In60, picVars, inputVars
<1>2. n \in 1 .. n /\ steps \in Seq(StepRecords) /\ steps[n].pc = "in60" /\ handlers # <<>>
    BY <1>1, AtTop DEF KeyboardInv
<1>3. keyb \in Boards /\ keyb.port60 \in CodeRecords /\ keyb.buffer \in Seq(CodeRecords)
    BY DEF KeyboardInv, Boards
<1>4. keyb'.changed = FALSE /\ keyb'.buffer = keyb.buffer /\ keyb'.repeat = keyb.repeat
    BY <1>1, <1>3 DEF ReadP60, Schedule, Boards
<1>5. Len(steps') = n /\ steps'[n] = step
    <2> HIDE DEF step
    <2> QED BY <1>1, <1>2
<1>6. At("decode")' /\ ~At("in60")' /\ ~At("decode")
    BY <1>1, <1>2, <1>5 DEF At, InHandler
<1>7. ASSUME PortServed PROVE PortServed' /\ InFlight' = InFlight
    <2>1. keyb.changed /\ 1 \notin pic.active
        BY <1>1, <1>7 DEF PortServed
    <2>2. PortServed'
        BY <2>1, <1>1, <1>4, <1>6 DEF PortServed
    <2>3. InFlight = (<<>> \o <<keyb.port60>>) \o keyb.buffer
        BY <2>1, <1>6 DEF InFlight
    <2>4. InFlight' = (<<keyb.port60>> \o <<>>) \o keyb.buffer
        <3>1. steps'[Len(steps')].code = keyb.port60
            BY <1>5
        <3>2. InFlight' = (IF At("decode")' THEN <<steps'[Len(steps')].code>> ELSE <<>>)
                            \o (IF keyb'.changed THEN <<keyb'.port60>> ELSE <<>>) \o keyb'.buffer
            BY DEF InFlight
        <3> HIDE DEF n, step
        <3> QED BY <3>1, <3>2, <1>4, <1>6
    <2>5. <<keyb.port60>> \in Seq(CodeRecords)
        BY <1>3
    <2> QED BY <2>2, <2>3, <2>4, <2>5, ConcatEmptySeq
<1> QED BY <1>1, <1>4, <1>7, FlightKept DEF FlightInv

\* What the callback makes of a code.
LEMMA BiosKeeps ==
    ASSUME NEW b \in Bioses, NEW code \in CodeRecords
    PROVE  LET r == IRQ1Handler(b, code)
           IN /\ r \in Bioses
              /\ r.shift = IF code.key = "shift" THEN code.down ELSE b.shift
              /\ code.key = "e0" => r.e0
              /\ \/ r.ring = b.ring
                 \/ /\ code.key \in {"a", "up", "outport"}
                    /\ r.ring = Append(b.ring, Stroke(b, code)) /\ Stroke(b, code) \in Strokes
<1> DEFINE stroke == Stroke(b, code)
           added == AddKeyToRing(b, stroke)
           effect == CASE code.key = "e1" -> [b EXCEPT !.e1 = TRUE]
                       [] code.key = "e0" -> [b EXCEPT !.e0 = TRUE]
                       [] code.key = "shift" -> [b EXCEPT !.shift = code.down]
                       [] code.key = "ctrl" /\ ~b.e1 -> [b EXCEPT !.ctrl = code.down]
                       [] code.key = "num" /\ b.e1 -> [b EXCEPT !.e1 = FALSE]
                       [] code.key \in {"a", "up", "outport"} /\ code.down -> added
                       [] OTHER -> b
           x == effect.e0 /\ code.key = "e0"
           y == effect.paused /\ ~code.down
           r == IRQ1Handler(b, code)
<1>1. stroke \in Strokes
    BY DEF Stroke, Strokes, CodeRecords, Bioses
<1>2. /\ added \in Bioses /\ added.shift = b.shift /\ added.e0 = b.e0
      /\ added.ring = b.ring \/ added.ring = Append(b.ring, stroke)
    <2> HIDE DEF stroke
    <2> DEFINE q == Append(b.ring, stroke)
    <2>1. q \in Seq(Strokes)
        BY <1>1 DEF Bioses
    <2>2. added = b \/ added = [b EXCEPT !.ring = q]
        BY DEF AddKeyToRing, Bioses
    <2> HIDE DEF q
    <2>3. added \in Bioses /\ added.shift = b.shift /\ added.e0 = b.e0 /\ (added.ring = b.ring \/ added.ring = q)
        BY <2>1, <2>2 DEF Bioses
    <2> QED BY <2>3 DEF q
<1>3. r = IF BeginsPause(b, code) THEN [effect EXCEPT !.paused = TRUE]
          ELSE [effect EXCEPT !.e0 = x, !.paused = y]
    BY DEF IRQ1Handler
<1> HIDE DEF stroke, added
<1>4. /\ effect \in Bioses /\ effect.shift = IF code.key = "shift" THEN code.down ELSE b.shift
      /\ code.key = "e0" => effect.e0
      /\ effect.ring = b.ring \/ (code.key \in {"a", "up", "outport"} /\ effect.ring = Append(b.ring, stroke))
    <2>1. CASE code.key = "e1"
        BY <2>1 DEF Bioses
    <2>2. CASE code.key = "e0"
        BY <2>2 DEF Bioses
    <2>3. CASE code.key = "shift"
        BY <2>3 DEF Bioses, CodeRecords
    <2>4. CASE code.key = "ctrl"
        BY <2>4 DEF Bioses, CodeRecords
    <2>5. CASE code.key = "num"
        BY <2>5 DEF Bioses
    <2>6. CASE code.key \notin {"e1", "e0", "shift", "ctrl", "num"}
        BY <2>6, <1>2
    <2> QED BY <2>1, <2>2, <2>3, <2>4, <2>5, <2>6
<1>5. x \in BOOLEAN /\ y \in BOOLEAN /\ (code.key = "e0" => x)
    BY <1>4
<1>6. BeginsPause(b, code) => code.key # "e0"
    BY DEF BeginsPause
<1> HIDE DEF effect, x, y
<1>7. r \in Bioses /\ r.shift = effect.shift /\ r.ring = effect.ring /\ (code.key = "e0" => r.e0)
    BY <1>3, <1>4, <1>5, <1>6 DEF Bioses
<1> HIDE DEF r
<1>8. /\ r \in Bioses /\ r.shift = IF code.key = "shift" THEN code.down ELSE b.shift
      /\ code.key = "e0" => r.e0
      /\ r.ring = b.ring \/ (code.key \in {"a", "up", "outport"} /\ r.ring = Append(b.ring, stroke))
    BY <1>4, <1>7
<1> QED BY <1>1, <1>8 DEF r, stroke

LEMMA RingRightAppend ==
    ASSUME NEW ring \in Seq(Strokes), RingRight(ring), NEW s \in Strokes, s.key \in Keys, s.shift = s.was
    PROVE  RingRight(Append(ring, s))
<1>1. /\ Len(Append(ring, s)) = Len(ring) + 1 /\ Append(ring, s)[Len(ring) + 1] = s /\ Len(ring) \in Nat
      /\ \A i \in 1 .. Len(ring) : Append(ring, s)[i] = ring[i]
    BY AppendProperties
<1>2. \A i \in 1 .. Len(ring) + 1 : i \in 1 .. Len(ring) \/ i = Len(ring) + 1
    BY <1>1
<1> QED BY <1>1, <1>2 DEF RingRight

LEMMA FlightDecode ==
    ASSUME KeyboardInv, Stacks, PicTypeOK, FlightInv, Decode
    PROVE  FlightInv'
<1> DEFINE n == Len(steps)
           code == steps[n].code
           p == IF keyb.changed THEN <<keyb.port60>> ELSE <<>>
           q == keyb.buffer
           s == InFlight
           now == IF code.tag = 0 THEN handled ELSE code.tag
           shift == IF code.key = "shift" THEN code.down ELSE bios.shift
<1>1. /\ At("decode") /\ bios' = IRQ1Handler(bios, code) /\ handled' = now
      /\ UNCHANGED <<keyb, sent, held, disturbed>>
    BY DEF Decode, inputVars
<1>2. PICK to \in {"idle", "eoi"} : Goto(to)
    BY DEF Decode
<1>3. Len(handlers') = Len(handlers) /\ pic'.active = pic.active
    BY EndKeepsLength, ActiveKept DEF Decode, picVars
<1>4. handlers # <<>> /\ n \in 1 .. n /\ steps[n] \in StepRecords
    BY <1>1, AtTop DEF KeyboardInv
<1>5. to \in Pcs \ {"in60", "decode"}
    BY DEF Pcs
<1>6. \A pc \in {"in60", "decode"} : ~At(pc)'
    BY <1>2, <1>3, <1>4, <1>5, GotoElsewhere
<1>7. code \in CodeRecords /\ p \in Seq(CodeRecords) /\ q \in Seq(CodeRecords)
    <2>1. code \in CodeRecords
        BY <1>4 DEF StepRecords
    <2>2. keyb.port60 \in CodeRecords /\ keyb.buffer \in Seq(CodeRecords)
        BY DEF KeyboardInv, Boards
    <2> QED BY <2>1, <2>2
<1>8. s = (<<code>> \o p) \o q /\ InFlight' = (<<>> \o p) \o q
    BY <1>1, <1>6 DEF InFlight
<1>9. PortServed => PortServed'
    BY <1>1, <1>3, <1>6 DEF PortServed
<1>10. bios \in Bioses /\ handled \in Nat /\ sent \in Nat
    BY DEF FlightInv, KeyboardInv
<1> HIDE DEF code, p, q
<1>11. /\ bios' \in Bioses /\ bios'.shift = shift /\ (code.key = "e0" => bios'.e0)
       /\ \/ bios'.ring = bios.ring
          \/ /\ code.key \in {"a", "up", "outport"}
             /\ bios'.ring = Append(bios.ring, Stroke(bios, code)) /\ Stroke(bios, code) \in Strokes
    BY <1>1, <1>7, <1>10, BiosKeeps
<1>12. handled' \in Nat
    BY <1>1, <1>7, <1>10 DEF CodeRecords
<1>13. s # <<>> /\ s[1] = code /\ Tail(s) = InFlight' /\ s \in Seq(CodeRecords)
    <2> DEFINE w == (<<code>> \o p) \o q
    <2>1. w # <<>> /\ w[1] = code /\ Tail(w) = (<<>> \o p) \o q
        BY <1>7, FirstRemoved
    <2>2. s = w /\ s \in Seq(CodeRecords)
        BY <1>8, FlightTyped
    <2> HIDE DEF w, s
    <2> QED BY <2>1, <2>2, <1>8
<1>14. ASSUME ~disturbed
       PROVE  /\ handled' <= sent /\ InOrder(InFlight', handled', sent)
              /\ Faithful(InFlight', bios'.e0, bios'.shift, "shift" \in held) /\ RingRight(bios'.ring)
    <2>1. /\ handled <= sent /\ InOrder(s, handled, sent) /\ RingRight(bios.ring)
          /\ Faithful(s, bios.e0, bios.shift, "shift" \in held)
        BY <1>14 DEF FlightInv
    <2>2. /\ code.tag = 0 => InOrder(InFlight', handled, sent)
          /\ code.tag # 0 => code.tag = handled + 1 /\ handled + 1 <= sent
                             /\ InOrder(InFlight', handled + 1, sent)
        BY <2>1, <1>10, <1>13, InOrderTail
    <2>3. handled' <= sent /\ InOrder(InFlight', handled', sent)
        BY <2>1, <2>2, <1>1
    <2> DEFINE after == "shift" \in held
    <2>a. PICK flag \in BOOLEAN, e0 \in BOOLEAN, before \in BOOLEAN :
              flag = bios'.e0 /\ e0 = bios.e0 /\ before = bios.shift
        BY <1>10, <1>11 DEF Bioses
    <2>4. Faithful(s, e0, before, after) /\ (s[1].key = "e0" => flag)
        BY <2>1, <2>a, <1>11, <1>13
    <2> HIDE DEF after, s
    <2>5. /\ Faithful(Tail(s), flag, IF s[1].key = "shift" THEN s[1].down ELSE before, after)
          /\ s[1].tag # 0 => s[1].was = before
          /\ s[1].key = "up" => e0
          /\ s[1].key # "outport"
        BY <2>4, <1>13, FaithfulTail
    <2>6. Faithful(InFlight', bios'.e0, bios'.shift, "shift" \in held)
        BY <2>5, <2>a, <1>11, <1>13 DEF after
    <2>7. code.tag = 0 => code.key = "ack"
        <3>1. 1 \in 1 .. Len(s)
            BY <1>13
        <3> QED BY <3>1, <2>4, <1>13 DEF Faithful
    <2>8. RingRight(bios'.ring)
        <3>1. CASE bios'.ring = bios.ring
            BY <3>1, <2>1
        <3>2. CASE bios'.ring # bios.ring
            <4> DEFINE stroke == Stroke(bios, code)
            <4>1. code.key \in {"a", "up"} /\ bios'.ring = Append(bios.ring, stroke) /\ stroke \in Strokes
                BY <3>2, <1>11, <1>13, <2>5
            <4>2. code.was = bios.shift /\ (code.key = "up" => bios.e0)
                BY <4>1, <2>5, <2>7, <2>a, <1>13
            <4>3. stroke.key \in Keys /\ stroke.shift = stroke.was
                BY <4>1, <4>2 DEF Stroke, Keys
            <4>4. bios.ring \in Seq(Strokes)
                BY <1>10 DEF Bioses
            <4> HIDE DEF stroke
            <4> QED BY <4>1, <4>3, <4>4, <2>1, RingRightAppend
        <3> QED BY <3>1, <3>2
    <2> QED BY <2>3, <2>6, <2>8
<1> QED BY <1>1, <1>9, <1>11, <1>12, <1>14 DEF FlightInv

LEMMA FlightPoll60 ==
    ASSUME KeyboardInv, Stacks, FlightInv, Poll60
    PROVE  FlightInv'
<1>1. /\ keyb' = ReadP60(keyb) /\ disturbed' = (disturbed \/ keyb.changed)
      /\ UNCHANGED <<pic, handlers, steps, bios, held, sent, handled>>
    BY DEF Poll60, Ports
<1>2. keyb \in Boards
    BY DEF KeyboardInv
<1>3. keyb'.changed = FALSE /\ keyb'.buffer = keyb.buffer /\ keyb'.port60 = keyb.port60
      /\ keyb'.repeat = keyb.repeat
    BY <1>1, <1>2 DEF ReadP60, Schedule, Boards
<1>4. \A pc \in {"in60", "decode"} : ~At(pc) /\ ~At(pc)'
    BY <1>1, GuestNotReading DEF Poll60, Ports, At, InHandler
<1>5. ASSUME ~disturbed', PortServed PROVE PortServed' /\ InFlight' = InFlight
    <2>1. keyb.changed = FALSE
        BY <1>1, <1>2, <1>5 DEF Boards
    <2>2. PortServed'
        BY <2>1, <1>1, <1>3, <1>4, <1>5 DEF PortServed
    <2>3. InFlight' = InFlight
        BY <2>1, <1>3, <1>4 DEF InFlight
    <2> QED BY <2>2, <2>3
<1> QED BY <1>1, <1>3, <1>5, FlightKept DEF FlightInv

\* The buffer a command leaves: as it was, or with nothing but an answer in it.
LEMMA WriteP60Is ==
    ASSUME NEW k \in Boards, NEW byte \in {"leds", "rate", "data"}
    PROVE  LET r == WriteP60(k, byte)
           IN /\ r.port60 = k.port60 /\ r.changed = k.changed /\ r.repeat = k.repeat
              /\ (k.changed => ~k.scheduled) => (r.changed => ~r.scheduled)
              /\ \/ r.buffer = k.buffer /\ k.command = "outport"
                 \/ r.buffer = <<Ack>> /\ k.command # "outport"
<1>a. Ack \in CodeRecords
    BY DEF Ack, Code, CodeRecords, KeyNames
<1>1. ASSUME NEW c \in Commands
      PROVE  LET r == AddBuffer([ClrBuffer(k) EXCEPT !.command = c], Ack)
             IN /\ r.port60 = k.port60 /\ r.changed = k.changed /\ r.repeat = k.repeat
                /\ r.changed => ~r.scheduled
                /\ r.buffer = <<Ack>>
    <2> DEFINE e == [ClrBuffer(k) EXCEPT !.command = c]
    <2>1. <<>> \in Seq(CodeRecords)
        OBVIOUS
    <2>2. e \in Boards /\ e.buffer = <<>> /\ e.port60 = k.port60 /\ e.changed = k.changed
          /\ e.repeat = k.repeat /\ e.scheduled = FALSE
        BY <2>1, <1>1 DEF ClrBuffer, Boards
    <2> HIDE DEF e
    <2> DEFINE r == AddBuffer(e, Ack)
    <2>3. r \in Boards /\ SamePort(e, r)
          /\ r.buffer = IF Len(e.buffer) >= KeyBufSize THEN e.buffer ELSE Append(e.buffer, Ack)
        BY <2>2, <1>a, AddBufferIs
    <2> HIDE DEF r
    <2>4. ~(Len(<<>>) >= KeyBufSize) /\ Append(<<>>, Ack) = <<Ack>>
        BY KeyBufAssumption
    <2>5. r.buffer = <<Ack>>
        BY <2>2, <2>3, <2>4
    <2>6. r.port60 = k.port60 /\ r.changed = k.changed /\ r.repeat = k.repeat /\ (r.changed => ~r.scheduled)
        BY <2>2, <2>3 DEF SamePort
    <2> QED BY <2>5, <2>6 DEF r, e
<1>2. CASE k.command = "none"
    <2> DEFINE c == IF byte \in {"leds", "rate"} THEN byte ELSE k.command
    <2>1. c \in Commands
        BY DEF Boards, Commands
    <2>2. WriteP60(k, byte) = AddBuffer([ClrBuffer(k) EXCEPT !.command = c], Ack)
        BY <1>2 DEF WriteP60, ClrBuffer, Boards
    <2> HIDE DEF c
    <2> QED BY <2>1, <2>2, <1>1, <1>2
<1>3. CASE k.command = "outport"
    <2>1. WriteP60(k, byte) = [k EXCEPT !.command = "none"]
        BY <1>3 DEF WriteP60
    <2> QED BY <2>1, <1>3 DEF Boards
<1>4. CASE k.command # "none" /\ k.command # "outport"
    <2>1. WriteP60(k, byte) = AddBuffer([ClrBuffer(k) EXCEPT !.command = "none"], Ack)
        BY <1>4 DEF WriteP60
    <2>2. "none" \in Commands
        BY DEF Commands
    <2> QED BY <2>1, <2>2, <1>1, <1>4
<1> QED BY <1>2, <1>3, <1>4

LEMMA FlightSend60 ==
    ASSUME KeyboardInv, Stacks, FlightInv, NEW byte \in {"leds", "rate", "data"}, Send60(byte)
    PROVE  FlightInv'
<1>1. /\ keyb' = WriteP60(keyb, byte)
      /\ disturbed' = (disturbed \/ (keyb.command # "outport" /\ Buffered))
      /\ UNCHANGED <<pic, handlers, steps, bios, held, sent, handled>>
    BY DEF Send60, Ports
<1>2. keyb \in Boards
    BY DEF KeyboardInv
<1>3. /\ keyb'.port60 = keyb.port60 /\ keyb'.changed = keyb.changed /\ keyb'.repeat = keyb.repeat
      /\ (keyb.changed => ~keyb.scheduled) => (keyb'.changed => ~keyb'.scheduled)
      /\ \/ keyb'.buffer = keyb.buffer /\ keyb.command = "outport"
         \/ keyb'.buffer = <<Ack>> /\ keyb.command # "outport"
    BY <1>1, <1>2, WriteP60Is
<1>4. PortServed => PortServed'
    BY <1>1, <1>3 DEF PortServed, At, InHandler
<1>5. /\ Underway \in Seq(CodeRecords) /\ keyb.buffer \in Seq(CodeRecords)
      /\ InFlight = Underway \o keyb.buffer /\ InFlight' = Underway \o keyb'.buffer
    BY <1>1, <1>3, FlightTyped DEF Underway, InFlight, At, InHandler
<1>6. CASE keyb'.buffer = keyb.buffer
    BY <1>1, <1>3, <1>4, <1>5, <1>6, FlightKept DEF FlightInv
<1>7. CASE keyb'.buffer = <<Ack>> /\ keyb.command # "outport"
    <2>1. ASSUME ~disturbed'
          PROVE  InOrder(InFlight', handled, sent) /\ Faithful(InFlight', bios.e0, bios.shift, "shift" \in held)
        <3> DEFINE q == keyb.buffer
                   r == <<Ack>>
                   after == "shift" \in held
        <3>1. \A i \in 1 .. Len(q) : q[i].tag = 0
            BY <1>1, <1>7, <2>1 DEF Buffered
        <3>2. r \in Seq(CodeRecords) /\ Len(r) = 1 /\ r[1] = Ack /\ Ack.tag = 0 /\ Ack.key = "ack"
            BY DEF Ack, Code, CodeRecords, KeyNames
        <3>3. \A i \in 1 .. Len(r) : r[i].tag = 0 /\ r[i].key = "ack"
            BY <3>2
        <3>4. InOrder(InFlight, handled, sent) /\ Faithful(InFlight, bios.e0, bios.shift, after)
            BY <1>1, <2>1 DEF FlightInv
        <3> HIDE DEF q, r, after
        <3>5. InOrder(Underway \o q, handled, sent) /\ Faithful(Underway \o q, bios.e0, bios.shift, after)
            BY <3>4, <1>5 DEF q
        <3>6. q \in Seq(CodeRecords)
            BY <1>5 DEF q
        <3>7. InOrder(Underway \o r, handled, sent)
            BY <3>1, <3>2, <3>3, <3>5, <3>6, <1>5, InOrderOwn
        <3>8. Faithful(Underway \o r, bios.e0, bios.shift, after)
            BY <3>1, <3>2, <3>3, <3>5, <3>6, <1>5, FaithfulOwn
        <3> QED BY <3>7, <3>8, <1>5, <1>7 DEF r, after
    <2> QED BY <1>1, <1>3, <1>4, <2>1, FlightKept DEF FlightInv
<1> QED BY <1>3, <1>6, <1>7

LEMMA FlightSend64 ==
    ASSUME KeyboardInv, Stacks, FlightInv, NEW command \in {"ae", "d0", "d1"}, Send64(command)
    PROVE  FlightInv'
<1>1. /\ keyb' = WriteP64(keyb, command) /\ disturbed' = (disturbed \/ command = "d0")
      /\ UNCHANGED <<handlers, steps, bios, held, sent, handled>>
    BY DEF Send64, Ports
<1>2. keyb \in Boards
    BY DEF KeyboardInv
<1>3. keyb'.repeat = keyb.repeat
    BY <1>1, <1>2 DEF WriteP64, SetPort60, Schedule, Boards
<1>4. CASE command = "d0"
    BY <1>1, <1>3, <1>4 DEF FlightInv
<1>5. CASE command # "d0"
    <2>1. pic' = pic
        BY <1>5 DEF Send64
    <2>2. /\ keyb'.buffer = keyb.buffer /\ keyb'.changed = keyb.changed /\ keyb'.port60 = keyb.port60
          /\ keyb.changed => keyb'.scheduled = keyb.scheduled
        BY <1>1, <1>2, <1>5 DEF WriteP64, Schedule, Boards
    <2>3. PortServed => PortServed'
        BY <2>1, <2>2, <1>1 DEF PortServed, At, InHandler
    <2>4. InFlight' = InFlight
        BY <2>2, <1>1 DEF InFlight, At, InHandler
    <2> QED BY <2>3, <2>4, <1>1, <1>3, FlightKept DEF FlightInv
<1> QED BY <1>4, <1>5

LEMMA FlightGetKey ==
    ASSUME FlightInv, GetKey
    PROVE  FlightInv'
<1> DEFINE q == Tail(bios.ring)
<1>1. /\ bios' = [bios EXCEPT !.ring = q] /\ bios.ring # <<>>
      /\ UNCHANGED <<pic, handlers, keyb, steps, held, sent, handled, disturbed>>
    BY DEF GetKey, SetFlag, inputVars
<1>2. bios \in Bioses /\ bios.ring \in Seq(Strokes)
    BY DEF FlightInv, Bioses
<1>3. q \in Seq(Strokes) /\ Len(q) = Len(bios.ring) - 1 /\ Len(bios.ring) \in Nat
      /\ \A i \in 1 .. Len(q) : q[i] = bios.ring[i + 1]
    BY <1>1, <1>2
<1> HIDE DEF q
<1>4. bios' \in Bioses /\ bios'.e0 = bios.e0 /\ bios'.shift = bios.shift /\ bios'.ring = q
    BY <1>1, <1>2, <1>3 DEF Bioses
<1>5. \A i \in 1 .. Len(q) : i + 1 \in 1 .. Len(bios.ring)
    BY <1>3
<1>6. RingRight(bios.ring) => RingRight(bios'.ring)
    BY <1>3, <1>4, <1>5 DEF RingRight
<1>7. InFlight' = InFlight /\ (PortServed => PortServed')
    BY <1>1 DEF InFlight, PortServed, At, InHandler
<1> QED BY <1>1, <1>4, <1>6, <1>7, FlightKept DEF FlightInv

LEMMA FlightStep ==
    KeyboardInv /\ Stacks /\ ReaderInv /\ PicTypeOK /\ FlightInv /\ [Next]_vars => FlightInv'
<1> SUFFICES ASSUME KeyboardInv, Stacks, ReaderInv, PicTypeOK, FlightInv, [Next]_vars PROVE FlightInv'
    OBVIOUS
<1>b. {"idle", "sti", "int74", "user", "ret", "eoi", "iret"} \subseteq Pcs \ {"in60", "decode"}
    BY DEF Pcs
<1>c. 1 # 12
    OBVIOUS
<1>1. ASSUME NEW key \in Keys, Press(key) PROVE FlightInv'
    <2>1. ("shift" \in held') = IF key = "shift" THEN TRUE ELSE "shift" \in held
        <3>1. held' = held \cup {key}
            BY <1>1 DEF Press
        <3>2. CASE key = "shift"
            BY <3>1, <3>2
        <3>3. CASE key # "shift"
            <4>1. "shift" \in held' <=> "shift" \in held
                BY <3>1, <3>3
            <4>2. ("shift" \in held') = ("shift" \in held)
                BY <4>1
            <4> QED BY <3>3, <4>2
        <3> QED BY <3>2, <3>3
    <2> QED BY <2>1, <1>1, FlightHostKey DEF Press
<1>2. ASSUME NEW key \in Keys, Release(key) PROVE FlightInv'
    <2>1. ("shift" \in held') = IF key = "shift" THEN FALSE ELSE "shift" \in held
        <3>1. held' = held \ {key}
            BY <1>2 DEF Release
        <3>2. CASE key = "shift"
            <4>1. "shift" \notin held'
                BY <3>1, <3>2
            <4>2. ("shift" \in held') = FALSE
                BY <4>1
            <4> QED BY <3>2, <4>2
        <3>3. CASE key # "shift"
            <4>1. "shift" \in held' <=> "shift" \in held
                BY <3>1, <3>3
            <4>2. ("shift" \in held') = ("shift" \in held)
                BY <4>1
            <4> QED BY <3>3, <4>2
        <3> QED BY <3>2, <3>3
    <2> QED BY <2>1, <1>2, FlightHostKey DEF Release
<1>3. CASE Repeat
    <2>1. keyb.repeat \in Keys /\ HostKey(keyb.repeat, TRUE) /\ held' = held
        BY <1>3 DEF Repeat, KeyboardInv, Boards
    <2>2. ("shift" \in held') = IF keyb.repeat = "shift" THEN TRUE ELSE "shift" \in held
        BY <2>1 DEF FlightInv
    <2> QED BY <2>1, <2>2, FlightHostKey
<1>4. CASE Transfer
    BY <1>4, FlightTransfer
<1>5. CASE Enter
    BY <1>5, FlightEnter
<1>6. CASE In60
    BY <1>6, FlightIn60
<1>7. CASE Decode
    BY <1>7, FlightDecode
<1>8. CASE GetKey
    BY <1>8, FlightGetKey
<1>9. CASE Poll60
    BY <1>9, FlightPoll60
<1>10. ASSUME NEW byte \in {"leds", "rate", "data"}, Send60(byte) PROVE FlightInv'
    BY <1>10, FlightSend60
<1>11. ASSUME NEW command \in {"ae", "d0", "d1"}, Send64(command) PROVE FlightInv'
    BY <1>11, FlightSend64
<1>12. CASE \/ \E type \in EventTypes : HostMouse(type)
            \/ Limit \/ Flags \/ Idle
            \/ ResetDriver \/ SetVideoMode \/ SetSubroutine \/ SaveDriver \/ LoadDriver
            \/ UNCHANGED vars
    <2>1. UNCHANGED <<keyb, bios, sent, handled, held, disturbed, steps, handlers>>
        BY <1>12
        DEF HostMouse, Input, Limit, Flags, Mask, Idle, SetFlag, DisableInterrupts, ResetDriver,
            SetVideoMode, SetSubroutine, SaveDriver, LoadDriver, Driver, vars, inputVars, picVars
    <2>2. 1 \in pic'.active => 1 \in pic.active
        <3>1. CASE Limit \/ \E type \in EventTypes : HostMouse(type)
            <4>1. pic' = pic \/ pic' = ActivateIRQ(pic, 12)
                BY <3>1 DEF HostMouse, Limit
            <4> QED BY <4>1, <1>c, ActiveKept
        <3>2. CASE Flags \/ ResetDriver
            <4>1. \/ SetFlag \/ DisableInterrupts \/ pic' = pic
                  \/ \E c, m : pic' = WriteMask(pic, c, m) \/ pic' = SetIRQMask(pic, c, m)
                BY <3>2 DEF Flags, Mask, ResetDriver
            <4> QED BY <4>1, ActiveKept
        <3>3. CASE \/ Idle \/ SetVideoMode \/ SetSubroutine \/ SaveDriver \/ LoadDriver
                   \/ UNCHANGED vars
            BY <3>3
            DEF Idle, SetFlag, SetVideoMode, SetSubroutine, SaveDriver, LoadDriver, Driver,
                vars, picVars
        <3> QED BY <1>12, <3>1, <3>2, <3>3
    <2> QED BY <2>1, <2>2, FlightElsewhere
<1>13. CASE Resume \/ Sti \/ Int74 \/ UserReturns \/ Ret \/ Eoi
    <2>1. PICK from, to \in {"idle", "sti", "int74", "user", "ret", "eoi", "iret"} : At(from) /\ Goto(to)
        BY <1>13 DEF Resume, Sti, Int74, UserReturns, Ret, Eoi
    <2>2. UNCHANGED <<keyb, bios, sent, handled, held, disturbed>>
        BY <1>13 DEF Resume, Sti, Int74, UserReturns, Ret, Eoi, inputVars
    <2>3. pic'.active = pic.active /\ Len(handlers') = Len(handlers)
        BY <1>13, ActiveKept, EndKeepsLength
        DEF Resume, Sti, Int74, UserReturns, Ret, Eoi, SetFlag, DisableInterrupts, picVars
    <2>4. handlers # <<>> /\ \A pc \in {"in60", "decode"} : ~At(pc)
        BY <2>1, <1>b, NotReading
    <2>5. \A pc \in {"in60", "decode"} : ~At(pc)'
        BY <2>1, <2>3, <2>4, <1>b, GotoElsewhere
    <2> QED BY <2>2, <2>3, <2>4, <2>5, FlightElsewhere
<1>14. CASE Iret
    <2>1. \A pc \in {"in60", "decode"} : ~At(pc) /\ ~At(pc)'
        BY <1>14, IretElsewhere
    <2>2. UNCHANGED <<pic, keyb, bios, sent, handled, held, disturbed>>
        BY <1>14 DEF Iret, PopFrame, inputVars
    <2> QED BY <2>1, <2>2, FlightElsewhere
<1> QED BY <1>1, <1>2, <1>3, <1>4, <1>5, <1>6, <1>7, <1>8, <1>9, <1>10, <1>11, <1>12, <1>13, <1>14 DEF Next

LEMMA KeyboardPathHolds == Spec => [](KeyboardInv /\ FlightInv)
<1>1. Spec => []PicTypeOK
    BY MachineImplementsPic, PicTypeCorrect, PTL
<1>2. KeyboardInv /\ PicTypeOK => Stacks
    BY DEF KeyboardInv, Stacks
<1> QED BY <1>1, <1>2, KeyboardInit, KeyboardStep, ReaderInit, ReaderStep, FlightInit, FlightStep, PTL
        DEF Spec

\* Until a code is dropped, cleared or read past the handler, the BIOS decodes every code
\* of the host's keys once and in the order they were made, for every size of the buffer,
\* wherever handlers, timed transfers, masks and the guest's use of the ports fall.
THEOREM CodesExactlyOnce == Spec => []ExactlyOnce
<1>1. FlightInv => ExactlyOnce
    BY DEF FlightInv, InOrder, ExactlyOnce, Theirs
<1> QED BY <1>1, KeyboardPathHolds, PTL

\* And what it puts into its ring is then a key that was pressed, with the shift state of
\* that moment: the flags of the BIOS, which lag behind the host by the codes on their
\* way, agree with the host's keys when the key's own code is decoded.
THEOREM KeystrokesRight == Spec => []RightStrokes
<1>1. FlightInv => RightStrokes
    BY DEF FlightInv, RingRight, RightStrokes
<1> QED BY <1>1, KeyboardPathHolds, PTL
=============================================================================
