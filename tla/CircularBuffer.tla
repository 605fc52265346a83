--------------------------- MODULE CircularBuffer ---------------------------
(***************************************************************************)
(* The input event buffer of the native library: circular_buffer.h as it   *)
(* is used by user_input.c.  The producer is the Android UI thread         *)
(* (nativeMouse, nativeKey: CBUF_PUT); the consumer is the emulator thread *)
(* (poll_event, and user_input_destroy when the emulator has returned).    *)
(*                                                                         *)
(* Each step is one access to the shared structure.  Its fields are plain  *)
(* ints and structs, so the accesses of the two threads race:              *)
(*   - a field that the source reads again may be reloaded or taken from   *)
(*     the register that holds the earlier load;                           *)
(*   - an element is a struct copied word by word, here two halves, so a   *)
(*     copy may see one half of each of two elements;                      *)
(*   - nothing orders the stores of the element and of ind_put unless the  *)
(*     machine does (InOrderStores).                                       *)
(* The n-th event put is the number n: both its halves hold n.             *)
(***************************************************************************)
EXTENDS Integers, Sequences

CONSTANTS
    Capacity,       \* CBUF_SIZE
    MaxPuts,        \* bound: how many events the producer puts
    Racing,         \* may a put overwrite during a poll?  TRUE in the program
    InOrderStores,  \* are a put's stores seen in program order (one core)?
    MayReload       \* may the compiler load again a field it has in a register?

ASSUME CapacityAssumption == Capacity \in Nat /\ Capacity >= 2
ASSUME MaxPutsAssumption == MaxPuts \in Nat
ASSUME ModeAssumption == {Racing, InOrderStores, MayReload} \subseteq BOOLEAN

Size == Capacity + 1            \* cb.size: one slot stays open
Slots == 0 .. Capacity
Halves == {"kind", "payload"}
EmptyValue == [h \in Halves |-> 0]       \* NO_EVENT
SuccNoWrap(i) == i + 1                   \* mutant: the wrap is forgotten
Succ(i) == (i + 1) % Size

VARIABLES
    body, indPut, indGet,       \* the shared structure
    pPc, rcur, slot, pending,   \* the producer, its registers and pending stores
    cPc, rput, rget, res,       \* the consumer and its registers
    draining,                   \* user_input_destroy has been called
    away,                       \* GFX_Events returns without polling
    puts,                       \* events put so far (the one in progress included)
    head, tail,                 \* history: how often each index has advanced
    reordered,                  \* history: an index was seen before its element
    base,                       \* history: head when the current poll began
    delivered                   \* history: what poll_event has handed out

shared   == <<body, indPut, indGet>>
producer == <<pPc, rcur, slot, pending, puts, reordered>>
consumer == <<cPc, rput, rget, res, draining, away, base, delivered>>
vars     == <<shared, producer, consumer, head, tail>>

Init ==
    /\ body = [i \in Slots |-> EmptyValue]
    /\ indPut = 0 /\ indGet = 0
    /\ pPc = "idle" /\ rcur = 0 /\ slot = 0 /\ pending = {} /\ puts = 0
    /\ reordered = FALSE
    /\ cPc = "idle" /\ rput = 0 /\ rget = 0 /\ res = EmptyValue
    /\ draining = FALSE /\ away = FALSE /\ base = 0 /\ delivered = <<>>
    /\ head = 0 /\ tail = 0

\* The compare-and-swap both threads use on the read index succeeds.
CasSwapped(old) == indGet = Succ(old)    \* mutants: its arguments in the wrong order,
CasAlways(old) == TRUE                   \* a plain store instead of it
Cas(old) == indGet = old

IsEmpty(p, g) == p = g

-----------------------------------------------------------------------------
(* CBUF_PUT *)

IsFullNoOpenSlot == indPut = indGet      \* mutant: all the slots are used
IsFull == Succ(indPut) = indGet

\* The element is stored before the index where stores are in program order.
MayPublish == InOrderStores => pending = {"index"}

\* wnext = (ind_put + 1) % size; rcur = ind_get.  Only this thread writes ind_put.
PutBegin ==
    /\ pPc = "idle" /\ puts < MaxPuts
    /\ Racing \/ ~IsFull \/ cPc \in {"idle", "done"}
    /\ slot' = indPut
    /\ rcur' = indGet
    /\ puts' = puts + 1
    /\ IF IsFull
       THEN pPc' = "overwrite" /\ pending' = {}
       ELSE pPc' = "store" /\ pending' = Halves \cup {"index"}
    /\ UNCHANGED <<shared, consumer, head, tail, reordered>>

\* The buffer was full: compare-and-swap the read index past the oldest element.
PutOverwrite ==
    /\ pPc = "overwrite"
    /\ IF Cas(rcur)
       THEN indGet' = Succ(rcur) /\ head' = head + 1
       ELSE UNCHANGED <<indGet, head>>
    /\ pPc' = "store"
    /\ pending' = Halves \cup {"index"}
    /\ UNCHANGED <<body, indPut, rcur, slot, puts, reordered, consumer, tail>>

PutDone(w) ==
    /\ pending' = pending \ {w}
    /\ pPc' = IF pending' = {} THEN "idle" ELSE "store"
    /\ UNCHANGED <<rcur, slot, puts>>

\* body[ind_put] = val, one half of it.
PutStore(h) ==
    /\ pPc = "store" /\ h \in pending
    /\ body' = [body EXCEPT ![slot][h] = puts]
    /\ PutDone(h)
    /\ UNCHANGED <<indPut, indGet, reordered, consumer, head, tail>>

\* ind_put = wnext.
PutPublish ==
    /\ pPc = "store" /\ "index" \in pending
    /\ MayPublish
    /\ indPut' = Succ(slot)
    /\ tail' = tail + 1
    /\ reordered' = (reordered \/ pending # {"index"})
    /\ PutDone("index")
    /\ UNCHANGED <<body, indGet, consumer, head>>

-----------------------------------------------------------------------------
(* poll_event and user_input_destroy: CBUF_IS_EMPTY, then CBUF_GET *)

\* What a second read of a field can yield: the register, or the field as it is now.
Reread(register, field) == {register} \cup (IF MayReload THEN {field} ELSE {})

\* The first operand of CBUF_IS_EMPTY.
CheckBegin ==
    /\ cPc = "idle"
    /\ away => draining
    /\ Racing \/ pPc # "overwrite"
    /\ cPc' = "check"
    /\ rput' = indPut
    /\ base' = head
    /\ UNCHANGED <<shared, producer, rget, res, draining, away, delivered, head, tail>>

\* The second operand.  An empty buffer ends a poll, and ends the drain for good.
CheckEmpty ==
    /\ cPc = "check"
    /\ rget' = indGet
    /\ cPc' = IF ~IsEmpty(rput, indGet) THEN "get"
               ELSE IF draining THEN "done" ELSE "idle"
    /\ UNCHANGED <<shared, producer, rput, res, draining, away, base, delivered, head, tail>>

\* CBUF_GET tests for emptiness again.
GetCheck ==
    /\ cPc = "get"
    /\ \E p \in Reread(rput, indPut), g \in Reread(rget, indGet) :
        /\ rput' = p /\ rget' = g
        /\ IF IsEmpty(p, g)
           THEN /\ cPc' = "idle"
                /\ res' = EmptyValue
                /\ delivered' = IF draining THEN delivered
                                ELSE Append(delivered, EmptyValue)
           ELSE cPc' = "kind" /\ UNCHANGED <<res, delivered>>
    /\ UNCHANGED <<shared, producer, draining, away, base, head, tail>>

\* res = body[ind_get]: the index, and the first half ...
GetKind ==
    /\ cPc = "kind"
    /\ \E g \in Reread(rget, indGet) :
        /\ rget' = g
        /\ res' = [res EXCEPT !["kind"] = body[g]["kind"]]
    /\ cPc' = "payload"
    /\ UNCHANGED <<shared, producer, rput, draining, away, base, delivered, head, tail>>

\* ... and the second half, of the same slot; then rval = ind_get.
GetPayload ==
    /\ cPc = "payload"
    /\ res' = [res EXCEPT !["payload"] = body[rget]["payload"]]
    /\ rget' \in Reread(rget, indGet)
    /\ cPc' = "cas"
    /\ UNCHANGED <<shared, producer, rput, draining, away, base, delivered, head, tail>>

\* Compare-and-swap the read index.  Its result is ignored: res is returned anyway.
GetAdvance ==
    /\ cPc = "cas"
    /\ IF Cas(rget)
       THEN indGet' = Succ(rget) /\ head' = head + 1
       ELSE UNCHANGED <<indGet, head>>
    /\ delivered' = IF draining THEN delivered ELSE Append(delivered, res)
    /\ cPc' = "idle"
    /\ UNCHANGED <<body, indPut, producer, rput, rget, res, draining, away, base, tail>>

\* user_input_destroy: from now on what is read is thrown away.
UserInputDestroy ==
    /\ cPc = "idle" /\ ~draining
    /\ draining' = TRUE
    /\ UNCHANGED <<shared, producer, cPc, rput, rget, res, away, base, delivered, head, tail>>

\* GFX_Events finds the user's pause, and sleeps in PauseDOSBox until it is taken
\* back, or finds that the user wants to leave, and types "exit" instead of polling;
\* or the user has resumed, and the next GFX_Events tests both again.
LeaveOrResume ==
    /\ cPc = "idle" /\ ~draining
    /\ away' = ~away
    /\ UNCHANGED <<shared, producer, cPc, rput, rget, res, draining, base, delivered, head, tail>>

-----------------------------------------------------------------------------
Producer == PutBegin \/ PutOverwrite \/ (\E h \in Halves : PutStore(h)) \/ PutPublish
Poll == CheckBegin \/ CheckEmpty \/ GetCheck \/ GetKind \/ GetPayload \/ GetAdvance

Next == Producer \/ Poll \/ UserInputDestroy \/ LeaveOrResume

Spec == Init /\ [][Next]_vars

\* The emulator loop polls again and again while it is not away (Normal_Loop,
\* GFX_Events), and a put that has begun ends.  What the user does is owed by nobody:
\* neither a pause, nor the resume that would end it, nor the end of the emulator.
FairSpec == Spec /\ WF_vars(Poll) /\ WF_vars(Producer /\ pPc # "idle")
-----------------------------------------------------------------------------
(* Properties *)

TypeOK ==
    /\ body \in [Slots -> [Halves -> Nat]]
    /\ indPut \in Slots /\ indGet \in Slots
    /\ pPc \in {"idle", "overwrite", "store"}
    /\ rcur \in Slots /\ slot \in Slots
    /\ pending \subseteq Halves \cup {"index"}
    /\ cPc \in {"idle", "check", "get", "kind", "payload", "cas", "done"}
    /\ rput \in Slots /\ rget \in Slots
    /\ res \in [Halves -> Nat]
    /\ draining \in BOOLEAN /\ away \in BOOLEAN
    /\ reordered \in BOOLEAN
    /\ puts \in Nat /\ head \in Nat /\ tail \in Nat /\ base \in Nat
    /\ delivered \in Seq([Halves -> Nat])

\* However the two threads interleave, and although both of them move the read
\* index, it never passes the write index and never falls a whole ring behind:
\* the distance between the two is always the number of events in the buffer.
IndicesInStep ==
    /\ head <= tail /\ tail - head <= Capacity
    /\ indPut - indGet \in {tail - head, tail - head - Size}

\* A read whose compare-and-swap fails still returns its element, so an element
\* can be handed out twice; yet poll_event never returns more events than have
\* left the buffer, read or overwritten, hence never more than were put.
NoSurplus == Len(delivered) <= head

\* As long as stores were seen in program order, poll_event never returns any half
\* of an event that had left the buffer before this poll began, nor of a slot not
\* yet written: what it returns may be torn or too new, but it is never stale.
NeverStale == cPc = "cas" /\ ~reordered => \A h \in Halves : res[h] > base

\* circular_buffer.h:6 "fixed-sized FIFO circular buffer": events come out in the
\* order in which they went in, each at most once and in one piece.
Fifo ==
    \A i \in 1 .. Len(delivered) :
        /\ delivered[i]["kind"] = delivered[i]["payload"]
        /\ i > 1 => delivered[i]["kind"] > delivered[i - 1]["kind"]

\* The threads' view of the abstract queue: the slots from the read index on,
\* without the element that a put in progress has not yet published.
Queue == [i \in 1 .. tail - head |-> body[(indGet + i - 1) % Size]]
Abstract == INSTANCE EventQueue WITH
    Event <- [Halves -> 1 .. MaxPuts], queue <- Queue,
    accepted <- [i \in 1 .. tail |-> [h \in Halves |-> i]]
\* Although the threads race, the code is a FIFO queue that forgets its oldest element
\* when full, step by step, as long as no put overwrites in the middle of a poll.
IsFifoQueue == Abstract!Spec

\* Every event put is read or overwritten in the end, unless the emulator has shut
\* down or GFX_Events stops polling: an event waits as long as the user's pause does,
\* and no longer.
Consumed ==
    \A n \in 1 .. MaxPuts :
        (tail >= n) ~> (head >= n \/ cPc = "done" \/ (away /\ ~draining))

\* user_input_destroy returns once the user has stopped touching the screen.
DrainEnds == draining ~> (cPc = "done")
=============================================================================
