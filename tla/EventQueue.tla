----------------------------- MODULE EventQueue -----------------------------
(***************************************************************************)
(* What circular_buffer.h promises in its header comment: a FIFO queue of  *)
(* bounded size in which a write into a full buffer loses the oldest       *)
(* element, and nothing else is ever lost, duplicated or reordered.        *)
(* CircularBuffer is the code, shown to implement this module as long as   *)
(* its producer does not overwrite in the middle of a poll.                *)
(***************************************************************************)
EXTENDS Naturals, Sequences

CONSTANTS Event,      \* the values that may be put
          Capacity    \* how many values the queue holds

VARIABLES accepted,   \* everything the producer put, in order
          queue,      \* put and not yet taken, oldest first
          delivered   \* everything the consumer received, in order

qvars == <<accepted, queue, delivered>>

Init == accepted = <<>> /\ queue = <<>> /\ delivered = <<>>

Put(e) ==
    /\ Len(queue) < Capacity
    /\ accepted' = Append(accepted, e)
    /\ queue' = Append(queue, e)
    /\ UNCHANGED delivered

\* Room for a new element is made by forgetting the oldest one, only when full.
DropOldest ==
    /\ Len(queue) = Capacity
    /\ queue' = Tail(queue)
    /\ UNCHANGED <<accepted, delivered>>

Get ==
    /\ queue # <<>>
    /\ delivered' = Append(delivered, Head(queue))
    /\ queue' = Tail(queue)
    /\ UNCHANGED accepted

\* The consumer shuts down and throws away what it takes.
Discard ==
    /\ queue # <<>>
    /\ queue' = Tail(queue)
    /\ UNCHANGED <<accepted, delivered>>

Next == (\E e \in Event : Put(e)) \/ DropOldest \/ Get \/ Discard

Spec == Init /\ [][Next]_qvars
=============================================================================
