------------------------------ MODULE DosArena ------------------------------
(***************************************************************************)
(* What the memory of DOS promises to programs: an extent belongs to one   *)
(* owner, extents do not overlap, and a step changes what one owner holds. *)
(***************************************************************************)
EXTENDS Integers

CONSTANT System           \* owners whose extents never change
VARIABLE held             \* a set of [owner, first, last]

Disjoint(extents) ==
    \A d, e \in extents : d # e => d.last < e.first \/ e.last < d.first

Init == Disjoint(held) /\ \A e \in held : e.owner \in System

Next ==
    LET changed == (held \ held') \cup (held' \ held)
    IN \E owner \in {e.owner : e \in changed} \ System :
          /\ \A e \in changed : e.owner = owner
          /\ Disjoint(held')

Spec == Init /\ [][Next]_held
=============================================================================
