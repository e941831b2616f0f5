-------------------------------- MODULE Link --------------------------------
(***************************************************************************)
(* What the receiving half of a network interface promises the stack above *)
(* it: the frames of the wire in the order they came, none twice; frames   *)
(* may be lost, before or after they were taken off the wire.  A frame is  *)
(* the number under which it comes.  It promises nothing once the memory   *)
(* of its frames is broken.                                                *)
(***************************************************************************)
EXTENDS Integers, Sequences

CONSTANT Frames  \* the numbers of all frames

VARIABLES
    wire,     \* frames still to come
    passing,  \* frames on the way to the stack
    got,      \* those that reached it
    broken    \* nothing is promised any more

Oldest(f, S) == f \in S /\ \A g \in S : f <= g

Init == wire = Frames /\ passing = {} /\ got = <<>> /\ broken = FALSE

Take == \E f \in wire :
    /\ Oldest(f, wire) /\ wire' = wire \ {f}
    /\ passing' = passing \cup {f}
    /\ UNCHANGED got

Miss == \E f \in wire :
    /\ Oldest(f, wire) /\ wire' = wire \ {f}
    /\ UNCHANGED <<passing, got>>

\* Any of those on the way is given up.
Drop == \E f \in passing :
    /\ passing' = passing \ {f}
    /\ UNCHANGED <<wire, got>>

HandOver == \E f \in passing :
    /\ Oldest(f, passing) /\ passing' = passing \ {f}
    /\ got' = Append(got, f)
    /\ UNCHANGED wire

Break == broken' = TRUE

Next ==
    \/ (Take \/ Miss \/ Drop \/ HandOver) /\ UNCHANGED broken
    \/ Break

Spec == Init /\ [][Next]_<<wire, passing, got, broken>>
=============================================================================
