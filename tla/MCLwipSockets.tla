--------------------------- MODULE MCLwipSockets ----------------------------
(* Instances of LwipSockets for TLC.                                       *)
EXTENDS LwipSockets

CONSTANTS c1, c2, Most

\* One connection sends more than its mailbox holds, the other only ends.
Segments == [c \in Conns |-> IF c = c1 THEN Most ELSE 0]

\* The server is told of the end of a connection, unless by one of the accidents
\* that EndIsSeenOf names.  c1 may do all that c2 may.
EndIsSeen == EndIsSeenOf(c1)
=============================================================================
