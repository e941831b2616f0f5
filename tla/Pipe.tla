-------------------------------- MODULE Pipe --------------------------------
(***************************************************************************)
(* What one direction of a TCP connection promises its writer: the peer    *)
(* gets a prefix of what was written, and when the connection has been     *)
(* closed in good order, all of it.                                        *)
(***************************************************************************)
EXTENDS Naturals

VARIABLES written, delivered, state

pipe == <<written, delivered, state>>

Init == written = 0 /\ delivered = 0 /\ state = "open"

Write ==
    /\ state = "open"
    /\ written' \in Nat /\ written' > written
    /\ UNCHANGED <<delivered, state>>

Deliver ==
    /\ delivered < written
    /\ delivered' \in delivered + 1 .. written
    /\ UNCHANGED <<written, state>>

Close ==
    /\ state = "open"
    /\ state' = "closing"
    /\ UNCHANGED <<written, delivered>>

Finish ==
    /\ state = "closing" /\ delivered = written
    /\ state' = "closed"
    /\ UNCHANGED <<written, delivered>>

\* Either side gives up.
Break ==
    /\ state \in {"open", "closing"}
    /\ state' = "broken"
    /\ UNCHANGED <<written, delivered>>

Next == Write \/ Deliver \/ Close \/ Finish \/ Break

Spec == Init /\ [][Next]_pipe
=============================================================================
