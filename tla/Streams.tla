------------------------------ MODULE Streams -------------------------------
(***************************************************************************)
(* What a reader of TCP connections expects of a socket layer: the         *)
(* messages of a connection come in the order they were sent, each once,   *)
(* and only when all have come is the reader told of the end.  It promises *)
(* nothing once the memory of its messages is broken.                      *)
(***************************************************************************)
EXTENDS Naturals

CONSTANT Conns

VARIABLES
    stream,
    broken  \* nothing is promised any more

Streams == [state : {"off", "open", "ended", "gone"},
            sent : Nat, read : Nat, told : BOOLEAN]

Off == [state |-> "off", sent |-> 0, read |-> 0, told |-> FALSE]

Init == stream = [c \in Conns |-> Off] /\ broken = FALSE

Open(c) ==
    /\ stream[c].state = "off"
    /\ stream' = [stream EXCEPT ![c].state = "open"]

\* The peer sends, ends its side, or both at once.
Arrive(c, n, end) ==
    /\ stream[c].state = "open"
    /\ stream' = [stream EXCEPT ![c].sent = @ + n,
                                ![c].state = IF end THEN "ended" ELSE "open"]

\* The connection is reset, or closed on this side.
Go(c) ==
    /\ stream[c].state \in {"open", "ended"}
    /\ stream' = [stream EXCEPT ![c].state = "gone"]

Read(c) ==
    /\ stream[c].read < stream[c].sent /\ ~stream[c].told
    /\ stream' = [stream EXCEPT ![c].read = @ + 1]

Tell(c) ==
    /\ ~stream[c].told
    /\ \/ stream[c].state = "gone"
       \/ stream[c].state = "ended" /\ stream[c].read = stream[c].sent
    /\ stream' = [stream EXCEPT ![c].told = TRUE]

\* The reader may leave at any time, without having been told.
Leave(c) == ~stream[c].told /\ stream' = [stream EXCEPT ![c] = Off]

Close(c) ==
    /\ stream[c].told /\ stream[c].state = "gone"
    /\ stream' = [stream EXCEPT ![c] = Off]

Break == broken' = TRUE

Some == \E c \in Conns :
    \/ Open(c) \/ Go(c) \/ Read(c) \/ Tell(c) \/ Leave(c) \/ Close(c)
    \/ \E n \in {0, 1}, end \in BOOLEAN : Arrive(c, n, end)

Next == (Some /\ UNCHANGED broken) \/ Break

Spec == Init /\ [][Next]_<<stream, broken>>
=============================================================================
