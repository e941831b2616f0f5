------------------------------ MODULE TimerSet ------------------------------
(***************************************************************************)
(* What a thread with timers promises its handlers: a timer that was armed *)
(* for so many milliseconds is not run before they have passed, it is run  *)
(* once, and it is not run again while it runs.  It promises nothing once  *)
(* the memory of its timers is broken.                                     *)
(***************************************************************************)
EXTENDS Integers, FiniteSets

CONSTANTS Handlers, Interval

VARIABLES
    timer,   \* of each handler: its state, and what is left of its time
    broken   \* nothing is promised any more

Timers == [state : {"off", "armed", "running"}, left : Nat]
Off == [state |-> "off", left |-> 0]
Armed(ms) == [state |-> "armed", left |-> ms]
Running == [state |-> "running", left |-> 0]

Init ==
    /\ broken = FALSE
    /\ \E S \in SUBSET Handlers :
          timer = [h \in Handlers |-> IF h \in S THEN Armed(Interval[h]) ELSE Off]

\* A timer is armed by its handler, at its end, or by somebody else.
Arm(h) ==
    /\ timer[h].state # "armed"
    /\ timer' = [timer EXCEPT ![h] = Armed(Interval[h])]

Fire(h) ==
    /\ timer[h].state = "armed" /\ timer[h].left = 0
    /\ timer' = [timer EXCEPT ![h] = Running]

End(h) ==
    /\ timer[h].state = "running"
    /\ timer' = [timer EXCEPT ![h] = Off]

Tick ==
    timer' = [h \in Handlers |->
                 [timer[h] EXCEPT !.left = IF @ > 0 THEN @ - 1 ELSE 0]]

Break == broken' = TRUE

Next ==
    \/ /\ Tick \/ \E h \in Handlers : Arm(h) \/ Fire(h) \/ End(h)
       /\ UNCHANGED broken
    \/ Break

Spec == Init /\ [][Next]_<<timer, broken>>
=============================================================================
