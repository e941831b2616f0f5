--------------------------- MODULE MCLwipTimeouts ---------------------------
(* Instances of LwipTimeouts for TLC.                                      *)
EXTENDS LwipTimeouts

\* Timers in the order of their intervals: TCP 250 ms, DHCP fine 500 ms, ARP
\* 5 s, DHCP coarse 60 s.
ShortIntervals == [h \in Handlers |->
    CASE h = "tcp" -> 1 [] h = "fine" -> 2 [] h = "arp" -> 3 [] h = "coarse" -> 4]
=============================================================================
