-------------------------------- MODULE Dhcp --------------------------------
(***************************************************************************)
(* How the interface gets its address (tasks/netconf.c, lwIP's dhcp.c and  *)
(* netif.c): the DHCP task starts a client, looks four times a second      *)
(* whether the interface has an address, and stops the client; the client  *)
(* itself runs on the TCP/IP thread, out of messages and of its timer.     *)
(*                                                                         *)
(* The thread comes between any two steps of the task, whose priority is   *)
(* lower, and ends its own before the task goes on.  What the task does    *)
(* before its first message is on the wire is one step: until then there   *)
(* is nothing the thread could do with the client.                         *)
(***************************************************************************)
EXTENDS Naturals, FiniteSets

CONSTANTS
    Leases,        \* addresses servers lease
    Static,        \* IP_ADDR0 .. IP_ADDR3
    Any,           \* 0.0.0.0
    MaxDhcpTries,  \* MAX_DHCP_TRIES
    MaxRefusals    \* bound: NAKs, and hosts that have the address already

ASSUME DhcpAssumption ==
    /\ Static \notin Leases /\ Any \notin Leases /\ Any # Static
    /\ MaxDhcpTries \in Nat \ {0} /\ MaxRefusals \in Nat

Addresses == Leases \cup {Static, Any}

VARIABLES
    task,      \* where the DHCP task is
    goal,      \* what it stops the client for
    memory,    \* netif->dhcp: none, or a client, or one that was freed
    client,    \* what is in it
    pout,      \* its p_out, the message being sent
    wire,      \* what was sent with the client's transaction number
    netif,     \* the interface
    my,        \* my_ipaddr
    nullTries, \* what the task finds in tries when there is no client
    refusals,  \* NAKs and address conflicts so far
    acked,     \* ghost: the address of the last ACK, until it is given up
    lost       \* ghost: messages nobody will free

vars == <<task, goal, memory, client, pout, wire, netif, my, nullTries,
          refusals, acked, lost>>

States == {"off", "selecting", "requesting", "checking", "bound", "backing off"}
Kinds == {"discover", "request"}
Sources == {"none", "lease", "static"}

TypeOK ==
    /\ task \in {"start", "send", "sent", "count", "poll", "tries", "stop",
                 "free", "forget", "assigned", "static", "set", "done"}
    /\ goal \in {"poll", "assigned", "static"}
    /\ memory \in {"none", "live", "freed"}
    /\ client \in [pcb : BOOLEAN, state : States, tries : 0 .. MaxDhcpTries + 2,
                   armed : BOOLEAN, offered : Addresses]
    /\ pout \in BOOLEAN /\ wire \subseteq Kinds
    /\ netif \in [ip : Addresses, mask : Sources, gw : Sources, up : BOOLEAN]
    /\ my \in Addresses /\ nullTries \in BOOLEAN
    /\ refusals \in 0 .. MaxRefusals
    /\ acked \in Addresses /\ lost \in Nat

Zero == [pcb |-> FALSE, state |-> "off", tries |-> 0, armed |-> FALSE, offered |-> Any]

\* The byte at the address of tries without a client is in the vector table:
\* it is more than MAX_DHCP_TRIES, or it is not, and never changes.
Init ==
    /\ task = "start" /\ goal = "poll"
    /\ memory = "none" /\ client = Zero /\ pout = FALSE /\ wire = {}
    /\ netif = [ip |-> Any, mask |-> "none", gw |-> "none", up |-> TRUE]
    /\ my = Any /\ nullTries \in BOOLEAN
    /\ refusals = 0 /\ acked = Any /\ lost = 0

-----------------------------------------------------------------------------
(* The client on the TCP/IP thread                                         *)

\* Mutant: the tries of a state are counted on in the next.
SetStateOnly(c, s) == [c EXCEPT !.state = s]

\* dhcp_set_state
SetState(c, s) == IF c.state = s THEN c ELSE [c EXCEPT !.state = s, !.tries = 0]

\* Mutant: a try is not counted.
ArmedOnly(c) == [c EXCEPT !.armed = TRUE]

\* A request was made, or could not be: the next time-out is due anyway.
Counted(c) == [c EXCEPT !.tries = @ + 1, !.armed = TRUE]

\* Mutant: the pointer to the freed message stays.
RequestKept(c, kinds) ==
    /\ client' = Counted(c)
    /\ \/ /\ c.pcb
          /\ wire' = IF c.tries = 0 THEN kinds ELSE wire \cup kinds
       \/ wire' = wire
    /\ pout' = TRUE
    /\ lost' = IF pout THEN lost + 1 ELSE lost

\* dhcp_create_request, udp_sendto_if, dhcp_delete_request for a message of one
\* of these kinds, or that needs no answer.  The first of a state gets a new
\* transaction number.  A message the task has not freed yet is lost.
Request(c, kinds) ==
    /\ client' = Counted(c)
    /\ \/ /\ c.pcb
          /\ wire' = IF c.tries = 0 THEN kinds ELSE wire \cup kinds
       \/ wire' = wire
    /\ pout' = FALSE
    /\ lost' = IF pout THEN lost + 1 ELSE lost

dhcp_discover(c) ==
    Request(SetState([c EXCEPT !.offered = Any], "selecting"), {"discover"})

dhcp_select(c) == Request(SetState(c, "requesting"), {"request"})

\* dhcp_check, with its ARP query for the address.
dhcp_check(c) == client' = Counted(SetState(c, "checking"))

taskVars == <<task, goal, memory, my, nullTries>>

\* The client has a pcb, which delivers messages of its transaction.
Receives(state, kind) ==
    client.pcb /\ client.state = state /\ kind \in wire

\* DHCPOFFER while selecting
dhcp_handle_offer ==
    /\ Receives("selecting", "discover")
    /\ \E a \in Leases : dhcp_select([client EXCEPT !.offered = a])
    /\ UNCHANGED <<taskVars, netif, refusals, acked>>

\* Mutant: the address of the ACK is not taken over.
AckKeepsOffer ==
    /\ Receives("requesting", "request")
    /\ \E a \in Leases :
        /\ dhcp_check(client)
        /\ acked' = a
    /\ UNCHANGED <<taskVars, pout, wire, netif, refusals, lost>>

\* DHCPACK while requesting: the address is the one the ACK names.
dhcp_handle_ack ==
    /\ Receives("requesting", "request")
    /\ \E a \in Leases :
        /\ dhcp_check([client EXCEPT !.offered = a])
        /\ acked' = a
    /\ UNCHANGED <<taskVars, pout, wire, netif, refusals, lost>>

\* DHCPNAK while requesting: the interface is taken down.
dhcp_handle_nak ==
    /\ Receives("requesting", "request")
    /\ refusals < MaxRefusals /\ refusals' = refusals + 1
    /\ netif' = [ip |-> Any, mask |-> "none", gw |-> "none", up |-> FALSE]
    /\ dhcp_discover(SetState(client, "backing off"))
    /\ acked' = Any
    /\ UNCHANGED taskVars

\* dhcp_arp_reply, dhcp_decline: somebody else has the address.
dhcp_arp_reply ==
    /\ memory # "none" /\ client.state = "checking"
    /\ refusals < MaxRefusals /\ refusals' = refusals + 1
    /\ Request(SetState(client, "backing off"), {})
    /\ acked' = Any
    /\ UNCHANGED <<taskVars, netif>>

dhcp_bind ==
    /\ netif' = [ip |-> client.offered, mask |-> "lease", gw |-> "lease", up |-> TRUE]
    /\ client' = [SetState(client, "bound") EXCEPT !.armed = FALSE]
    /\ UNCHANGED <<pout, wire, lost>>

\* The time-out of an ARP check may be the next tick of the timer.  Others take
\* two seconds and more, for which the task is not held up between two of its
\* statements, and after MAX_DHCP_TRIES a minute: the task has looked by then.
Elapses ==
    /\ client.armed
    /\ \/ client.state = "checking"
       \/ task = "poll" /\ client.tries <= MaxDhcpTries

\* dhcp_fine_tmr, dhcp_timeout.  In the memory of a freed client the timer finds
\* what was there.
dhcp_timeout ==
    /\ memory # "none" /\ Elapses
    /\ LET c == [client EXCEPT !.armed = FALSE] IN
        \/ /\ c.state \in {"backing off", "selecting"}
           /\ dhcp_discover(c) /\ UNCHANGED netif
        \/ /\ c.state = "requesting"
           /\ dhcp_select(c) /\ UNCHANGED netif
        \/ /\ c.state = "checking" /\ c.tries <= 1
           /\ dhcp_check(c) /\ UNCHANGED <<netif, pout, wire, lost>>
        \/ /\ c.state = "checking" /\ c.tries > 1
           /\ dhcp_bind
        \/ /\ c.state \in {"off", "bound"}
           /\ client' = c /\ UNCHANGED <<netif, pout, wire, lost>>
    /\ UNCHANGED <<taskVars, refusals, acked>>

-----------------------------------------------------------------------------
(* The DHCP task                                                           *)

clientVars == <<client, pout, wire>>
ghosts == <<refusals, acked, lost>>

\* dhcp_start up to where its first message is made: memory, pcb, or message
\* may be wanting.  The heap is fresh: the client's memory is zero.
dhcp_start ==
    /\ task = "start"
    /\ \/ task' = "poll" /\ UNCHANGED <<goal, memory, client, pout>>
       \/ /\ task' = "free" /\ goal' = "poll"
          /\ memory' = "live" /\ UNCHANGED <<client, pout>>
       \/ /\ task' = "stop" /\ goal' = "poll"
          /\ memory' = "live"
          /\ client' = Counted([Zero EXCEPT !.pcb = TRUE, !.state = "selecting"])
          /\ UNCHANGED pout
       \/ /\ task' = "send" /\ memory' = "live"
          /\ client' = [Zero EXCEPT !.pcb = TRUE, !.state = "selecting"]
          /\ pout' = TRUE /\ UNCHANGED goal
    /\ UNCHANGED <<wire, netif, my, nullTries, ghosts>>

\* The rest of dhcp_discover: udp_sendto_if, ...
DiscoverSent ==
    /\ task = "send" /\ task' = "sent"
    /\ wire' = wire \cup {"discover"}
    /\ UNCHANGED <<goal, memory, client, pout, netif, my, nullTries, ghosts>>

\* ... dhcp_delete_request, ...
DiscoverFreed ==
    /\ task = "sent" /\ task' = "count"
    /\ pout' = FALSE
    /\ UNCHANGED <<goal, memory, client, wire, netif, my, nullTries, ghosts>>

\* ... and tries and request_timeout of whatever state the thread has come to;
\* tries++ may have been read before that.
DiscoverCounted ==
    /\ task = "count" /\ task' = "poll"
    /\ \E n \in {client.tries + 1, 1} :
        client' = [client EXCEPT !.tries = n, !.armed = TRUE]
    /\ UNCHANGED <<goal, memory, pout, wire, netif, my, nullTries, ghosts>>

\* DHCP_WAIT_ADDRESS: an address, ...
Poll ==
    /\ task = "poll"
    /\ \/ netif.ip # Any /\ task' = "stop" /\ goal' = "assigned"
       \/ netif.ip = Any /\ task' = "tries" /\ UNCHANGED goal
    /\ UNCHANGED <<memory, clientVars, netif, my, nullTries, ghosts>>

TooMany ==
    IF memory = "none" THEN nullTries ELSE client.tries > MaxDhcpTries

\* ... or too many tries.
PollTries ==
    /\ task = "tries"
    /\ \/ TooMany /\ task' = "stop" /\ goal' = "static"
       \/ ~TooMany /\ task' = "poll" /\ UNCHANGED goal
    /\ UNCHANGED <<memory, clientVars, netif, my, nullTries, ghosts>>

\* dhcp_stop: the pcb goes, ...
dhcp_stop ==
    /\ task = "stop"
    /\ \/ memory = "none" /\ task' = goal /\ UNCHANGED client
       \/ /\ memory # "none" /\ task' = "free"
          /\ client' = [client EXCEPT !.pcb = FALSE]
    /\ UNCHANGED <<goal, memory, pout, wire, netif, my, nullTries, ghosts>>

\* ... the client's memory, ...
ClientFreed ==
    /\ task = "free" /\ task' = "forget"
    /\ memory' = "freed"
    /\ UNCHANGED <<goal, clientVars, netif, my, nullTries, ghosts>>

\* Mutant: the interface keeps its pointer.
ClientRemembered ==
    /\ task = "forget" /\ task' = goal
    /\ UNCHANGED <<goal, memory, clientVars, netif, my, nullTries, ghosts>>

\* ... and the pointer to it.
ClientForgotten ==
    /\ task = "forget" /\ task' = goal
    /\ memory' = "none" /\ client' = Zero
    /\ UNCHANGED <<goal, pout, wire, netif, my, nullTries, ghosts>>

Assigned ==
    /\ task = "assigned" /\ task' = "done"
    /\ my' = netif.ip
    /\ UNCHANGED <<goal, memory, clientVars, netif, nullTries, ghosts>>

\* my_ipaddr is written before the interface has that address.
StaticChosen ==
    /\ task = "static" /\ task' = "set"
    /\ my' = Static
    /\ UNCHANGED <<goal, memory, clientVars, netif, nullTries, ghosts>>

\* Mutant: only the address is set.
StaticHalfSet ==
    /\ task = "set" /\ task' = "done"
    /\ netif' = [netif EXCEPT !.ip = Static]
    /\ UNCHANGED <<goal, memory, clientVars, my, nullTries, ghosts>>

\* netif_set_addr, and my_ipaddr once more; whether the interface is up is left.
StaticSet ==
    /\ task = "set" /\ task' = "done"
    /\ netif' = [netif EXCEPT !.ip = Static, !.mask = "static", !.gw = "static"]
    /\ my' = Static
    /\ UNCHANGED <<goal, memory, clientVars, nullTries, ghosts>>

Thread ==
    \/ dhcp_handle_offer \/ dhcp_handle_ack \/ dhcp_handle_nak
    \/ dhcp_arp_reply \/ dhcp_timeout

DhcpTask ==
    \/ dhcp_start \/ DiscoverSent \/ DiscoverFreed \/ DiscoverCounted
    \/ Poll \/ PollTries \/ dhcp_stop \/ ClientFreed \/ ClientForgotten
    \/ Assigned \/ StaticChosen \/ StaticSet

Next == Thread \/ DhcpTask

Spec == Init /\ [][Next]_vars

\* The task is scheduled, and the fine timer runs while the task sleeps.
FairSpec == Spec /\ WF_vars(DhcpTask) /\ SF_vars(dhcp_timeout)

-----------------------------------------------------------------------------
(* Properties                                                              *)

Done == task = "done"

\* Whatever answers come while the task looks and stops (netconf.c:112-142),
\* in the end address, mask and gateway are of one source, and PASV announces
\* the address the interface has.
OneConfiguration ==
    Done => /\ netif.ip # Any /\ my = netif.ip
            /\ netif.mask = netif.gw
            /\ netif.mask = IF netif.ip = Static THEN "static" ELSE "lease"

\* A leased address is one that a server has acknowledged, and that no host
\* has answered for (dhcp.c:399-411, 753-769), though the client may move on
\* while the task is still in dhcp_start.
LeaseIsOurs == netif.ip \in Leases => netif.ip = acked

\* The task's first message may be answered before it is freed, so that the
\* thread finds it in p_out (dhcp.c:1490): that costs one pbuf, once.
OneMessageLost == lost <= 1

\* When the task has ended the timer finds no client, and nothing will change
\* the interface behind it (netconf.c:118, 134).
QuietWhenDone == [][Done => UNCHANGED <<netif, my, client>>]_vars

\* Whatever servers and hosts say, the board has an address in the end: each
\* refusal starts anew, each silence is counted (netconf.c:130).
NoClient == memory = "none" /\ task \in {"poll", "tries"}
AddressAtLast == <>(Done \/ (NoClient /\ ~nullTries))
=============================================================================
