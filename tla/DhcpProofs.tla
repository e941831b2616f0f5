----------------------------- MODULE DhcpProofs ------------------------------
(***************************************************************************)
(* Proofs about Dhcp, for any set of leases, any number of tries and any   *)
(* number of refusals: a leased address is an acknowledged one, what the   *)
(* task leaves behind is of one source, nothing changes it afterwards, and *)
(* the task's race with the thread costs at most one message.              *)
(***************************************************************************)
EXTENDS Dhcp, TLAPS

\* The types without the bounds on tries and refusals.
Clients == [pcb : BOOLEAN, state : States, tries : Nat, armed : BOOLEAN,
            offered : Addresses]
Interfaces == [ip : Addresses, mask : Sources, gw : Sources, up : BOOLEAN]
Types ==
    /\ task \in {"start", "send", "sent", "count", "poll", "tries", "stop",
                 "free", "forget", "assigned", "static", "set", "done"}
    /\ goal \in {"poll", "assigned", "static"}
    /\ memory \in {"none", "live", "freed"}
    /\ client \in Clients
    /\ pout \in BOOLEAN
    /\ netif \in Interfaces
    /\ my \in Addresses
    /\ acked \in Addresses /\ lost \in Nat

\* Before dhcp_start nothing has happened, ...
Fresh == task = "start" => memory = "none" /\ netif.ip = Any /\ lost = 0 /\ ~pout

\* ... and after dhcp_stop nothing is left.
Gone ==
    /\ memory = "none" => ~client.pcb
    /\ task \in {"assigned", "static", "set", "done"} => memory = "none"
    /\ task \in {"free", "forget"} => memory # "none"

\* An address of the interface that is not the task's own is a lease, acked,
\* and the client, as far as there is one, has come to its end.
Leased ==
    netif.ip \in Leases =>
        /\ netif.ip = acked /\ netif.mask = "lease" /\ netif.gw = "lease"
        /\ memory = "none" \/ client.state = "bound"

\* What is checked is what was acknowledged.
Checked == client.state = "checking" => client.offered = acked /\ acked \in Leases

\* The task stops for an address, or sets one, and knows of no other way.
Stopping ==
    /\ netif.ip = Static => Done
    /\ goal = "assigned" /\ task \in {"stop", "free", "forget"} => netif.ip \in Leases
    /\ task = "assigned" => netif.ip \in Leases

Losses == lost = 0 \/ (lost = 1 /\ ~pout)

IInv ==
    /\ Types /\ Fresh /\ Gone /\ Leased /\ Checked /\ Stopping /\ Losses
    /\ OneConfiguration

LEMMA Constants ==
    /\ Static \notin Leases /\ Any \notin Leases /\ Any # Static
    /\ Leases \subseteq Addresses /\ Static \in Addresses /\ Any \in Addresses
  BY DhcpAssumption DEF Addresses

LEMMA InitInv == Init => IInv
  <1> SUFFICES ASSUME Init PROVE IInv
    OBVIOUS
  <1>1. Types
    BY Constants DEF Init, Types, Clients, Interfaces, Zero, States, Sources
  <1> QED
    BY <1>1, Constants
       DEF Init, IInv, Fresh, Gone, Leased, Checked, Stopping, Losses,
           OneConfiguration, Zero, Done

-----------------------------------------------------------------------------
(* The client                                                              *)

\* What becomes of the state, the address and the pcb.
LEMMA SetStateType ==
    ASSUME NEW c \in Clients, NEW s \in States
    PROVE  /\ SetState(c, s) \in Clients /\ SetState(c, s).state = s
           /\ SetState(c, s).offered = c.offered /\ SetState(c, s).pcb = c.pcb
  BY DEF SetState, Clients

LEMMA CountedType ==
    ASSUME NEW c \in Clients
    PROVE  /\ Counted(c) \in Clients /\ Counted(c).state = c.state
           /\ Counted(c).offered = c.offered /\ Counted(c).pcb = c.pcb
  <1>1. c.tries + 1 \in Nat
    BY DEF Clients
  <1>2. Counted(c) = [c EXCEPT !.tries = c.tries + 1, !.armed = TRUE]
    BY DEF Counted
  <1>3. DOMAIN c = {"pcb", "state", "tries", "armed", "offered"}
    BY DEF Clients
  <1>4. /\ Counted(c).tries = c.tries + 1 /\ Counted(c).armed = TRUE
        /\ Counted(c).state = c.state /\ Counted(c).offered = c.offered
        /\ Counted(c).pcb = c.pcb
    BY <1>2, <1>3
  <1> QED
    BY <1>1, <1>2, <1>4 DEF Clients

\* A message that is sent from the thread.
LEMMA RequestFacts ==
    ASSUME Types, Losses, NEW c \in Clients, NEW s \in States, NEW kinds,
           Request(SetState(c, s), kinds)
    PROVE  /\ client' \in Clients /\ client'.state = s
           /\ client'.pcb = c.pcb /\ client'.offered = c.offered
           /\ pout' = FALSE /\ lost' \in Nat /\ Losses'
  <1>1. client' = Counted(SetState(c, s)) /\ pout' = FALSE
        /\ lost' = IF pout THEN lost + 1 ELSE lost
    BY DEF Request
  <1>2. lost' \in {0, 1}
    BY <1>1 DEF Types, Losses
  <1> QED
    BY <1>1, <1>2, SetStateType, CountedType DEF Losses

LEMMA CheckFacts ==
    ASSUME NEW c \in Clients, dhcp_check(c)
    PROVE  /\ client' \in Clients /\ client'.state = "checking"
           /\ client'.pcb = c.pcb /\ client'.offered = c.offered
  <1>1. client' = Counted(SetState(c, "checking"))
    BY DEF dhcp_check
  <1>2. "checking" \in States
    BY DEF States
  <1> QED
    BY <1>1, <1>2, SetStateType, CountedType

\* The thread acts on a client, and on one that has not come to its end unless
\* all it does is to disarm its timer.
LEMMA ThreadHasClient ==
    ASSUME IInv, Thread
    PROVE  memory # "none" /\ ~Done /\ task # "start"
  BY DEF Thread, dhcp_handle_offer, dhcp_handle_ack, dhcp_handle_nak,
         dhcp_arp_reply, dhcp_timeout, Receives, IInv, Gone, Fresh, Types, Done

\* A step of the thread that leaves the interface alone.
LEMMA Unconfigured ==
    ASSUME IInv, memory # "none", ~Done, task # "start", UNCHANGED taskVars,
           client' \in Clients, acked' \in Addresses, pout' \in BOOLEAN,
           lost' \in Nat, Losses', netif' \in Interfaces,
           netif.ip \notin Leases, netif'.ip = Any,
           client'.state = "checking" => client'.offered = acked' /\ acked' \in Leases
    PROVE  IInv'
  <1>1. netif.ip = Any
    BY DEF IInv, Types, Stopping, Interfaces, Addresses
  <1>2. Types' /\ Checked'
    BY DEF IInv, Types, Checked, taskVars
  <1>3. Fresh' /\ Gone' /\ OneConfiguration'
    BY DEF IInv, Gone, Fresh, OneConfiguration, Done, taskVars
  <1>4. Leased' /\ Stopping'
    BY Constants DEF IInv, Leased, Stopping, taskVars, Done
  <1> QED
    BY <1>2, <1>3, <1>4 DEF IInv

\* One whose client is not bound, so that there is no lease.
LEMMA NotBound ==
    ASSUME IInv, memory # "none", client.state # "bound", ~Done
    PROVE  netif.ip \notin Leases /\ netif.ip = Any
  BY DEF IInv, Leased, Types, Stopping, Interfaces, Addresses

LEMMA ThreadStep == ASSUME IInv, Thread PROVE IInv'
  <1>1. memory # "none" /\ ~Done /\ task # "start"
    BY ThreadHasClient
  <1>2. UNCHANGED taskVars
    BY DEF Thread, dhcp_handle_offer, dhcp_handle_ack, dhcp_handle_nak,
           dhcp_arp_reply, dhcp_timeout
  <1>3. Types /\ Losses /\ client \in Clients /\ Any \in Addresses
    BY Constants DEF IInv, Types
  <1>4. CASE dhcp_handle_offer
    <2>1. client.state = "selecting" /\ UNCHANGED <<netif, acked>>
      BY <1>4 DEF dhcp_handle_offer, Receives
    <2>2. PICK a \in Leases : dhcp_select([client EXCEPT !.offered = a])
      BY <1>4 DEF dhcp_handle_offer
    <2>3. [client EXCEPT !.offered = a] \in Clients
      BY <1>3, Constants DEF Clients
    <2>4. client' \in Clients /\ client'.state = "requesting" /\ pout' = FALSE
          /\ lost' \in Nat /\ Losses'
      BY <1>3, <2>2, <2>3, RequestFacts DEF dhcp_select, States
    <2> QED
      BY <1>1, <1>2, <1>3, <2>1, <2>4, NotBound, Unconfigured DEF Types
  <1>5. CASE dhcp_handle_ack
    <2>1. client.state = "requesting" /\ UNCHANGED <<netif, pout, lost>>
      BY <1>5 DEF dhcp_handle_ack, Receives
    <2>2. PICK a \in Leases : dhcp_check([client EXCEPT !.offered = a]) /\ acked' = a
      BY <1>5 DEF dhcp_handle_ack
    <2>3. [client EXCEPT !.offered = a] \in Clients /\ [client EXCEPT !.offered = a].offered = a
      BY <1>3, Constants DEF Clients
    <2>4. client' \in Clients /\ client'.offered = acked' /\ acked' \in Leases
      BY <2>2, <2>3, CheckFacts
    <2>5. Losses'
      BY <1>3, <2>1 DEF Losses
    <2> QED
      BY <1>1, <1>2, <1>3, <2>1, <2>4, <2>5, NotBound, Unconfigured, Constants DEF Types
  <1>6. CASE dhcp_handle_nak
    <2>1. /\ client.state = "requesting" /\ acked' = Any
          /\ netif' = [ip |-> Any, mask |-> "none", gw |-> "none", up |-> FALSE]
          /\ dhcp_discover(SetState(client, "backing off"))
      BY <1>6 DEF dhcp_handle_nak, Receives
    <2>2. [SetState(client, "backing off") EXCEPT !.offered = Any] \in Clients
      <3>1. SetState(client, "backing off") \in Clients
        BY <1>3, SetStateType DEF States
      <3> QED
        BY <1>3, <3>1 DEF Clients
    <2>3. client' \in Clients /\ client'.state = "selecting" /\ pout' = FALSE
          /\ lost' \in Nat /\ Losses'
      BY <1>3, <2>1, <2>2, RequestFacts DEF dhcp_discover, States
    <2>4. netif' \in Interfaces /\ netif'.ip = Any
      BY <1>3, <2>1 DEF Interfaces, Sources
    <2> QED
      BY <1>1, <1>2, <1>3, <2>1, <2>3, <2>4, NotBound, Unconfigured
  <1>7. CASE dhcp_arp_reply
    <2>1. /\ client.state = "checking" /\ acked' = Any /\ UNCHANGED netif
          /\ Request(SetState(client, "backing off"), {})
      BY <1>7 DEF dhcp_arp_reply
    <2>2. client' \in Clients /\ client'.state = "backing off" /\ pout' = FALSE
          /\ lost' \in Nat /\ Losses'
      BY <1>3, <2>1, RequestFacts DEF States
    <2> QED
      BY <1>1, <1>2, <1>3, <2>1, <2>2, NotBound, Unconfigured DEF Types
  <1>8. CASE dhcp_timeout
    <2> DEFINE c == [client EXCEPT !.armed = FALSE]
    <2>1. c \in Clients /\ c.state = client.state /\ c.offered = client.offered
          /\ c.pcb = client.pcb
      BY <1>3 DEF Clients
    <2>2. UNCHANGED acked
      BY <1>8 DEF dhcp_timeout
    <2>3. \/ c.state \in {"backing off", "selecting"} /\ dhcp_discover(c) /\ UNCHANGED netif
          \/ c.state = "requesting" /\ dhcp_select(c) /\ UNCHANGED netif
          \/ c.state = "checking" /\ dhcp_check(c) /\ UNCHANGED <<netif, pout, lost>>
          \/ c.state = "checking" /\ dhcp_bind
          \/ c.state \in {"off", "bound"} /\ client' = c /\ UNCHANGED <<netif, pout, lost>>
      BY <1>8, Zenon DEF dhcp_timeout
    <2> HIDE DEF c
    <2>4. CASE c.state \in {"backing off", "selecting"} /\ dhcp_discover(c) /\ UNCHANGED netif
      <3>1. [c EXCEPT !.offered = Any] \in Clients
        BY <1>3, <2>1 DEF Clients
      <3>2. client' \in Clients /\ client'.state = "selecting" /\ pout' = FALSE
            /\ lost' \in Nat /\ Losses'
        BY <1>3, <2>4, <3>1, RequestFacts DEF dhcp_discover, States
      <3> QED
        BY <1>1, <1>2, <1>3, <2>1, <2>2, <2>4, <3>2, NotBound, Unconfigured DEF Types
    <2>5. CASE c.state = "requesting" /\ dhcp_select(c) /\ UNCHANGED netif
      <3>1. client' \in Clients /\ client'.state = "requesting" /\ pout' = FALSE
            /\ lost' \in Nat /\ Losses'
        BY <1>3, <2>1, <2>5, RequestFacts DEF dhcp_select, States
      <3> QED
        BY <1>1, <1>2, <1>3, <2>1, <2>2, <2>5, <3>1, NotBound, Unconfigured DEF Types
    <2>6. CASE c.state = "checking" /\ dhcp_check(c) /\ UNCHANGED <<netif, pout, lost>>
      <3>1. client' \in Clients /\ client'.offered = client.offered
        BY <2>1, <2>6, CheckFacts
      <3>2. client.offered = acked /\ acked \in Leases
        BY <2>1, <2>6 DEF IInv, Checked
      <3>3. Losses'
        BY <1>3, <2>6 DEF Losses
      <3> QED
        BY <1>1, <1>2, <1>3, <2>1, <2>2, <2>6, <3>1, <3>2, <3>3, NotBound, Unconfigured
           DEF Types
    <2>7. CASE c.state = "checking" /\ dhcp_bind
      <3>1. client.offered = acked /\ acked \in Leases
        BY <2>1, <2>7 DEF IInv, Checked
      <3>2. /\ netif' = [ip |-> client.offered, mask |-> "lease", gw |-> "lease", up |-> TRUE]
            /\ client' = [SetState(client, "bound") EXCEPT !.armed = FALSE]
            /\ UNCHANGED <<pout, lost>>
        BY <2>7 DEF dhcp_bind
      <3>3. SetState(client, "bound") \in Clients /\ SetState(client, "bound").state = "bound"
        BY <1>3, SetStateType DEF States
      <3>4. client' \in Clients /\ client'.state = "bound"
        BY <3>2, <3>3 DEF Clients
      <3>5. netif' \in Interfaces /\ netif'.ip = acked
            /\ netif'.mask = "lease" /\ netif'.gw = "lease"
        BY <3>1, <3>2, Constants DEF Interfaces, Sources
      <3>6. Types' /\ Losses'
        BY <1>2, <1>3, <2>2, <3>2, <3>4, <3>5 DEF Types, Losses, taskVars
      <3>7. Fresh' /\ Gone' /\ OneConfiguration'
        BY <1>1, <1>2 DEF IInv, Gone, Fresh, OneConfiguration, Done, taskVars
      <3>8. Leased' /\ Checked' /\ Stopping'
        BY <1>2, <2>2, <3>1, <3>4, <3>5, Constants
           DEF Leased, Checked, Stopping, taskVars
      <3> QED
        BY <3>6, <3>7, <3>8 DEF IInv
    <2>8. CASE c.state \in {"off", "bound"} /\ client' = c /\ UNCHANGED <<netif, pout, lost>>
      <3>1. Types' /\ Losses'
        BY <1>2, <1>3, <2>1, <2>2, <2>8 DEF Types, Losses, taskVars
      <3>2. Fresh' /\ Gone' /\ OneConfiguration'
        BY <1>1, <1>2 DEF IInv, Gone, Fresh, OneConfiguration, Done, taskVars
      <3>3. Leased' /\ Checked' /\ Stopping'
        BY <1>1, <1>2, <2>1, <2>2, <2>8 DEF IInv, Leased, Checked, Stopping, taskVars, Done
      <3> QED
        BY <3>1, <3>2, <3>3 DEF IInv
    <2> QED
      BY <2>3, <2>4, <2>5, <2>6, <2>7, <2>8
  <1> QED
    BY <1>4, <1>5, <1>6, <1>7, <1>8 DEF Thread

-----------------------------------------------------------------------------
(* The task                                                                *)

LEMMA StartStep == ASSUME IInv, dhcp_start PROVE IInv'
  <1>1. /\ UNCHANGED <<netif, my, acked, lost>> /\ task = "start" /\ task' # "start"
        /\ task' \in {"poll", "free", "stop", "send"} /\ goal' \in {goal, "poll"}
        /\ task' \in {"free", "stop"} => goal' = "poll" /\ memory' = "live"
        /\ memory' \in {"none", "live"} \/ memory' = memory
        /\ pout' = pout \/ pout' = TRUE
    BY DEF dhcp_start, ghosts
  <1>2. netif.ip = Any /\ lost = 0 /\ ~pout /\ memory = "none" /\ ~client.pcb
    BY <1>1 DEF IInv, Fresh, Gone
  <1>3. (client' \in Clients /\ client'.state # "checking") \/ client' = client
    <2>1. [Zero EXCEPT !.pcb = TRUE, !.state = "selecting"] \in Clients
          /\ [Zero EXCEPT !.pcb = TRUE, !.state = "selecting"].state = "selecting"
      BY Constants DEF Zero, Clients, States
    <2>2. Counted([Zero EXCEPT !.pcb = TRUE, !.state = "selecting"]) \in Clients
          /\ Counted([Zero EXCEPT !.pcb = TRUE, !.state = "selecting"]).state = "selecting"
      BY <2>1, CountedType
    <2> QED
      BY <2>1, <2>2 DEF dhcp_start
  <1>4. Types'
    BY <1>1, <1>3 DEF IInv, Types
  <1>5. memory' = "none" => client' = client
    BY <1>2 DEF dhcp_start
  <1>6. Fresh' /\ Gone' /\ Losses' /\ OneConfiguration'
    BY <1>1, <1>2, <1>5 DEF Fresh, Gone, Losses, OneConfiguration, Done
  <1>7. Leased' /\ Stopping' /\ Checked'
    BY <1>1, <1>2, <1>3, Constants DEF IInv, Leased, Stopping, Checked
  <1> QED
    BY <1>4, <1>6, <1>7 DEF IInv

\* A step of the task that looks, sends or stops.
LEMMA QuietStep ==
    ASSUME IInv, UNCHANGED <<netif, my, acked, lost>>, task # "start",
           task' \in {"sent", "count", "poll", "tries", "stop", "free", "forget",
                      "assigned", "static"},
           goal' \in {"poll", "assigned", "static"},
           memory' \in {"none", "live", "freed"},
           client' \in Clients, pout' \in {pout, FALSE},
           memory' = "none" => ~client'.pcb,
           task' \in {"assigned", "static"} => memory' = "none",
           task' \in {"free", "forget"} => memory' # "none",
           client'.state = client.state \/ (memory' = "none" /\ client'.state = "off"),
           client'.offered = client.offered \/ client'.state = "off",
           memory = "none" => memory' = "none",
           ~Done,
           goal' = "assigned" /\ task' \in {"stop", "free", "forget"}
              => netif.ip \in Leases,
           task' = "assigned" => netif.ip \in Leases
    PROVE  IInv'
  <1>1. Types'
    BY DEF IInv, Types
  <1>4. Losses'
    <2>1. ~pout => ~pout'
      OBVIOUS
    <2> QED
      BY <2>1 DEF IInv, Losses
  <1>2. Fresh' /\ Gone' /\ OneConfiguration'
    BY DEF Fresh, Gone, OneConfiguration, Done
  <1>3. Leased' /\ Checked' /\ Stopping'
    BY DEF IInv, Leased, Checked, Stopping, Done
  <1> QED
    BY <1>1, <1>2, <1>3, <1>4 DEF IInv

LEMMA TaskStep == ASSUME IInv, DhcpTask PROVE IInv'
  <1>1. Types /\ client \in Clients
    BY DEF IInv, Types
  <1>2. CASE dhcp_start
    BY <1>2, StartStep
  <1>3. CASE DiscoverSent \/ DiscoverFreed
    BY <1>1, <1>3, QuietStep
       DEF DiscoverSent, DiscoverFreed, IInv, Types, Gone, ghosts, Done
  <1>4. CASE DiscoverCounted
    <2>1. PICK n \in {client.tries + 1, 1} : client' = [client EXCEPT !.tries = n, !.armed = TRUE]
      BY <1>4 DEF DiscoverCounted
    <2>2. client.tries + 1 \in Nat /\ n \in Nat
      BY <1>1, <2>1 DEF Clients
    <2>3. client' \in Clients /\ client'.state = client.state
          /\ client'.offered = client.offered /\ client'.pcb = client.pcb
      <3>1. DOMAIN client = {"pcb", "state", "tries", "armed", "offered"}
        BY <1>1 DEF Clients
      <3>2. client'.tries = n /\ client'.armed = TRUE /\ client'.state = client.state
            /\ client'.offered = client.offered /\ client'.pcb = client.pcb
        BY <2>1, <3>1
      <3> QED
        BY <1>1, <2>1, <2>2, <3>2 DEF Clients
    <2> QED
      BY <1>1, <1>4, <2>3, QuietStep DEF DiscoverCounted, IInv, Types, Gone, ghosts, Done
  <1>5. CASE Poll \/ PollTries
    <2>1. netif.ip # Any /\ ~Done => netif.ip \in Leases
      BY <1>1 DEF IInv, Types, Stopping, Interfaces, Addresses
    <2> QED
      BY <1>1, <1>5, <2>1, QuietStep
         DEF Poll, PollTries, IInv, Types, Gone, ghosts, clientVars, Done
  <1>6. CASE dhcp_stop
    <2>1. client' \in Clients /\ client'.state = client.state
          /\ client'.offered = client.offered /\ (client'.pcb => client.pcb)
      BY <1>1, <1>6 DEF dhcp_stop, Clients
    <2> QED
      BY <1>1, <1>6, <2>1, QuietStep DEF dhcp_stop, IInv, Types, Gone, Stopping, ghosts, Done
  <1>7. CASE ClientFreed
    <2>1. memory # "none"
      BY <1>7 DEF ClientFreed, IInv, Gone
    <2> QED
      BY <1>1, <1>7, <2>1, QuietStep
         DEF ClientFreed, IInv, Types, Gone, Stopping, ghosts, clientVars, Done
  <1>8. CASE ClientForgotten
    <2>1. Zero \in Clients /\ Zero.state = "off" /\ ~Zero.pcb
      BY Constants DEF Zero, Clients, States
    <2> QED
      BY <1>1, <1>8, <2>1, QuietStep
         DEF ClientForgotten, IInv, Types, Gone, Stopping, ghosts, Done
  <1>9. CASE Assigned
    <2>1. task = "assigned" /\ task' = "done" /\ my' = netif.ip
          /\ UNCHANGED <<goal, memory, client, pout, netif, acked, lost>>
      BY <1>9 DEF Assigned, clientVars, ghosts
    <2>2. netif.ip \in Leases
      BY <2>1 DEF IInv, Stopping
    <2> QED
      BY <1>1, <2>1, <2>2, Constants
         DEF IInv, Types, Fresh, Gone, Leased, Checked, Stopping, Losses, OneConfiguration, Done
  <1>10. CASE StaticChosen
    <2>1. task = "static" /\ task' = "set" /\ my' = Static
          /\ UNCHANGED <<goal, memory, client, pout, netif, acked, lost>>
      BY <1>10 DEF StaticChosen, clientVars, ghosts
    <2> QED
      BY <1>1, <2>1, Constants
         DEF IInv, Types, Fresh, Gone, Leased, Checked, Stopping, Losses, OneConfiguration, Done
  <1>11. CASE StaticSet
    <2>1. task = "set" /\ task' = "done" /\ my' = Static
          /\ UNCHANGED <<goal, memory, client, pout, acked, lost>>
      BY <1>11 DEF StaticSet, clientVars, ghosts
    <2>2. netif' \in Interfaces /\ netif'.ip = Static /\ netif'.mask = "static"
          /\ netif'.gw = "static"
      BY <1>1, <1>11, Constants DEF StaticSet, Types, Interfaces, Sources
    <2> QED
      BY <1>1, <2>1, <2>2, Constants
         DEF IInv, Types, Fresh, Gone, Leased, Checked, Stopping, Losses, OneConfiguration, Done
  <1> QED
    BY <1>2, <1>3, <1>4, <1>5, <1>6, <1>7, <1>8, <1>9, <1>10, <1>11 DEF DhcpTask

LEMMA Step == ASSUME IInv, [Next]_vars PROVE IInv'
  <1>1. CASE UNCHANGED vars
    BY <1>1
       DEF vars, IInv, Types, Fresh, Gone, Leased, Checked, Stopping, Losses,
           OneConfiguration, Done
  <1> QED
    BY <1>1, ThreadStep, TaskStep DEF Next

\* What task, client and interface know of each other, whatever servers answer
\* and whenever the thread comes between two statements of the task.
THEOREM Invariance == Spec => []IInv
  <1>1. Init => IInv
    BY InitInv
  <1>2. IInv /\ [Next]_vars => IInv'
    BY Step
  <1> QED
    BY <1>1, <1>2, PTL DEF Spec

-----------------------------------------------------------------------------
(* The properties                                                          *)

\* When the DHCP task has ended, address, mask, gateway and the address that
\* PASV announces are of one source.
THEOREM Configured == Spec => []OneConfiguration
  <1>1. IInv => OneConfiguration
    BY DEF IInv
  <1> QED
    BY <1>1, Invariance, PTL

\* A leased address in use is the one of the last ACK, not refused since.
THEOREM Acknowledged == Spec => []LeaseIsOurs
  <1>1. IInv => LeaseIsOurs
    BY DEF IInv, Leased, LeaseIsOurs
  <1> QED
    BY <1>1, Invariance, PTL

\* The overlap of the task's first message with the thread's answers costs at
\* most one message.
THEOREM AtMostOneLost == Spec => []OneMessageLost
  <1>1. IInv => OneMessageLost
    BY DEF IInv, Losses, OneMessageLost
  <1> QED
    BY <1>1, Invariance, PTL

\* After the task's end nothing changes the interface or touches a client.
THEOREM QuietForEver == Spec => QuietWhenDone
  <1>1. IInv /\ [Next]_vars => [Done => UNCHANGED <<netif, my, client>>]_vars
    <2> SUFFICES ASSUME IInv, Next, Done PROVE FALSE
      OBVIOUS
    <2>1. ~Thread
      BY ThreadHasClient
    <2>2. ~DhcpTask
      BY DEF DhcpTask, dhcp_start, DiscoverSent, DiscoverFreed, DiscoverCounted, Poll,
             PollTries, dhcp_stop, ClientFreed, ClientForgotten, Assigned, StaticChosen,
             StaticSet, Done
    <2> QED
      BY <2>1, <2>2 DEF Next
  <1> QED
    BY <1>1, Invariance, PTL DEF QuietWhenDone, Spec

-----------------------------------------------------------------------------
(* The bounds                                                              *)

Bounded ==
    /\ client.tries <= MaxDhcpTries + 2
    /\ task \in {"start", "send", "sent", "count"} => client.tries <= 2
    /\ wire \subseteq Kinds
    /\ refusals \in 0 .. MaxRefusals
    /\ nullTries \in BOOLEAN

\* The tries of a client whose state was set and that then made a request.
Tries(c, s) == IF c.state = s THEN c.tries + 1 ELSE 1

LEMMA TriesCounted ==
    ASSUME NEW c \in Clients, NEW s \in States
    PROVE  Counted(SetState(c, s)).tries = Tries(c, s)
  <1>1. c.tries \in Nat /\ DOMAIN c = {"pcb", "state", "tries", "armed", "offered"}
    BY DEF Clients
  <1>2. CASE c.state = s
    BY <1>1, <1>2 DEF Counted, SetState, Tries
  <1>3. CASE c.state # s
    <2>1. [c EXCEPT !.state = s, !.tries = 0].tries = 0
      BY <1>1
    <2>2. DOMAIN [c EXCEPT !.state = s, !.tries = 0] = {"pcb", "state", "tries", "armed", "offered"}
      BY <1>1
    <2> QED
      BY <1>3, <2>1, <2>2 DEF Counted, SetState, Tries
  <1> QED
    BY <1>2, <1>3

LEMMA RequestBounds ==
    ASSUME NEW c \in Clients, NEW s \in States, NEW kinds \in SUBSET Kinds,
           wire \subseteq Kinds, Request(SetState(c, s), kinds)
    PROVE  client'.tries = Tries(c, s) /\ wire' \subseteq Kinds
  BY TriesCounted DEF Request

LEMMA ThreadBounds ==
    ASSUME IInv, Bounded, Thread
    PROVE  Bounded'
  <1>1. task # "start" /\ client \in Clients /\ client.tries \in Nat /\ Any \in Addresses
    BY ThreadHasClient, Constants DEF IInv, Types, Clients
  <1>2. UNCHANGED <<task, nullTries>>
    BY DEF Thread, dhcp_handle_offer, dhcp_handle_ack, dhcp_handle_nak,
           dhcp_arp_reply, dhcp_timeout, taskVars
  <1>3. MaxDhcpTries \in Nat /\ MaxDhcpTries >= 1 /\ MaxRefusals \in Nat
        /\ wire \subseteq Kinds /\ refusals \in 0 .. MaxRefusals
    BY DhcpAssumption DEF Bounded
  <1>4. CASE dhcp_handle_offer
    <2>1. PICK a \in Leases : dhcp_select([client EXCEPT !.offered = a])
      BY <1>4 DEF dhcp_handle_offer
    <2>2. /\ [client EXCEPT !.offered = a] \in Clients
          /\ [client EXCEPT !.offered = a].state = "selecting"
      BY <1>1, <1>4, Constants DEF Clients, dhcp_handle_offer, Receives
    <2>3. client'.tries = 1 /\ wire' \subseteq Kinds
      BY <1>3, <2>1, <2>2, RequestBounds DEF dhcp_select, Tries, States, Kinds
    <2> QED
      BY <1>2, <1>3, <1>4, <2>3 DEF Bounded, dhcp_handle_offer
  <1>5. CASE dhcp_handle_ack
    <2>1. PICK a \in Leases : dhcp_check([client EXCEPT !.offered = a])
      BY <1>5 DEF dhcp_handle_ack
    <2>2. /\ [client EXCEPT !.offered = a] \in Clients
          /\ [client EXCEPT !.offered = a].state = "requesting"
      BY <1>1, <1>5, Constants DEF Clients, dhcp_handle_ack, Receives
    <2>3. client'.tries = 1
      BY <2>1, <2>2, TriesCounted DEF dhcp_check, Tries, States
    <2> QED
      BY <1>2, <1>3, <1>5, <2>3 DEF Bounded, dhcp_handle_ack
  <1>6. CASE dhcp_handle_nak
    <2> DEFINE c == [SetState(client, "backing off") EXCEPT !.offered = Any]
    <2>1. SetState(client, "backing off") \in Clients
          /\ SetState(client, "backing off").state = "backing off"
      BY <1>1, SetStateType DEF States
    <2>2. c \in Clients /\ c.state = "backing off"
      BY <1>1, <2>1 DEF Clients
    <2>3. Request(SetState(c, "selecting"), {"discover"})
      BY <1>6 DEF dhcp_handle_nak, dhcp_discover
    <2> HIDE DEF c
    <2>4. client'.tries = 1 /\ wire' \subseteq Kinds
      BY <1>3, <2>2, <2>3, RequestBounds DEF Tries, States, Kinds
    <2>5. refusals' \in 0 .. MaxRefusals
      <3>1. refusals < MaxRefusals /\ refusals' = refusals + 1
        BY <1>6 DEF dhcp_handle_nak
      <3> QED
        BY <1>3, <3>1
    <2> QED
      BY <1>2, <1>3, <2>4, <2>5 DEF Bounded
  <1>7. CASE dhcp_arp_reply
    <2>1. client'.tries = 1 /\ wire' \subseteq Kinds
      BY <1>1, <1>3, <1>7, RequestBounds DEF dhcp_arp_reply, Tries, States, Kinds
    <2>2. refusals' \in 0 .. MaxRefusals
      <3>1. refusals < MaxRefusals /\ refusals' = refusals + 1
        BY <1>7 DEF dhcp_arp_reply
      <3> QED
        BY <1>3, <3>1
    <2> QED
      BY <1>2, <1>3, <2>1, <2>2 DEF Bounded
  <1>8. CASE dhcp_timeout
    <2> DEFINE c == [client EXCEPT !.armed = FALSE]
               d == [c EXCEPT !.offered = Any]
    <2>1. /\ c \in Clients /\ d \in Clients
          /\ c.state = client.state /\ d.state = client.state
          /\ c.tries = client.tries /\ d.tries = client.tries
      BY <1>1 DEF Clients
    <2>2. UNCHANGED refusals /\ Elapses
      BY <1>8 DEF dhcp_timeout
    <2>3. \/ c.state \in {"backing off", "selecting"} /\ dhcp_discover(c)
          \/ c.state = "requesting" /\ dhcp_select(c)
          \/ c.state = "checking" /\ c.tries <= 1 /\ dhcp_check(c) /\ UNCHANGED wire
          \/ c.state = "checking" /\ dhcp_bind
          \/ c.state \in {"off", "bound"} /\ client' = c /\ UNCHANGED wire
      BY <1>8, Zenon DEF dhcp_timeout
    <2>4. dhcp_discover(c) => Request(SetState(d, "selecting"), {"discover"})
      BY DEF dhcp_discover
    <2> HIDE DEF c, d
    <2>5. CASE c.state \in {"backing off", "selecting"} /\ dhcp_discover(c)
      <3>1. client'.tries = Tries(d, "selecting") /\ wire' \subseteq Kinds
        BY <1>3, <2>1, <2>4, <2>5, RequestBounds DEF States, Kinds
      <3>2. task = "poll" /\ client.tries <= MaxDhcpTries
        BY <2>1, <2>2, <2>5 DEF Elapses
      <3> QED
        BY <1>1, <1>2, <1>3, <2>1, <2>2, <3>1, <3>2 DEF Bounded, Tries
    <2>6. CASE c.state = "requesting" /\ dhcp_select(c)
      <3>1. client'.tries = Tries(c, "requesting") /\ wire' \subseteq Kinds
        BY <1>3, <2>1, <2>6, RequestBounds DEF dhcp_select, States, Kinds
      <3>2. task = "poll" /\ client.tries <= MaxDhcpTries
        BY <2>1, <2>2, <2>6 DEF Elapses
      <3> QED
        BY <1>1, <1>2, <1>3, <2>1, <2>2, <3>1, <3>2 DEF Bounded, Tries
    <2>7. CASE c.state = "checking" /\ c.tries <= 1 /\ dhcp_check(c) /\ UNCHANGED wire
      <3>1. client'.tries = c.tries + 1
        BY <2>1, <2>7, TriesCounted DEF dhcp_check, Tries, States
      <3> QED
        BY <1>1, <1>2, <1>3, <2>1, <2>2, <2>7, <3>1 DEF Bounded
    <2>8. CASE c.state = "checking" /\ dhcp_bind
      <3>1. client' = [SetState(client, "bound") EXCEPT !.armed = FALSE] /\ UNCHANGED wire
        BY <2>8 DEF dhcp_bind
      <3>2. SetState(client, "bound") = [client EXCEPT !.state = "bound", !.tries = 0]
        BY <2>1, <2>8 DEF SetState
      <3>3. client'.tries = 0
        BY <1>1, <3>1, <3>2 DEF Clients
      <3> QED
        BY <1>2, <1>3, <2>2, <3>1, <3>3 DEF Bounded
    <2>9. CASE c.state \in {"off", "bound"} /\ client' = c /\ UNCHANGED wire
      BY <1>2, <1>3, <2>1, <2>2, <2>9 DEF Bounded
    <2> QED
      BY <2>3, <2>5, <2>6, <2>7, <2>8, <2>9
  <1> QED
    BY <1>4, <1>5, <1>6, <1>7, <1>8 DEF Thread

LEMMA TaskBounds ==
    ASSUME IInv, Bounded, DhcpTask
    PROVE  Bounded'
  <1>1. UNCHANGED <<nullTries, refusals>>
    BY DEF DhcpTask, dhcp_start, DiscoverSent, DiscoverFreed, DiscoverCounted, Poll,
           PollTries, dhcp_stop, ClientFreed, ClientForgotten, Assigned, StaticChosen,
           StaticSet, ghosts
  <1>2. wire' \subseteq Kinds
    BY DEF DhcpTask, dhcp_start, DiscoverSent, DiscoverFreed, DiscoverCounted, Poll,
           PollTries, dhcp_stop, ClientFreed, ClientForgotten, Assigned, StaticChosen,
           StaticSet, clientVars, Bounded, Kinds
  <1>3. /\ client \in Clients /\ client.tries \in Nat
        /\ DOMAIN client = {"pcb", "state", "tries", "armed", "offered"}
        /\ MaxDhcpTries \in Nat /\ MaxDhcpTries >= 1
    BY DhcpAssumption DEF IInv, Types, Clients
  <1>4. /\ client'.tries <= MaxDhcpTries + 2
        /\ task' \in {"start", "send", "sent", "count"} => client'.tries <= 2
    <2>1. CASE dhcp_start
      <3>1. client.tries <= 2
        BY <2>1 DEF dhcp_start, Bounded
      <3> DEFINE c == [Zero EXCEPT !.pcb = TRUE, !.state = "selecting"]
      <3>2. c \in Clients /\ c.tries = 0 /\ c.state = "selecting"
        BY Constants DEF Zero, Clients, States
      <3>3. SetState(c, "selecting") = c
        BY <3>2 DEF SetState
      <3>4. Counted(c).tries = 1
        <4> HIDE DEF c
        <4>1. "selecting" \in States
          BY DEF States
        <4>2. Counted(c).tries = Tries(c, "selecting")
          BY <3>2, <3>3, <4>1, TriesCounted
        <4> QED
          BY <3>2, <4>2 DEF Tries
      <3>5. client' = client \/ client' = c \/ client' = Counted(c)
        BY <2>1 DEF dhcp_start
      <3> HIDE DEF c
      <3> QED
        BY <1>3, <3>1, <3>2, <3>4, <3>5
    <2>2. CASE DiscoverCounted
      <3>1. PICK n \in {client.tries + 1, 1} :
                client' = [client EXCEPT !.tries = n, !.armed = TRUE]
        BY <2>2 DEF DiscoverCounted
      <3>2. client'.tries = n
        BY <1>3, <3>1
      <3>3. client.tries <= 2 /\ task' = "poll"
        BY <2>2 DEF DiscoverCounted, Bounded
      <3> QED
        BY <1>3, <3>1, <3>2, <3>3
    <2>3. CASE dhcp_stop
      <3>1. client'.tries = client.tries /\ task' \notin {"start", "send", "sent", "count"}
        BY <1>3, <2>3 DEF dhcp_stop, IInv, Types
      <3> QED
        BY <3>1 DEF Bounded
    <2>4. CASE ClientForgotten
      <3>1. client'.tries = 0
        BY <2>4 DEF ClientForgotten, Zero
      <3> QED
        BY <1>3, <3>1
    <2>5. CASE DiscoverSent \/ DiscoverFreed
      BY <2>5 DEF DiscoverSent, DiscoverFreed, Bounded
    <2>6. CASE Poll \/ PollTries \/ ClientFreed \/ Assigned \/ StaticChosen \/ StaticSet
      <3>1. UNCHANGED client /\ task' \notin {"start", "send", "sent", "count"}
        BY <2>6 DEF Poll, PollTries, ClientFreed, Assigned, StaticChosen, StaticSet, clientVars
      <3> QED
        BY <3>1 DEF Bounded
    <2> QED
      BY <2>1, <2>2, <2>3, <2>4, <2>5, <2>6 DEF DhcpTask
  <1> QED
    BY <1>1, <1>2, <1>4 DEF Bounded

\* Every variable stays in its type: the client's tries go two beyond the
\* number at which the task gives up, and no further.
THEOREM TypeCorrect == Spec => []TypeOK
  <1>1. Init => Bounded
    BY DhcpAssumption DEF Init, Bounded, Zero, Kinds
  <1>2. IInv /\ Bounded /\ [Next]_vars => Bounded'
    <2>1. CASE UNCHANGED vars
      BY <2>1 DEF vars, Bounded
    <2> QED
      BY <2>1, ThreadBounds, TaskBounds DEF Next
  <1>3. IInv /\ Bounded => TypeOK
    BY DEF IInv, Types, Bounded, TypeOK, Clients, Interfaces
  <1> QED
    BY <1>1, <1>2, <1>3, Invariance, PTL DEF Spec
=============================================================================
