-------------------------- MODULE FtpServerProofs --------------------------
(***************************************************************************)
(* Theorems about FtpServer, for every number of clients, descriptors and  *)
(* netconns, and whatever a fresh pasv_sockfd holds.                       *)
(*                                                                         *)
(* First the lists: the walk never meets freed memory (ListInv).           *)
(*                                                                         *)
(* Then the sessions are isolated: as long as each keeps to the data       *)
(* sockets it obtained, no reuse of a descriptor number gives one session  *)
(* another's socket (OwnershipInv, relative to ListInv and NetTypes).      *)
(*                                                                         *)
(* From that, what one session's turn of the walk does to the control      *)
(* connections of the others: nothing.  A control connection is closed     *)
(* only in its own session's turn, and what select() found readable still  *)
(* is when the walk comes to it.                                           *)
(*                                                                         *)
(* The last part counts netconns.  The pool is never overdrawn, whatever   *)
(* descriptors the sessions misuse, and so a connection that waits in an   *)
(* accept mailbox finds a descriptor.  While none is misused, a PASV       *)
(* connection that waits leaves room for every session.                    *)
(***************************************************************************)
EXTENDS FtpServer, SequenceElements, FiniteSetTheorems, TLAPS

-----------------------------------------------------------------------------
(* The lists.  Every step has one of eight effects on them.                *)

lists == <<todo, connList, backlog, pending>>

Suspended == {"pasv", "port", "stor", "send"}

\* The walk stays where it is; a listener that is closed loses its mailbox.
Stays ==
    /\ UNCHANGED <<todo, connList, pending>>
    /\ backlog' \in {backlog, <<>>}
    /\ pc' \in PCs /\ (pc' \in Suspended => pc \in Suspended \/ todo # <<>>)

\* The walk leaves the current session behind.
Advances ==
    /\ todo # <<>> /\ todo' = Tail(todo) /\ pc' = "walk"
    /\ connList' = connList /\ pending' = pending
    /\ backlog' \in {backlog, <<>>}

\* The walk leaves the current session behind, and it is destroyed.
Destroys ==
    /\ todo # <<>> /\ todo' = Tail(todo) /\ pc' = "walk"
    /\ \E i \in 1 .. Len(connList) :
          connList[i] = Head(todo) /\ connList' = RemoveAt(connList, i)
    /\ pending' = pending
    /\ backlog' \in {backlog, <<>>}

StartsWalk ==
    pc' = "walk" /\ todo' = connList /\ UNCHANGED <<connList, backlog, pending>>

Admits ==
    /\ backlog # <<>> /\ backlog' = Tail(backlog) /\ pending' = pending - 1
    /\ connList' = <<Head(backlog)>> \o connList /\ todo' = connList'
    /\ pc' = "walk"

Drops ==
    /\ backlog # <<>> /\ backlog' = Tail(backlog) /\ pending' = pending - 1
    /\ pc' = "select" /\ UNCHANGED <<todo, connList>>

Queues ==
    \E c \in Conns :
        /\ Unconnected(c) /\ pending < MaxConnection
        /\ backlog' = Append(backlog, c) /\ pending' = pending + 1
        /\ UNCHANGED <<pc, todo, connList>>

Refuses ==
    /\ pending < MaxConnection /\ pending' = pending + 1
    /\ UNCHANGED <<pc, todo, connList, backlog>>

ListStep ==
    Stays \/ Advances \/ Destroys \/ StartsWalk \/ Admits \/ Drops \/ Queues \/ Refuses

LEMMA LoopListStep ==
    ASSUME ListInv, Loop
    PROVE  ListStep
  <1>1. CASE Boot
    BY <1>1 DEF Boot, ListInv, PCs, ListStep, Stays, Suspended
  <1>2. CASE Select
    BY <1>2 DEF Select, netVars, ListInv, PCs, ListStep, Stays, Suspended
  <1>3. CASE AcceptSkip
    BY <1>3 DEF AcceptSkip, netVars, ListStep, StartsWalk
  <1>4. CASE AcceptConn
    BY <1>4 DEF AcceptConn, ListStep, Admits
  <1>5. CASE AcceptError
    BY <1>5 DEF AcceptError, ListStep, Drops
  <1>6. CASE EndWalk
    BY <1>6 DEF EndWalk, netVars, ListInv, PCs, ListStep, Stays, Suspended
  <1>7. CASE WalkSkip
    BY <1>7 DEF WalkSkip, NextConn, netVars, ListStep, Advances
  <1>8. CASE Disconnect
    BY <1>8 DEF Disconnect, NextConn, DestroyConn, CloseFd, Current, ListStep, Destroys
  <1> QED
    BY <1>1, <1>2, <1>3, <1>4, <1>5, <1>6, <1>7, <1>8 DEF Loop

LEMMA CommandListStep ==
    ASSUME ListInv, Command
    PROVE  ListStep
  <1> USE DEF CommandRead, NextConn
  <1>1. CASE CmdReplyOnly
    BY <1>1 DEF CmdReplyOnly, ListStep, Advances
  <1>2. CASE CmdSendNothing
    BY <1>2 DEF CmdSendNothing, CloseData, CloseFd, ListStep, Advances
  <1>3. CASE CmdQuit
    BY <1>3 DEF CmdQuit, DestroyConn, CloseFd, Current, ListStep, Destroys
  <1>4. CASE CmdStor \/ CmdSendData
    BY <1>4 DEF CmdStor, CmdSendData, PCs, ListStep, Stays, Suspended
  <1>5. CASE CmdPort
    BY <1>5 DEF CmdPort, PCs, ListStep, Stays, Advances, Suspended
  <1>6. CASE CmdPasvNoSocket
    BY <1>6 DEF CmdPasvNoSocket, CloseData, CloseFd, ListStep, Advances
  <1>7. CASE CmdPasvNoBind
    BY <1>7 DEF CmdPasvNoBind, CloseData, CloseFd, ListStep, Advances
  <1>8. CASE CmdPasvListen
    BY <1>8 DEF CmdPasvListen, PCs, ListStep, Stays, Suspended
  <1> QED
    BY <1>1, <1>2, <1>3, <1>4, <1>5, <1>6, <1>7, <1>8 DEF Command

LEMMA BlockedListStep ==
    ASSUME ListInv, Blocked
    PROVE  ListStep
  <1>1. pc \in Suspended => todo # <<>>
    BY DEF ListInv, WalkIsSound, Suspended
  <1>2. CASE StorRecv
    BY <1>2 DEF StorRecv, serverVars, PCs, Suspended, ListStep, Stays
  <1>3. CASE StorEnd \/ SendEnd
    BY <1>1, <1>3 DEF StorEnd, SendEnd, CloseData, CloseFd, NextConn, Suspended, ListStep, Advances
  <1>4. CASE PortConnected
    BY <1>1, <1>4 DEF PortConnected, NextConn, Suspended, ListStep, Advances
  <1>5. CASE PortRefused
    BY <1>1, <1>5 DEF PortRefused, CloseData, CloseFd, NextConn, Suspended, ListStep, Advances
  <1>6. CASE PasvAccept
    BY <1>1, <1>6 DEF PasvAccept, NextConn, Suspended, ListStep, Advances
  <1>7. CASE PasvAcceptError
    BY <1>1, <1>7 DEF PasvAcceptError, NextConn, Suspended, ListStep, Advances
  <1> QED
    BY <1>2, <1>3, <1>4, <1>5, <1>6, <1>7 DEF Blocked

LEMMA EnvironmentListStep ==
    ASSUME ListInv, Environment
    PROVE  ListStep
  <1>1. ASSUME NEW c \in Conns, ConnectQueued(c)
        PROVE  ListStep
    BY <1>1 DEF ConnectQueued, serverVars, ListStep, Queues
  <1>2. ASSUME NEW c \in Conns, ConnectRefused(c)
        PROVE  ListStep
    BY <1>2 DEF ConnectRefused, serverVars, ListStep, Refuses
  <1>3. ASSUME UNCHANGED serverVars, UNCHANGED <<backlog, pending>>
        PROVE  ListStep
    BY <1>3 DEF serverVars, ListInv, ListStep, Stays
  <1>4. ASSUME NEW c \in Conns, LeaveEarly(c)
        PROVE  ListStep
    BY <1>3, <1>4 DEF LeaveEarly
  <1>5. ASSUME NEW f \in Fds, PeerSend(f) \/ PeerFin(f) \/ PeerReset(f)
        PROVE  ListStep
    BY <1>3, <1>5 DEF PeerSend, PeerFin, PeerReset
  <1>6. ASSUME DataConnect \/ DataLeaveEarly \/ LingerEnds
        PROVE  ListStep
    BY <1>3, <1>6 DEF DataConnect, DataLeaveEarly, LingerEnds
  <1> QED
    BY <1>1, <1>2, <1>4, <1>5, <1>6 DEF Environment

LEMMA ListStepKeepsListInv ==
    ASSUME ListInv, ListStep
    PROVE  ListInv'
  <1> USE DEF ListInv, WalkIsSound, PendingCoversBacklog
  <1>0. /\ <<>> \in Seq(Conns) /\ ToSet(<<>>) = {} /\ IsInjective(<<>>)
        /\ Len(<<>>) = 0 /\ MaxConnection \in Nat /\ pending \in Int
        /\ Len(backlog) \in Nat
        /\ "walk" \in PCs /\ "select" \in PCs
        /\ "walk" \notin {"pasv", "port", "stor", "send"}
        /\ "select" \notin {"pasv", "port", "stor", "send"}
    BY EmptyElements, SocketsAssumption DEF PCs
  <1>a. ASSUME backlog' \in {backlog, <<>>}
        PROVE  /\ backlog' \in Seq(Conns) /\ IsInjective(backlog')
               /\ Len(backlog') <= pending /\ ToSet(backlog') \subseteq ToSet(backlog)
    <2>1. CASE backlog' = backlog
      BY <2>1
    <2>2. CASE backlog' = <<>>
      <3>1. Len(backlog') = 0 /\ 0 <= pending
        BY <1>0, <2>2
      <3> QED
        BY <1>0, <2>2, <3>1
    <2> QED
      BY <1>a, <2>1, <2>2
  <1>1. CASE Stays
    <2>1. pc' \in {"pasv", "port", "stor", "send"} => todo' # <<>>
      BY <1>1 DEF Stays, Suspended
    <2> QED
      BY <1>0, <1>a, <1>1, <2>1 DEF Stays
  <1>2. CASE Advances
    <2>1. /\ Tail(todo) \in Seq(Conns) /\ IsInjective(Tail(todo))
          /\ ToSet(Tail(todo)) \subseteq ToSet(connList)
      BY <1>2, HeadTailElements DEF Advances
    <2> QED
      BY <1>0, <1>a, <1>2, <2>1 DEF Advances
  <1>3. CASE Destroys
    <2>1. PICK i \in 1 .. Len(connList) :
             connList[i] = Head(todo) /\ connList' = RemoveAt(connList, i)
      BY <1>3 DEF Destroys
    <2>2. /\ connList' \in Seq(Conns) /\ IsInjective(connList')
          /\ ToSet(connList') = ToSet(connList) \ {Head(todo)}
      BY <2>1, RemoveAtElements
    <2>3. /\ Tail(todo) \in Seq(Conns) /\ IsInjective(Tail(todo))
          /\ ToSet(Tail(todo)) = ToSet(todo) \ {Head(todo)}
      BY <1>3, HeadTailElements DEF Destroys
    <2> QED
      BY <1>0, <1>a, <1>3, <2>2, <2>3 DEF Destroys
  <1>4. CASE StartsWalk
    BY <1>0, <1>4 DEF StartsWalk
  <1>5. CASE Admits
    <2>1. /\ Head(backlog) \in Conns /\ Head(backlog) \in ToSet(backlog)
          /\ Tail(backlog) \in Seq(Conns) /\ IsInjective(Tail(backlog))
          /\ ToSet(Tail(backlog)) = ToSet(backlog) \ {Head(backlog)}
          /\ Len(Tail(backlog)) = Len(backlog) - 1
      BY <1>5, HeadTailElements DEF Admits
    <2>2. Head(backlog) \notin ToSet(connList)
      BY <2>1
    <2>3. /\ connList' \in Seq(Conns) /\ IsInjective(connList')
          /\ ToSet(connList') = {Head(backlog)} \cup ToSet(connList)
      BY <1>5, <2>1, <2>2, ConsElements DEF Admits
    <2> QED
      BY <1>0, <1>5, <2>1, <2>3 DEF Admits
  <1>6. CASE Drops
    <2>1. /\ Tail(backlog) \in Seq(Conns) /\ IsInjective(Tail(backlog))
          /\ ToSet(Tail(backlog)) \subseteq ToSet(backlog)
          /\ Len(Tail(backlog)) = Len(backlog) - 1
      BY <1>6, HeadTailElements DEF Drops
    <2> QED
      BY <1>0, <1>6, <2>1 DEF Drops
  <1>7. CASE Queues
    <2>1. PICK c \in Conns :
             /\ Unconnected(c) /\ pending < MaxConnection
             /\ backlog' = Append(backlog, c) /\ pending' = pending + 1
             /\ UNCHANGED <<pc, todo, connList>>
      BY <1>7 DEF Queues
    <2>2. /\ backlog' \in Seq(Conns) /\ IsInjective(backlog')
          /\ ToSet(backlog') = {c} \cup ToSet(backlog)
          /\ Len(backlog') = Len(backlog) + 1
      BY <2>1, AppendElements DEF Unconnected
    <2> QED
      BY <1>0, <2>1, <2>2 DEF Unconnected
  <1>8. CASE Refuses
    BY <1>0, <1>8 DEF Refuses
  <1> QED
    BY <1>1, <1>2, <1>3, <1>4, <1>5, <1>6, <1>7, <1>8 DEF ListStep

\* The walk never holds a freed session, the mailbox is covered by the count.
THEOREM ListsCorrect == Spec => []ListInv
  <1>1. Init => ListInv
    BY EmptyElements, SocketsAssumption
    DEF Init, ListInv, WalkIsSound, PendingCoversBacklog, PCs
  <1>2. ListInv /\ [Next]_vars => ListInv'
    <2> SUFFICES ASSUME ListInv, [Next]_vars PROVE ListInv'
      OBVIOUS
    <2>1. CASE Next
      <3>1. ListStep
        BY <2>1, LoopListStep, CommandListStep, BlockedListStep, EnvironmentListStep
        DEF Next, Server
      <3> QED
        BY <3>1, ListStepKeepsListInv
    <2>2. CASE UNCHANGED vars
      BY <2>2 DEF vars, serverVars, netVars, ListInv, WalkIsSound, PendingCoversBacklog
    <2> QED
      BY <2>1, <2>2
  <1> QED
    BY <1>1, <1>2, PTL DEF Spec

\* The saved `next' of the walk always points at a session of the list.
THEOREM WalkStaysSound == Spec => []WalkIsSound
  BY ListsCorrect, PTL DEF ListInv

\* accepts_pending never falls below the number of connections that wait.
THEOREM PendingStaysCovering == Spec => []PendingCoversBacklog
  BY ListsCorrect, PTL DEF ListInv

-----------------------------------------------------------------------------
(* Types                                                                   *)

\* What TypeOK says beyond ListInv.
NetTypes ==
    /\ sess \in [Conns -> Sessions]
    /\ readfds \subseteq Fds /\ tmpfds \subseteq Fds
    /\ slot \in [Fds -> Slots]
    /\ lfd \in Fds \cup {NoFd}
    /\ early \in [Conns -> Peers]
    /\ pwait \in Peers \cup {"none"}
    /\ ppending \in 0 .. 1
    /\ linger \in BOOLEAN /\ clean \in BOOLEAN

LEMMA Descriptors == /\ Listener \in Fds /\ NoFd \notin Fds /\ Fds \subseteq Int
  BY SocketsAssumption DEF Listener, NoFd, Fds

LEMMA SlotType ==
    ASSUME NEW k \in Kinds, NEW o \in Conns \cup {Nobody}, NEW p \in Peers
    PROVE  /\ Slot(k, o, p) \in Slots
           /\ Slot(k, o, p).kind = k /\ Slot(k, o, p).owner = o
  BY DEF Slot, Slots

LEMMA FreeSlotType == FreeSlot \in Slots /\ FreeSlot.kind = "free"
  BY SlotType DEF FreeSlot, Kinds, Peers

LEMMA CurrentType ==
    ASSUME ListInv, todo # <<>>
    PROVE  Current \in Conns /\ Current \in ToSet(connList)
  BY HeadTailElements DEF ListInv, WalkIsSound, Current

\* close() frees the slot of f and touches no other.
LEMMA CloseFdSlots ==
    ASSUME NEW t \in [Fds -> Slots], NEW f \in Fds \cup {NoFd}, CloseFd(t, f)
    PROVE  /\ slot' \in [Fds -> Slots]
           /\ f \in Fds => slot'[f].kind = "free"
           /\ \A g \in Fds : g # f => slot'[g] = t[g]
  BY FreeSlotType, Descriptors DEF CloseFd, Closed

LEMMA CloseFdTypes ==
    ASSUME NetTypes, NEW t \in [Fds -> Slots], NEW f \in Fds \cup {NoFd}, CloseFd(t, f)
    PROVE  /\ slot' \in [Fds -> Slots] /\ early' \in [Conns -> Peers]
           /\ pwait' \in Peers \cup {"none"} /\ ppending' \in 0 .. 1
           /\ linger' \in BOOLEAN
  <1>1. slot' \in [Fds -> Slots]
    BY CloseFdSlots
  <1>2. linger' \in BOOLEAN
    BY DEF CloseFd
  <1>3. pwait' \in Peers \cup {"none"}
    BY DEF NetTypes, CloseFd
  <1> QED
    BY <1>1, <1>2, <1>3 DEF NetTypes, CloseFd

LEMMA CommandReadType ==
    ASSUME ListInv, NetTypes, CommandRead
    PROVE  /\ Current \in Conns /\ Current \in ToSet(connList)
           /\ sess[Current].fd \in Fds /\ sess[Current].pasv \in Fds \cup {NoFd}
           /\ AfterRecv \in [Fds -> Slots]
           /\ \A f \in Fds : /\ AfterRecv[f].kind = slot[f].kind
                             /\ AfterRecv[f].owner = slot[f].owner
  <1>1. Current \in Conns /\ Current \in ToSet(connList)
    BY CurrentType DEF CommandRead
  <1>2. sess[Current].fd \in Fds /\ sess[Current].pasv \in Fds \cup {NoFd}
    BY <1>1 DEF CommandRead, NetTypes, Sessions
  <1> QED
    BY <1>1, <1>2 DEF AfterRecv, NetTypes, Slots

\* A session whose data descriptor or ghost is changed is still a session.
LEMMA SessionUpdate ==
    ASSUME NetTypes, NEW c \in Conns, NEW p \in Fds \cup {NoFd}, NEW h \in BOOLEAN
    PROVE  /\ [sess EXCEPT ![c].pasv = p, ![c].holds = h] \in [Conns -> Sessions]
           /\ [sess EXCEPT ![c].holds = h] \in [Conns -> Sessions]
           /\ [sess EXCEPT ![c] = NoSession] \in [Conns -> Sessions]
  BY DEF NetTypes, Sessions, NoSession

LEMMA CloseDataTypes ==
    ASSUME NetTypes, Current \in Conns,
           NEW t \in [Fds -> Slots], NEW own, CloseData(t, own)
    PROVE  /\ slot' \in [Fds -> Slots] /\ early' \in [Conns -> Peers]
           /\ pwait' \in Peers \cup {"none"} /\ ppending' \in 0 .. 1
           /\ linger' \in BOOLEAN /\ clean' \in BOOLEAN
           /\ sess' \in [Conns -> Sessions]
           /\ lfd' \in Fds \cup {NoFd}
  <1>1. sess[Current].pasv \in Fds \cup {NoFd}
    BY DEF NetTypes, Sessions
  <1>2. /\ slot' \in [Fds -> Slots] /\ early' \in [Conns -> Peers]
        /\ pwait' \in Peers \cup {"none"} /\ ppending' \in 0 .. 1
        /\ linger' \in BOOLEAN
    BY <1>1, CloseFdTypes DEF CloseData
  <1>3. sess' \in [Conns -> Sessions]
    BY SessionUpdate DEF CloseData
  <1>4. clean' \in BOOLEAN
    BY DEF CloseData
  <1> QED
    BY <1>2, <1>3, <1>4 DEF CloseData, NextConn

LEMMA LoopTypes ==
    ASSUME ListInv, NetTypes, OwnershipInv, Loop
    PROVE  NetTypes'
  <1> USE DEF NetTypes
  <1>1. CASE Boot
    <2>1. Slot("listen", Nobody, "up") \in Slots
      BY SlotType DEF Kinds, Peers
    <2>2. UNCHANGED <<sess, tmpfds, lfd, clean, early, pwait, ppending, linger>>
      BY <1>1 DEF Boot
    <2>3. slot' \in [Fds -> Slots] /\ readfds' \subseteq Fds
      BY <1>1, <2>1, Descriptors DEF Boot
    <2> QED
      BY <2>2, <2>3
  <1>2. CASE Select
    <2>1. PICK own : /\ own = {Listener} \cup {sess[c].fd : c \in ToSet(connList)}
                     /\ readfds' = readfds \cup own
                     /\ tmpfds' \subseteq readfds'
      BY <1>2 DEF Select
    <2>2. own \subseteq Fds
      BY <2>1, Descriptors DEF OwnershipInv
    <2> QED
      BY <1>2, <2>1, <2>2 DEF Select, netVars
  <1>3. CASE AcceptSkip
    BY <1>3 DEF AcceptSkip, netVars
  <1>4. CASE AcceptConn
    <2>1. PICK f \in Fds, junk \in Unset :
             /\ slot' = [slot EXCEPT ![f] = Slot("cmd", Head(backlog), early[Head(backlog)])]
             /\ readfds' = readfds \cup {f}
             /\ sess' = [sess EXCEPT ![Head(backlog)] =
                           [fd |-> f, pasv |-> junk, holds |-> FALSE]]
      BY <1>4 DEF AcceptConn
    <2>2. Head(backlog) \in Conns
      BY <1>4, HeadTailElements DEF AcceptConn, ListInv
    <2>3. Slot("cmd", Head(backlog), early[Head(backlog)]) \in Slots
      BY <2>2, SlotType DEF Kinds
    <2>4. [fd |-> f, pasv |-> junk, holds |-> FALSE] \in Sessions
      BY <2>1, UnsetAssumption DEF Sessions
    <2>5. early' \in [Conns -> Peers]
      BY <1>4, <2>2 DEF AcceptConn, Peers
    <2> QED
      BY <1>4, <2>1, <2>2, <2>3, <2>4, <2>5 DEF AcceptConn
  <1>5. CASE AcceptError
    <2>1. Head(backlog) \in Conns
      BY <1>5, HeadTailElements DEF AcceptError, ListInv
    <2> QED
      BY <1>5, <2>1 DEF AcceptError, Peers
  <1>6. CASE EndWalk
    BY <1>6 DEF EndWalk, netVars
  <1>7. CASE WalkSkip
    BY <1>7 DEF WalkSkip, NextConn, netVars
  <1>8. CASE Disconnect
    <2>1. Current \in Conns /\ sess[Current].fd \in Fds
      BY <1>8, CurrentType DEF Disconnect, Sessions
    <2>2. CloseFd(slot, sess[Current].fd)
      BY <1>8 DEF Disconnect
    <2>3. sess' \in [Conns -> Sessions]
      BY <1>8, <2>1, SessionUpdate DEF Disconnect, DestroyConn
    <2> QED
      BY <1>8, <2>1, <2>2, <2>3, CloseFdTypes DEF Disconnect, NextConn
  <1> QED
    BY <1>1, <1>2, <1>3, <1>4, <1>5, <1>6, <1>7, <1>8 DEF Loop

LEMMA CommandTypes ==
    ASSUME ListInv, NetTypes, Command
    PROVE  NetTypes'
  <1>0. CommandRead
    BY DEF Command, CmdReplyOnly, CmdSendNothing, CmdSendData, CmdQuit, CmdStor, CmdPort,
           CmdPasvNoSocket, CmdPasvNoBind, CmdPasvListen
  <1>1. /\ Current \in Conns /\ sess[Current].fd \in Fds
        /\ AfterRecv \in [Fds -> Slots]
    BY <1>0, CommandReadType
  <1>2. ASSUME NEW k \in {"raw", "plisten"}, NEW g \in Fds
        PROVE  [AfterRecv EXCEPT ![g] = Slot(k, Nobody, "up")] \in [Fds -> Slots]
    <2>1. Slot(k, Nobody, "up") \in Slots
      BY SlotType DEF Kinds, Peers
    <2> QED
      BY <1>1, <2>1
  <1>3. CASE CmdReplyOnly
    BY <1>1, <1>3 DEF NetTypes, CmdReplyOnly, NextConn
  <1>4. CASE CmdSendNothing
    BY <1>1, <1>4, CloseDataTypes DEF NetTypes, CmdSendNothing
  <1>5. CASE CmdQuit
    <2>1. CloseFd(AfterRecv, sess[Current].fd)
      BY <1>5 DEF CmdQuit
    <2>2. sess' \in [Conns -> Sessions]
      BY <1>1, <1>5, SessionUpdate DEF CmdQuit, DestroyConn
    <2> QED
      BY <1>1, <1>5, <2>1, <2>2, CloseFdTypes DEF NetTypes, CmdQuit, NextConn
  <1>6. CASE CmdStor \/ CmdSendData
    <2>1. clean' \in BOOLEAN
      BY <1>6 DEF CmdStor, CmdSendData
    <2> QED
      BY <1>1, <1>6, <2>1 DEF NetTypes, CmdStor, CmdSendData
  <1>7. CASE CmdPort
    <2>1. CASE /\ slot' = AfterRecv
               /\ sess' = [sess EXCEPT ![Current].pasv = NoFd, ![Current].holds = FALSE]
               /\ NextConn
      <3>1. sess' \in [Conns -> Sessions]
        BY <1>1, <2>1, SessionUpdate
      <3> QED
        BY <1>1, <1>7, <2>1, <3>1 DEF NetTypes, CmdPort, NextConn
    <2>2. ASSUME NEW g \in Fds,
                 slot' = [AfterRecv EXCEPT ![g] = Slot("raw", Nobody, "up")],
                 sess' = [sess EXCEPT ![Current].pasv = g, ![Current].holds = TRUE],
                 lfd' = lfd
          PROVE  NetTypes'
      <3>1. sess' \in [Conns -> Sessions]
        BY <1>1, <2>2, SessionUpdate
      <3>2. slot' \in [Fds -> Slots]
        BY <1>2, <2>2
      <3> QED
        BY <1>7, <2>2, <3>1, <3>2 DEF NetTypes, CmdPort
    <2> QED
      BY <1>7, <2>1, <2>2 DEF CmdPort
  <1>8. CASE CmdPasvNoSocket
    BY <1>1, <1>8, CloseDataTypes DEF NetTypes, CmdPasvNoSocket
  <1>9. CASE CmdPasvNoBind
    <2>1. PICK g \in Fds : CloseData([AfterRecv EXCEPT ![g] = Slot("raw", Nobody, "up")], g)
      BY <1>9 DEF CmdPasvNoBind
    <2>2. [AfterRecv EXCEPT ![g] = Slot("raw", Nobody, "up")] \in [Fds -> Slots]
      BY <1>2
    <2> QED
      BY <1>1, <1>9, <2>1, <2>2, CloseDataTypes DEF NetTypes, CmdPasvNoBind
  <1>10. CASE CmdPasvListen
    BY <1>2, <1>10 DEF NetTypes, CmdPasvListen
  <1> QED
    BY <1>3, <1>4, <1>5, <1>6, <1>7, <1>8, <1>9, <1>10 DEF Command

LEMMA BlockedTypes ==
    ASSUME ListInv, NetTypes, Blocked
    PROVE  NetTypes'
  <1>0. pc \in {"pasv", "port", "stor", "send"}
    BY DEF Blocked, StorRecv, StorEnd, SendEnd, PortConnected, PortRefused,
           PasvAccept, PasvAcceptError
  <1>1. Current \in Conns
    BY <1>0, CurrentType DEF ListInv, WalkIsSound
  <1>2. ASSUME NEW k \in {"pdata", "adata"}, NEW p \in Peers
        PROVE  Slot(k, Nobody, p) \in Slots
    BY SlotType DEF Kinds
  <1>3. CASE StorRecv
    BY <1>3 DEF NetTypes, StorRecv, serverVars, Slots
  <1>4. CASE StorEnd \/ SendEnd
    BY <1>1, <1>4, CloseDataTypes DEF NetTypes, StorEnd, SendEnd
  <1>5. CASE PortConnected
    <2>1. slot' \in [Fds -> Slots]
      BY <1>2, <1>5 DEF NetTypes, PortConnected, Peers
    <2> QED
      BY <1>5, <2>1 DEF NetTypes, PortConnected, NextConn
  <1>6. CASE PortRefused
    BY <1>1, <1>6, CloseDataTypes DEF NetTypes, PortRefused
  <1>7. CASE PasvAccept
    <2>1. PICK h \in Fds :
             /\ slot' = [slot EXCEPT ![lfd] = FreeSlot, ![h] = Slot("pdata", Nobody, pwait)]
             /\ sess' = [sess EXCEPT ![Current].pasv = h, ![Current].holds = TRUE]
      BY <1>7 DEF PasvAccept
    <2>2. sess' \in [Conns -> Sessions]
      BY <1>1, <2>1, SessionUpdate
    <2>3. slot' \in [Fds -> Slots]
      <3>1. Slot("pdata", Nobody, pwait) \in Slots
        BY <1>2, <1>7 DEF PasvAccept, Peers
      <3> QED
        BY <2>1, <3>1, FreeSlotType DEF NetTypes
    <2> QED
      BY <1>7, <2>2, <2>3 DEF NetTypes, PasvAccept, NextConn
  <1>8. CASE PasvAcceptError
    <2>1. sess' \in [Conns -> Sessions]
      BY <1>1, <1>8, SessionUpdate DEF PasvAcceptError
    <2> QED
      BY <1>8, <2>1 DEF NetTypes, PasvAcceptError, NextConn
  <1> QED
    BY <1>3, <1>4, <1>5, <1>6, <1>7, <1>8 DEF Blocked

LEMMA EnvironmentTypes ==
    ASSUME NetTypes, Environment
    PROVE  NetTypes'
  <1> USE DEF NetTypes, serverVars
  <1>1. ASSUME NEW c \in Conns, ConnectQueued(c) \/ ConnectRefused(c)
        PROVE  NetTypes'
    BY <1>1 DEF ConnectQueued, ConnectRefused
  <1>2. ASSUME NEW c \in Conns, LeaveEarly(c)
        PROVE  NetTypes'
    <2>1. PICK p \in Endings : early' = [early EXCEPT ![c] = p]
      BY <1>2 DEF LeaveEarly
    <2>2. p \in Peers
      BY EndingsAssumption DEF Peers
    <2> QED
      BY <1>2, <2>1, <2>2 DEF LeaveEarly
  <1>3. ASSUME NEW f \in Fds, PeerSend(f)
        PROVE  NetTypes'
    BY <1>3 DEF PeerSend, Slots
  <1>4. ASSUME NEW f \in Fds, PeerFin(f)
        PROVE  NetTypes'
    BY <1>4 DEF PeerFin, Slots, Peers
  <1>5. ASSUME NEW f \in Fds, PeerReset(f)
        PROVE  NetTypes'
    BY <1>5 DEF PeerReset, Slots, Peers
  <1>6. CASE DataConnect
    BY <1>6 DEF DataConnect, Peers
  <1>7. CASE DataLeaveEarly
    BY <1>7, EndingsAssumption DEF DataLeaveEarly, Peers
  <1>8. CASE LingerEnds
    BY <1>8 DEF LingerEnds
  <1> QED
    BY <1>1, <1>2, <1>3, <1>4, <1>5, <1>6, <1>7, <1>8 DEF Environment

LEMMA NextTypes ==
    ASSUME ListInv, NetTypes, OwnershipInv, [Next]_vars
    PROVE  NetTypes'
  <1>1. CASE Next
    BY <1>1, LoopTypes, CommandTypes, BlockedTypes, EnvironmentTypes DEF Next, Server
  <1>2. CASE UNCHANGED vars
    BY <1>2 DEF vars, serverVars, netVars, NetTypes
  <1> QED
    BY <1>1, <1>2

-----------------------------------------------------------------------------
(* Ownership of descriptors.                                               *)

\* The two halves of OwnershipInv.
Listed ==
    /\ ~Serving => connList = <<>>
    /\ \A c \in Conns \ ToSet(connList) : sess[c] = NoSession
    /\ \A c \in ToSet(connList) : sess[c].fd \in Fds

Owned ==
    /\ Serving => slot[Listener].kind = "listen"
    /\ \A c \in ToSet(connList) : slot[sess[c].fd].kind = "cmd" /\ slot[sess[c].fd].owner = c
    /\ \A c \in Conns : sess[c].holds =>
          /\ sess[c].pasv \in Fds
          /\ slot[sess[c].pasv].kind \in
                IF pc = "port" /\ c = Current THEN {"raw"} ELSE {"pdata", "adata"}
          /\ \A d \in Conns : sess[d].holds /\ sess[d].pasv = sess[c].pasv => c = d
    /\ pc = "pasv" => lfd \in Fds /\ slot[lfd].kind = "plisten"
    /\ pc = "port" => sess[Current].holds

LEMMA OwnershipParts == OwnershipInv <=> Listed /\ (clean => Owned)
  BY DEF OwnershipInv, Listed, Owned

LEMMA OwnershipPartsNext == OwnershipInv' <=> Listed' /\ (clean' => Owned')
  BY DEF OwnershipInv, Listed, Owned

\* The table t is as Owned says, but for own, a socket of a running handler.
Keeps(t, own) ==
    /\ t[Listener].kind = "listen"
    /\ \A c \in ToSet(connList) : t[sess[c].fd].kind = "cmd" /\ t[sess[c].fd].owner = c
    /\ \A c \in Conns : sess[c].holds =>
          /\ sess[c].pasv \in Fds /\ sess[c].pasv # own
          /\ t[sess[c].pasv].kind \in {"raw", "pdata", "adata"}
          /\ c # Current => t[sess[c].pasv].kind # "raw"
          /\ \A d \in Conns : sess[d].holds /\ sess[d].pasv = sess[c].pasv => c = d
    /\ own \in Fds => t[own].kind \in {"raw", "plisten"}

\* close(conn->pasv_sockfd), when proper, takes nothing from another session.
LEMMA CloseDataKeepsOwned ==
    ASSUME ListInv, NetTypes, Listed, Serving, Current \in ToSet(connList), Current \in Conns,
           NEW t \in [Fds -> Slots], NEW own \in Fds \cup {NoFd}, Keeps(t, own),
           CloseData(t, own), connList' = connList, clean'
    PROVE  Owned'
  <1> DEFINE p == sess[Current].pasv
  <1>1. p \in Fds \cup {NoFd}
    BY DEF NetTypes, Sessions
  <1>2. /\ slot' \in [Fds -> Slots]
        /\ \A g \in Fds : g # p => slot'[g] = t[g]
    BY <1>1, CloseFdSlots DEF CloseData
  <1>3. /\ sess' = [sess EXCEPT ![Current].holds = FALSE]
        /\ pc' = "walk" /\ Proper(t, own)
    BY DEF CloseData, NextConn
  <1>4. ASSUME NEW g \in Fds, t[g].kind \in {"listen", "cmd"}
        PROVE  slot'[g] = t[g]
    <2>1. g # p
      BY <1>3, <1>4 DEF Proper, Keeps, KindIn
    <2> QED
      BY <1>2, <2>1
  <1>5. ASSUME NEW c \in Conns, c # Current, sess[c].holds
        PROVE  slot'[sess[c].pasv] = t[sess[c].pasv] /\ t[sess[c].pasv].kind \in {"pdata", "adata"}
    <2>1. sess[c].pasv \in Fds /\ t[sess[c].pasv].kind \in {"pdata", "adata"}
      BY <1>5 DEF Keeps
    <2>2. sess[c].pasv # p
      BY <1>3, <1>5, <2>1 DEF Proper, Keeps, KindIn
    <2> QED
      BY <1>2, <2>1, <2>2
  <1>6. /\ \A c \in Conns : sess'[c].fd = sess[c].fd /\ sess'[c].pasv = sess[c].pasv
        /\ \A c \in Conns : sess'[c].holds => c # Current /\ sess[c].holds
    BY <1>3 DEF NetTypes, Sessions
  <1>7. slot'[Listener].kind = "listen"
    BY <1>4, Descriptors DEF Keeps
  <1>8. \A c \in ToSet(connList') : slot'[sess'[c].fd].kind = "cmd" /\ slot'[sess'[c].fd].owner = c
    <2> TAKE c \in ToSet(connList')
    <2>1. c \in ToSet(connList) /\ c \in Conns
      BY ElementsInSet DEF ListInv
    <2>2. sess[c].fd \in Fds /\ t[sess[c].fd].kind = "cmd" /\ t[sess[c].fd].owner = c
      BY <2>1 DEF Listed, Keeps
    <2> QED
      BY <1>4, <1>6, <2>1, <2>2
  <1>9. \A c \in Conns : sess'[c].holds =>
          /\ sess'[c].pasv \in Fds
          /\ slot'[sess'[c].pasv].kind \in {"pdata", "adata"}
          /\ \A d \in Conns : sess'[d].holds /\ sess'[d].pasv = sess'[c].pasv => c = d
    BY <1>5, <1>6 DEF Keeps
  <1> QED
    BY <1>3, <1>7, <1>8, <1>9 DEF Owned

\* A step that opens and closes nothing and changes no session.
SameKinds == \A f \in Fds : slot'[f].kind = slot[f].kind /\ slot'[f].owner = slot[f].owner

LEMMA SameKindsKeepOwned ==
    ASSUME ListInv, NetTypes, Listed, Owned, SameKinds, Serving,
           UNCHANGED <<connList, sess>>,
           \/ UNCHANGED <<pc, todo, lfd>>
           \/ pc # "port" /\ pc' \notin {"port", "pasv"}
    PROVE  Owned'
  <1>1. \A c \in ToSet(connList) : c \in Conns /\ sess[c].fd \in Fds
    BY ElementsInSet DEF ListInv, Listed
  <1>2. slot'[Listener].kind = "listen"
    BY Descriptors DEF SameKinds, Owned
  <1>3. \A c \in ToSet(connList') : slot'[sess'[c].fd].kind = "cmd" /\ slot'[sess'[c].fd].owner = c
    BY <1>1 DEF SameKinds, Owned
  <1>4. \A c \in Conns : sess'[c].holds =>
          /\ sess'[c].pasv \in Fds
          /\ slot'[sess'[c].pasv].kind \in
                IF pc' = "port" /\ c = Current' THEN {"raw"} ELSE {"pdata", "adata"}
          /\ \A d \in Conns : sess'[d].holds /\ sess'[d].pasv = sess'[c].pasv => c = d
    BY DEF SameKinds, Owned, Current
  <1>5. pc' = "pasv" => lfd' \in Fds /\ slot'[lfd'].kind = "plisten"
    BY DEF SameKinds, Owned
  <1>6. pc' = "port" => sess'[Current'].holds
    BY DEF Owned, Current
  <1> QED
    BY <1>2, <1>3, <1>4, <1>5, <1>6 DEF Owned

\* What a running handler knows.
LEMMA OwnedKeeps ==
    ASSUME ListInv, Listed, Owned, Serving
    PROVE  Keeps(slot, NoFd)
  <1>1. \A c \in Conns : sess[c].holds =>
          /\ sess[c].pasv \in Fds /\ sess[c].pasv # NoFd
          /\ slot[sess[c].pasv].kind \in {"raw", "pdata", "adata"}
          /\ c # Current => slot[sess[c].pasv].kind # "raw"
          /\ \A d \in Conns : sess[d].holds /\ sess[d].pasv = sess[c].pasv => c = d
    BY Descriptors DEF Owned
  <1> QED
    BY <1>1, Descriptors DEF Owned, Keeps

LEMMA AfterRecvKeeps ==
    ASSUME ListInv, NetTypes, Listed, Owned, Serving, CommandRead
    PROVE  Keeps(AfterRecv, NoFd)
  <1>1. Keeps(slot, NoFd)
    BY OwnedKeeps
  <1>2. \A f \in Fds : /\ AfterRecv[f].kind = slot[f].kind
                       /\ AfterRecv[f].owner = slot[f].owner
    BY CommandReadType
  <1>3. \A c \in ToSet(connList) : sess[c].fd \in Fds
    BY DEF Listed
  <1> QED
    BY <1>1, <1>2, <1>3, Descriptors DEF Keeps

\* A socket just taken from the table is nobody's.
LEMMA NewSocketKeeps ==
    ASSUME ListInv, NetTypes, Listed, Keeps(AfterRecv, NoFd), CommandRead,
           NEW g \in Fds, IsLowestFree(g), NEW k \in {"raw", "plisten"}
    PROVE  Keeps([AfterRecv EXCEPT ![g] = Slot(k, Nobody, "up")], g)
  <1> DEFINE t == [AfterRecv EXCEPT ![g] = Slot(k, Nobody, "up")]
  <1>1. AfterRecv \in [Fds -> Slots] /\ AfterRecv[g].kind = "free"
    BY CommandReadType DEF IsLowestFree
  <1>2. \A f \in Fds : AfterRecv[f].kind # "free" => f # g /\ t[f] = AfterRecv[f]
    BY <1>1
  <1>3. t[g].kind = k
    <2>1. Slot(k, Nobody, "up").kind = k
      BY SlotType DEF Kinds, Peers
    <2> QED
      BY <1>1, <2>1
  <1>4. \A c \in ToSet(connList) : sess[c].fd \in Fds
    BY DEF Listed
  <1>5. t[Listener].kind = "listen"
    BY <1>2, Descriptors DEF Keeps
  <1>6. \A c \in ToSet(connList) : t[sess[c].fd].kind = "cmd" /\ t[sess[c].fd].owner = c
    BY <1>2, <1>4 DEF Keeps
  <1>7. \A c \in Conns : sess[c].holds => t[sess[c].pasv] = AfterRecv[sess[c].pasv] /\ sess[c].pasv # g
    BY <1>2 DEF Keeps
  <1> QED
    BY <1>3, <1>5, <1>6, <1>7 DEF Keeps

\* A session that closes its control connection and is destroyed takes
\* nothing with it but its own.
LEMMA DestroyKeepsOwned ==
    ASSUME ListInv, NetTypes, Listed, Serving, Current \in ToSet(connList),
           NEW t \in [Fds -> Slots], Keeps(t, NoFd),
           CloseFd(t, sess[Current].fd), DestroyConn(Current), NextConn
    PROVE  Owned'
  <1> DEFINE p == sess[Current].fd
  <1>1. p \in Fds /\ t[p].kind = "cmd" /\ t[p].owner = Current /\ Current \in Conns
    BY ElementsInSet DEF Listed, Keeps, ListInv
  <1>2. \A g \in Fds : g # p => slot'[g] = t[g]
    BY <1>1, CloseFdSlots
  <1>3. /\ \A c \in Conns : c # Current => sess'[c] = sess[c]
        /\ sess'[Current] = NoSession
    BY <1>1 DEF DestroyConn, NetTypes
  <1>4. ToSet(connList') = ToSet(connList) \ {Current}
    BY RemoveAtElements DEF DestroyConn, ListInv, WalkIsSound
  <1>5. slot'[Listener].kind = "listen"
    BY <1>1, <1>2, Descriptors DEF Keeps
  <1>6. \A c \in ToSet(connList') : slot'[sess'[c].fd].kind = "cmd" /\ slot'[sess'[c].fd].owner = c
    <2> TAKE c \in ToSet(connList')
    <2>1. c \in ToSet(connList) /\ c # Current /\ c \in Conns
      BY <1>4, ElementsInSet DEF ListInv
    <2>2. sess[c].fd \in Fds /\ t[sess[c].fd].kind = "cmd" /\ t[sess[c].fd].owner = c
      BY <2>1 DEF Listed, Keeps
    <2> QED
      BY <1>1, <1>2, <1>3, <2>1, <2>2
  <1>7. \A c \in Conns : sess'[c].holds => c # Current /\ sess[c].holds
    BY <1>3 DEF NoSession
  <1>8. \A c \in Conns : sess'[c].holds =>
          /\ sess'[c].pasv \in Fds
          /\ slot'[sess'[c].pasv].kind \in {"pdata", "adata"}
    <2> SUFFICES ASSUME NEW c \in Conns, sess'[c].holds
                 PROVE  sess'[c].pasv \in Fds /\ slot'[sess'[c].pasv].kind \in {"pdata", "adata"}
      OBVIOUS
    <2>1. /\ sess[c].pasv \in Fds /\ sess'[c] = sess[c]
          /\ t[sess[c].pasv].kind \in {"pdata", "adata"}
      BY <1>3, <1>7 DEF Keeps
    <2> QED
      BY <1>1, <1>2, <2>1
  <1>9. \A c, d \in Conns :
          sess'[c].holds /\ sess'[d].holds /\ sess'[d].pasv = sess'[c].pasv => c = d
    BY <1>3, <1>7 DEF Keeps
  <1> QED
    BY <1>5, <1>6, <1>8, <1>9 DEF Owned, NextConn

-----------------------------------------------------------------------------
(* The session table                                                       *)

\* Sessions that are changed only in their data descriptor stay listed.
LEMMA DataChangeKeepsListed ==
    ASSUME ListInv, NetTypes, Listed, Serving => Serving',
           connList' = connList,
           sess' \in [Conns -> Sessions],
           \A c \in Conns : sess'[c].fd = sess[c].fd,
           \A c \in Conns \ ToSet(connList) : sess'[c] = sess[c]
    PROVE  Listed'
  <1>1. \A c \in ToSet(connList) : c \in Conns
    BY ElementsInSet DEF ListInv
  <1> QED
    BY <1>1 DEF Listed

LEMMA DestroyKeepsListed ==
    ASSUME ListInv, NetTypes, Listed, Current \in ToSet(connList), DestroyConn(Current), NextConn
    PROVE  Listed'
  <1>1. \A c \in ToSet(connList) : c \in Conns
    BY ElementsInSet DEF ListInv
  <1>2. ToSet(connList') = ToSet(connList) \ {Current}
    BY RemoveAtElements DEF DestroyConn, ListInv, WalkIsSound
  <1>3. /\ \A c \in Conns : c # Current => sess'[c] = sess[c]
        /\ sess'[Current] = NoSession
    BY <1>1 DEF DestroyConn, NetTypes
  <1> QED
    BY <1>1, <1>2, <1>3 DEF Listed, NextConn, Serving

LEMMA AdmitKeepsListed ==
    ASSUME ListInv, NetTypes, Listed, AcceptConn
    PROVE  Listed'
  <1> DEFINE c == Head(backlog)
  <1>1. PICK f \in Fds, junk \in Unset :
           sess' = [sess EXCEPT ![c] = [fd |-> f, pasv |-> junk, holds |-> FALSE]]
    BY DEF AcceptConn
  <1>2. c \in Conns
    BY HeadTailElements DEF AcceptConn, ListInv
  <1>3. ToSet(connList') = {c} \cup ToSet(connList)
    BY <1>2, ConsElements DEF AcceptConn, ListInv
  <1>4. \A d \in ToSet(connList) : d \in Conns
    BY ElementsInSet DEF ListInv
  <1>5. sess'[c].fd = f /\ \A d \in Conns : d # c => sess'[d] = sess[d]
    BY <1>1, <1>2 DEF NetTypes
  <1> QED
    BY <1>2, <1>3, <1>4, <1>5 DEF Listed, AcceptConn, Serving

LEMMA CloseDataKeepsListed ==
    ASSUME ListInv, NetTypes, Listed, Serving, Current \in ToSet(connList), Current \in Conns,
           NEW t, NEW own, CloseData(t, own), connList' = connList
    PROVE  Listed'
  <1>1. sess' \in [Conns -> Sessions]
    BY SessionUpdate DEF CloseData
  <1>2. /\ \A c \in Conns : sess'[c].fd = sess[c].fd
        /\ \A c \in Conns : c # Current => sess'[c] = sess[c]
    BY DEF CloseData, NetTypes, Sessions
  <1>3. Serving'
    BY DEF CloseData, NextConn, Serving
  <1> QED
    BY <1>1, <1>2, <1>3, DataChangeKeepsListed

-----------------------------------------------------------------------------
(* Each action                                                             *)

LEMMA LoopOwnership ==
    ASSUME ListInv, NetTypes, OwnershipInv, Loop
    PROVE  OwnershipInv'
  <1>0. Listed /\ (clean => Owned)
    BY OwnershipParts
  <1>1. CASE Boot
    <2>1. connList = <<>> /\ connList' = <<>> /\ sess' = sess /\ clean' = clean
      BY <1>0, <1>1 DEF Boot, Listed, Serving
    <2>2. \A c \in Conns : c \notin ToSet(connList) /\ sess[c] = NoSession
      BY <1>0, <2>1, EmptyElements DEF Listed
    <2>3. Listed'
      BY <2>1, <2>2, EmptyElements DEF Listed
    <2>4. Serving' => slot'[Listener].kind = "listen"
      <3>1. Slot("listen", Nobody, "up").kind = "listen"
        BY DEF Slot
      <3> QED
        BY <1>1, <3>1, Descriptors DEF Boot, NetTypes, Serving
    <2>5. Owned'
      BY <1>1, <2>1, <2>2, <2>4, EmptyElements DEF Boot, Owned, NoSession
    <2> QED
      BY <2>3, <2>5, OwnershipPartsNext
  <1>2. ASSUME UNCHANGED <<connList, sess, slot, clean>>, Serving, Serving',
               pc # "port", pc' \notin {"port", "pasv"}
        PROVE  OwnershipInv'
    <2>1. Listed'
      BY <1>0, <1>2, DataChangeKeepsListed DEF NetTypes
    <2>2. clean' => Owned'
      BY <1>0, <1>2, SameKindsKeepOwned DEF SameKinds
    <2> QED
      BY <2>1, <2>2, OwnershipPartsNext
  <1>3. CASE Select
    BY <1>2, <1>3 DEF Select, netVars, Serving
  <1>4. CASE AcceptSkip
    BY <1>2, <1>4 DEF AcceptSkip, netVars, Serving
  <1>5. CASE AcceptConn
    <2>1. Listed'
      BY <1>0, <1>5, AdmitKeepsListed
    <2>2. ASSUME clean' PROVE Owned'
      <3> DEFINE c == Head(backlog)
      <3>1. PICK f \in Fds, junk \in Unset :
               /\ IsLowestFree(f)
               /\ slot' = [slot EXCEPT ![f] = Slot("cmd", c, early[c])]
               /\ sess' = [sess EXCEPT ![c] = [fd |-> f, pasv |-> junk, holds |-> FALSE]]
        BY <1>5 DEF AcceptConn
      <3>2. c \in Conns /\ c \in ToSet(backlog)
        BY <1>5, HeadTailElements DEF AcceptConn, ListInv
      <3>3. ToSet(connList') = {c} \cup ToSet(connList) /\ c \notin ToSet(connList)
        BY <1>5, <3>2, ConsElements DEF AcceptConn, ListInv
      <3>4. Owned /\ Serving
        BY <1>0, <1>5, <2>2 DEF AcceptConn, Serving
      <3>5. slot[f].kind = "free" /\ \A g \in Fds : g # f => slot'[g] = slot[g]
        BY <3>1 DEF IsLowestFree, NetTypes
      <3>6. slot'[f].kind = "cmd" /\ slot'[f].owner = c
        <4>1. early[c] \in Peers
          BY <3>2 DEF NetTypes
        <4>2. Slot("cmd", c, early[c]).kind = "cmd" /\ Slot("cmd", c, early[c]).owner = c
          BY <3>2, <4>1, SlotType DEF Kinds
        <4> QED
          BY <3>1, <4>2 DEF NetTypes
      <3>7. /\ sess'[c] = [fd |-> f, pasv |-> junk, holds |-> FALSE]
            /\ \A d \in Conns : d # c => sess'[d] = sess[d]
        BY <3>1, <3>2 DEF NetTypes
      <3>8. slot'[Listener].kind = "listen"
        BY <3>4, <3>5, Descriptors DEF Owned
      <3>9. \A d \in ToSet(connList') :
               slot'[sess'[d].fd].kind = "cmd" /\ slot'[sess'[d].fd].owner = d
        <4> TAKE d \in ToSet(connList')
        <4>1. CASE d = c
          BY <3>6, <3>7, <4>1
        <4>2. CASE d # c
          <5>1. d \in ToSet(connList) /\ d \in Conns /\ sess[d].fd \in Fds
            BY <1>0, <3>3, <4>2, ElementsInSet DEF ListInv, Listed
          <5>2. slot[sess[d].fd].kind = "cmd" /\ slot[sess[d].fd].owner = d
            BY <3>4, <5>1 DEF Owned
          <5> QED
            BY <3>5, <3>7, <4>2, <5>1, <5>2
        <4> QED
          BY <4>1, <4>2
      <3>10. \A d \in Conns : sess'[d].holds => d # c /\ sess'[d] = sess[d]
        BY <3>7
      <3>11. \A d \in Conns : sess'[d].holds =>
               /\ sess'[d].pasv \in Fds
               /\ slot'[sess'[d].pasv].kind \in {"pdata", "adata"}
               /\ \A e \in Conns : sess'[e].holds /\ sess'[e].pasv = sess'[d].pasv => d = e
        <4>1. \A d \in Conns : sess[d].holds =>
                /\ sess[d].pasv \in Fds
                /\ slot[sess[d].pasv].kind \in {"pdata", "adata"}
                /\ \A e \in Conns : sess[e].holds /\ sess[e].pasv = sess[d].pasv => d = e
          BY <1>5, <3>4 DEF Owned, AcceptConn
        <4>2. \A d \in Conns : sess'[d].holds =>
                slot'[sess[d].pasv] = slot[sess[d].pasv]
          BY <3>5, <3>10, <4>1
        <4> QED
          BY <3>10, <4>1, <4>2
      <3> QED
        BY <1>5, <3>8, <3>9, <3>11 DEF Owned, AcceptConn
    <2> QED
      BY <2>1, <2>2, OwnershipPartsNext
  <1>6. CASE AcceptError
    BY <1>2, <1>6 DEF AcceptError, Serving
  <1>7. CASE EndWalk
    BY <1>2, <1>7 DEF EndWalk, netVars, Serving
  <1>8. CASE WalkSkip
    BY <1>2, <1>8 DEF WalkSkip, NextConn, netVars, Serving
  <1>9. CASE Disconnect
    <2>1. /\ CloseFd(slot, sess[Current].fd) /\ DestroyConn(Current) /\ NextConn
          /\ Serving /\ clean' = clean /\ slot \in [Fds -> Slots]
      BY <1>9 DEF Disconnect, Serving, NetTypes
    <2>2. Current \in ToSet(connList)
      BY <1>9, CurrentType DEF Disconnect
    <2>3. Listed'
      BY <1>0, <2>1, <2>2, DestroyKeepsListed
    <2>4. clean' => Owned'
      BY <1>0, <2>1, <2>2, OwnedKeeps, DestroyKeepsOwned
    <2> QED
      BY <2>3, <2>4, OwnershipPartsNext
  <1> QED
    BY <1>1, <1>3, <1>4, <1>5, <1>6, <1>7, <1>8, <1>9 DEF Loop

\* CloseData closes what is the session's own: the six actions that end so.
LEMMA CloseDataOwnership ==
    ASSUME ListInv, NetTypes, OwnershipInv, Serving, todo # <<>>,
           NEW t \in [Fds -> Slots], NEW own \in Fds \cup {NoFd}, clean => Keeps(t, own),
           CloseData(t, own), connList' = connList
    PROVE  OwnershipInv'
  <1>1. Listed /\ (clean => Owned)
    BY OwnershipParts
  <1>2. Current \in ToSet(connList) /\ Current \in Conns
    BY CurrentType
  <1>3. clean' => clean
    BY DEF CloseData
  <1>4. Listed'
    BY <1>1, <1>2, CloseDataKeepsListed
  <1>5. clean' => Owned'
    BY <1>1, <1>2, <1>3, CloseDataKeepsOwned
  <1> QED
    BY <1>4, <1>5, OwnershipPartsNext

\* A handler that stops holding a data socket, and opens none.
LEMMA ForgetDataOwnership ==
    ASSUME ListInv, NetTypes, OwnershipInv, Serving, todo # <<>>, pc # "port",
           sess' = [sess EXCEPT ![Current].pasv = NoFd, ![Current].holds = FALSE],
           connList' = connList, clean' = clean, NextConn, SameKinds
    PROVE  OwnershipInv'
  <1>1. Listed /\ (clean => Owned)
    BY OwnershipParts
  <1>2. Current \in ToSet(connList) /\ Current \in Conns
    BY CurrentType
  <1>3. /\ sess' \in [Conns -> Sessions]
        /\ \A c \in Conns : sess'[c].fd = sess[c].fd
        /\ \A c \in Conns : c # Current => sess'[c] = sess[c]
        /\ sess'[Current].holds = FALSE
    BY <1>2 DEF NetTypes, Sessions
  <1>4. Listed'
    BY <1>1, <1>2, <1>3, DataChangeKeepsListed DEF NextConn, Serving
  <1>5. ASSUME clean' PROVE Owned'
    <2>1. Owned
      BY <1>1, <1>5
    <2>2. slot'[Listener].kind = "listen"
      BY <2>1, Descriptors DEF Owned, SameKinds
    <2>3. \A c \in ToSet(connList') : slot'[sess'[c].fd].kind = "cmd" /\ slot'[sess'[c].fd].owner = c
      <3> TAKE c \in ToSet(connList')
      <3>1. c \in ToSet(connList) /\ c \in Conns /\ sess[c].fd \in Fds
        BY <1>1, ElementsInSet DEF ListInv, Listed
      <3> QED
        BY <1>3, <2>1, <3>1 DEF Owned, SameKinds
    <2>4. \A c \in Conns : sess'[c].holds =>
            /\ sess'[c].pasv \in Fds
            /\ slot'[sess'[c].pasv].kind \in {"pdata", "adata"}
            /\ \A d \in Conns : sess'[d].holds /\ sess'[d].pasv = sess'[c].pasv => c = d
      BY <1>3, <2>1 DEF Owned, SameKinds
    <2>5. pc' = "walk" /\ Serving'
      BY DEF NextConn, Serving
    <2>6. \A c \in Conns : sess'[c].holds =>
            /\ sess'[c].pasv \in Fds
            /\ slot'[sess'[c].pasv].kind \in
                  IF pc' = "port" /\ c = Current' THEN {"raw"} ELSE {"pdata", "adata"}
            /\ \A d \in Conns : sess'[d].holds /\ sess'[d].pasv = sess'[c].pasv => c = d
      BY <2>4, <2>5
    <2>7. (pc' = "pasv" => lfd' \in Fds /\ slot'[lfd'].kind = "plisten")
          /\ (pc' = "port" => sess'[Current'].holds)
      BY <2>5
    <2> QED
      BY ONLY <2>2, <2>3, <2>6, <2>7 DEF Owned
  <1> QED
    BY <1>4, <1>5, OwnershipPartsNext

\* The current session obtains h, which was free or its handler's own.
LEMMA ObtainDataOwnership ==
    ASSUME ListInv, NetTypes, OwnershipInv, Serving, todo # <<>>, pc # "port",
           NEW h \in Fds, sess' = [sess EXCEPT ![Current].pasv = h, ![Current].holds = TRUE],
           connList' = connList, clean' = clean, Serving', pc' # "pasv",
           slot[h].kind = "free",
           pc' = "port" => Current' = Current,
           slot'[h].kind \in IF pc' = "port" THEN {"raw"} ELSE {"pdata", "adata"},
           \A f \in Fds \ {h} : /\ slot[f].kind \notin {"free", "raw", "plisten"} =>
                                      slot'[f].kind = slot[f].kind
                                /\ slot'[f].kind = "cmd" => slot'[f].owner = slot[f].owner
    PROVE  OwnershipInv'
  <1>1. Listed /\ (clean => Owned)
    BY OwnershipParts
  <1>2. Current \in ToSet(connList) /\ Current \in Conns
    BY CurrentType
  <1>3. /\ sess' \in [Conns -> Sessions]
        /\ \A c \in Conns : sess'[c].fd = sess[c].fd
        /\ \A c \in Conns : c # Current => sess'[c] = sess[c]
        /\ sess'[Current].holds /\ sess'[Current].pasv = h
    BY <1>2 DEF NetTypes, Sessions
  <1>4. Listed'
    BY <1>1, <1>2, <1>3, DataChangeKeepsListed
  <1>5. ASSUME clean' PROVE Owned'
    <2>1. Owned
      BY <1>1, <1>5
    <2>2. slot'[Listener].kind = "listen"
      BY <2>1, Descriptors DEF Owned
    <2>3. \A c \in ToSet(connList') : slot'[sess'[c].fd].kind = "cmd" /\ slot'[sess'[c].fd].owner = c
      <3> TAKE c \in ToSet(connList')
      <3>1. c \in ToSet(connList) /\ c \in Conns /\ sess[c].fd \in Fds
        BY <1>1, ElementsInSet DEF ListInv, Listed
      <3>2. slot[sess[c].fd].kind = "cmd" /\ slot[sess[c].fd].owner = c
        BY <2>1, <3>1 DEF Owned
      <3> QED
        BY <1>3, <3>1, <3>2
    <2>4. \A c \in Conns : c # Current /\ sess'[c].holds =>
            /\ sess[c].holds /\ sess[c].pasv \in Fds \ {h} /\ sess'[c] = sess[c]
            /\ slot'[sess[c].pasv].kind \in {"pdata", "adata"}
      <3> TAKE c \in Conns
      <3> HAVE c # Current /\ sess'[c].holds
      <3>1. sess'[c] = sess[c] /\ sess[c].holds
        BY <1>3
      <3>2. sess[c].pasv \in Fds /\ slot[sess[c].pasv].kind \in {"pdata", "adata"}
        BY <2>1, <3>1 DEF Owned
      <3> QED
        BY <3>1, <3>2
    <2>5. \A c, d \in Conns :
             sess'[c].holds /\ sess'[d].holds /\ sess'[d].pasv = sess'[c].pasv => c = d
      BY <1>3, <2>1, <2>4 DEF Owned
    <2>6. \A c \in Conns : sess'[c].holds =>
            /\ sess'[c].pasv \in Fds
            /\ slot'[sess'[c].pasv].kind \in
                  IF pc' = "port" /\ c = Current' THEN {"raw"} ELSE {"pdata", "adata"}
      BY <1>3, <2>4
    <2>7. pc' = "port" => sess'[Current'].holds
      BY <1>3
    <2> QED
      BY <2>2, <2>3, <2>5, <2>6, <2>7 DEF Owned
  <1> QED
    BY <1>4, <1>5, OwnershipPartsNext

LEMMA CommandOwnership ==
    ASSUME ListInv, NetTypes, OwnershipInv, Command
    PROVE  OwnershipInv'
  <1>0. CommandRead
    BY DEF Command, CmdReplyOnly, CmdSendNothing, CmdSendData, CmdQuit, CmdStor, CmdPort,
           CmdPasvNoSocket, CmdPasvNoBind, CmdPasvListen
  <1>1. /\ Listed /\ (clean => Owned)
        /\ Serving /\ pc = "walk" /\ todo # <<>>
        /\ Current \in ToSet(connList) /\ Current \in Conns
    BY <1>0, OwnershipParts, CurrentType DEF CommandRead, Serving
  <1>2. /\ AfterRecv \in [Fds -> Slots]
        /\ \A f \in Fds : AfterRecv[f].kind = slot[f].kind /\ AfterRecv[f].owner = slot[f].owner
    BY <1>0, CommandReadType
  <1>3. clean => Keeps(AfterRecv, NoFd)
    BY <1>0, <1>1, AfterRecvKeeps
  <1>4. ASSUME slot' = AfterRecv, UNCHANGED <<connList, sess>>, clean' => clean,
               pc' \in {"walk", "stor", "send"}
        PROVE  OwnershipInv'
    <2>1. Listed'
      BY <1>1, <1>4, DataChangeKeepsListed DEF Serving, NetTypes
    <2>2. clean' => Owned'
      BY <1>1, <1>2, <1>4, SameKindsKeepOwned DEF SameKinds
    <2> QED
      BY <2>1, <2>2, OwnershipPartsNext
  <1>5. CASE CmdReplyOnly
    BY <1>4, <1>5 DEF CmdReplyOnly, NextConn
  <1>6. CASE CmdSendNothing
    BY <1>1, <1>2, <1>3, <1>6, CloseDataOwnership DEF CmdSendNothing
  <1>7. CASE CmdQuit
    <2>1. /\ CloseFd(AfterRecv, sess[Current].fd) /\ DestroyConn(Current) /\ NextConn
          /\ clean' = clean
      BY <1>7 DEF CmdQuit
    <2>2. Listed'
      BY <1>1, <2>1, DestroyKeepsListed
    <2>3. clean' => Owned'
      BY <1>1, <1>2, <1>3, <2>1, DestroyKeepsOwned
    <2> QED
      BY <2>2, <2>3, OwnershipPartsNext
  <1>8. CASE CmdStor \/ CmdSendData
    BY <1>4, <1>8 DEF CmdStor, CmdSendData
  <1>9. CASE CmdPort
    <2>1. CASE /\ slot' = AfterRecv
               /\ sess' = [sess EXCEPT ![Current].pasv = NoFd, ![Current].holds = FALSE]
               /\ NextConn
      BY <1>1, <1>2, <1>9, <2>1, ForgetDataOwnership DEF CmdPort, SameKinds
    <2>2. CASE /\ \E g \in Fds :
                     /\ IsLowestFree(g)
                     /\ slot' = [AfterRecv EXCEPT ![g] = Slot("raw", Nobody, "up")]
                     /\ sess' = [sess EXCEPT ![Current].pasv = g, ![Current].holds = TRUE]
               /\ pc' = "port" /\ UNCHANGED <<todo, lfd>>
      <3>1. PICK g \in Fds :
               /\ IsLowestFree(g)
               /\ slot' = [AfterRecv EXCEPT ![g] = Slot("raw", Nobody, "up")]
               /\ sess' = [sess EXCEPT ![Current].pasv = g, ![Current].holds = TRUE]
        BY <2>2
      <3>2. Slot("raw", Nobody, "up").kind = "raw"
        BY DEF Slot
      <3>3. slot'[g].kind = "raw" /\ \A f \in Fds \ {g} : slot'[f] = AfterRecv[f]
        BY <1>2, <3>1, <3>2
      <3>4. /\ slot[g].kind = "free" /\ Serving' /\ Current' = Current
            /\ connList' = connList /\ clean' = clean
        BY <1>9, <2>2, <3>1 DEF CmdPort, IsLowestFree, Serving, Current
      <3> QED
        BY <1>1, <1>2, <2>2, <3>1, <3>3, <3>4, ObtainDataOwnership
    <2> QED
      BY <1>9, <2>1, <2>2 DEF CmdPort
  <1>10. CASE CmdPasvNoSocket
    BY <1>1, <1>2, <1>3, <1>10, CloseDataOwnership DEF CmdPasvNoSocket
  <1>11. ASSUME NEW g \in Fds, IsLowestFree(g), NEW k \in {"raw", "plisten"}
         PROVE  /\ [AfterRecv EXCEPT ![g] = Slot(k, Nobody, "up")] \in [Fds -> Slots]
                /\ clean => Keeps([AfterRecv EXCEPT ![g] = Slot(k, Nobody, "up")], g)
    <2>1. Slot(k, Nobody, "up") \in Slots
      BY SlotType DEF Kinds, Peers
    <2> QED
      BY <1>0, <1>1, <1>2, <1>3, <1>11, <2>1, NewSocketKeeps
  <1>12. CASE CmdPasvNoBind
    <2>1. PICK g \in Fds :
             /\ IsLowestFree(g)
             /\ CloseData([AfterRecv EXCEPT ![g] = Slot("raw", Nobody, "up")], g)
      BY <1>12 DEF CmdPasvNoBind
    <2>2. connList' = connList
      BY <1>12 DEF CmdPasvNoBind
    <2> QED
      BY <1>1, <1>11, <2>1, <2>2, CloseDataOwnership
  <1>13. CASE CmdPasvListen
    <2>1. PICK g \in Fds :
             /\ IsLowestFree(g) /\ lfd' = g
             /\ slot' = [AfterRecv EXCEPT ![g] = Slot("plisten", Nobody, "up")]
      BY <1>13 DEF CmdPasvListen
    <2>2. UNCHANGED <<connList, sess, clean, todo>> /\ pc' = "pasv"
      BY <1>13 DEF CmdPasvListen
    <2>3. Listed'
      BY <1>1, <2>2, DataChangeKeepsListed DEF Serving, NetTypes
    <2>4. ASSUME clean' PROVE Owned'
      <3>1. Keeps(slot', g) /\ Owned
        BY <1>1, <1>11, <2>1, <2>2, <2>4
      <3>2. slot'[g].kind = "plisten"
        <4>1. Slot("plisten", Nobody, "up").kind = "plisten"
          BY DEF Slot
        <4> QED
          BY <1>2, <2>1, <4>1
      <3>3. \A c \in Conns : sess[c].holds => slot'[sess[c].pasv].kind \in {"pdata", "adata"}
        <4> TAKE c \in Conns
        <4> HAVE sess[c].holds
        <4>1. sess[c].pasv \in Fds /\ slot[sess[c].pasv].kind \in {"pdata", "adata"}
          BY <1>1, <3>1 DEF Owned
        <4>2. sess[c].pasv # g
          BY <2>1, <4>1 DEF IsLowestFree
        <4> QED
          BY <1>2, <2>1, <4>1, <4>2
      <3> QED
        BY <2>1, <2>2, <3>1, <3>2, <3>3 DEF Owned, Keeps
    <2> QED
      BY <2>3, <2>4, OwnershipPartsNext
  <1> QED
    BY <1>5, <1>6, <1>7, <1>8, <1>9, <1>10, <1>12, <1>13 DEF Command

LEMMA BlockedOwnership ==
    ASSUME ListInv, NetTypes, OwnershipInv, Blocked
    PROVE  OwnershipInv'
  <1>0. pc \in {"pasv", "port", "stor", "send"}
    BY DEF Blocked, StorRecv, StorEnd, SendEnd, PortConnected, PortRefused,
           PasvAccept, PasvAcceptError
  <1>1. /\ Listed /\ (clean => Owned) /\ Serving /\ todo # <<>>
        /\ slot \in [Fds -> Slots] /\ NoFd \in Fds \cup {NoFd}
    BY <1>0, OwnershipParts DEF Serving, ListInv, WalkIsSound, NetTypes
  <1>2. Current \in ToSet(connList) /\ Current \in Conns
    BY <1>1, CurrentType
  <1>3. clean => Keeps(slot, NoFd)
    BY <1>1, OwnedKeeps
  <1>4. CASE StorRecv
    <2>1. /\ SameKinds /\ UNCHANGED <<pc, todo, lfd, connList, sess, clean>>
      BY <1>1, <1>4 DEF StorRecv, serverVars, SameKinds, Slots
    <2>2. Listed'
      BY <1>1, <2>1, DataChangeKeepsListed DEF NetTypes, Serving
    <2>3. clean' => Owned'
      BY <1>1, <2>1, SameKindsKeepOwned
    <2> QED
      BY <2>2, <2>3, OwnershipPartsNext
  <1>5. CASE StorEnd \/ SendEnd
    BY <1>1, <1>3, <1>5, CloseDataOwnership DEF StorEnd, SendEnd
  <1>6. CASE PortConnected
    <2>1. /\ slot' = [slot EXCEPT ![sess[Current].pasv] = Slot("adata", Nobody, "up")]
          /\ UNCHANGED <<connList, sess, clean>> /\ pc = "port" /\ pc' = "walk"
      BY <1>6 DEF PortConnected, NextConn
    <2>2. Listed'
      BY <1>1, <2>1, DataChangeKeepsListed DEF NetTypes, Serving
    <2>3. ASSUME clean' PROVE Owned'
      <3> DEFINE p == sess[Current].pasv
      <3>1. Owned
        BY <1>1, <2>1, <2>3
      <3>2. p \in Fds /\ slot[p].kind = "raw" /\ sess[Current].holds
        BY <1>2, <2>1, <3>1 DEF Owned
      <3>3. slot'[p].kind = "adata" /\ \A f \in Fds : f # p => slot'[f] = slot[f]
        <4>1. Slot("adata", Nobody, "up").kind = "adata"
          BY DEF Slot
        <4> QED
          BY <1>1, <2>1, <3>2, <4>1
      <3>4. slot'[Listener].kind = "listen"
        BY <1>1, <3>1, <3>2, <3>3, Descriptors DEF Owned
      <3>5. \A c \in ToSet(connList) : slot'[sess[c].fd].kind = "cmd" /\ slot'[sess[c].fd].owner = c
        <4> TAKE c \in ToSet(connList)
        <4>1. sess[c].fd \in Fds /\ slot[sess[c].fd].kind = "cmd" /\ slot[sess[c].fd].owner = c
          BY <1>1, <3>1 DEF Listed, Owned
        <4> QED
          BY <3>2, <3>3, <4>1
      <3>6. \A c \in Conns : sess[c].holds =>
              sess[c].pasv \in Fds /\ slot'[sess[c].pasv].kind \in {"pdata", "adata"}
        <4> TAKE c \in Conns
        <4> HAVE sess[c].holds
        <4>1. CASE c = Current
          BY <3>2, <3>3, <4>1
        <4>2. CASE c # Current
          <5>1. sess[c].pasv \in Fds /\ slot[sess[c].pasv].kind \in {"pdata", "adata"}
            BY <3>1, <4>2 DEF Owned
          <5> QED
            BY <3>2, <3>3, <5>1
        <4> QED
          BY <4>1, <4>2
      <3> QED
        BY <2>1, <3>1, <3>4, <3>5, <3>6 DEF Owned
    <2> QED
      BY <2>2, <2>3, OwnershipPartsNext
  <1>7. CASE PortRefused
    BY <1>1, <1>3, <1>7, CloseDataOwnership DEF PortRefused
  <1>8. CASE PasvAccept
    <2>1. PICK h \in Fds :
             /\ IsLowestFree(h)
             /\ slot' = [slot EXCEPT ![lfd] = FreeSlot, ![h] = Slot("pdata", Nobody, pwait)]
             /\ sess' = [sess EXCEPT ![Current].pasv = h, ![Current].holds = TRUE]
      BY <1>8 DEF PasvAccept
    <2>2. /\ connList' = connList /\ clean' = clean /\ pc = "pasv" /\ pc' = "walk" /\ Serving'
          /\ slot[h].kind = "free"
      BY <1>8, <2>1 DEF PasvAccept, NextConn, IsLowestFree, Serving
    <2>3. slot'[h].kind = "pdata"
      <3>1. Slot("pdata", Nobody, pwait).kind = "pdata"
        BY DEF Slot
      <3> QED
        BY <1>1, <2>1, <3>1
    <2>4. CASE ~clean
      <3>1. /\ sess' \in [Conns -> Sessions]
            /\ \A c \in Conns : sess'[c].fd = sess[c].fd
            /\ \A c \in Conns : c # Current => sess'[c] = sess[c]
        BY <1>2, <2>1 DEF NetTypes, Sessions
      <3>2. Listed'
        BY <1>1, <1>2, <2>2, <3>1, DataChangeKeepsListed
      <3> QED
        BY <2>2, <2>4, <3>2, OwnershipPartsNext
    <2>5. CASE clean
      <3>1. lfd \in Fds /\ slot[lfd].kind = "plisten"
        BY <1>1, <2>2, <2>5 DEF Owned
      <3>2. \A f \in Fds \ {h} : f = lfd \/ slot'[f] = slot[f]
        BY <1>1, <2>1
      <3>3. lfd # h /\ slot'[lfd].kind = "free"
        BY <1>1, <2>1, <2>2, <3>1, FreeSlotType
      <3>4. \A f \in Fds \ {h} :
              /\ slot[f].kind \notin {"free", "raw", "plisten"} => slot'[f].kind = slot[f].kind
              /\ slot'[f].kind = "cmd" => slot'[f].owner = slot[f].owner
        BY <3>1, <3>2, <3>3
      <3> QED
        BY <1>1, <2>1, <2>2, <2>3, <3>4, ObtainDataOwnership
    <2> QED
      BY <1>1, <2>4, <2>5 DEF NetTypes
  <1>9. CASE PasvAcceptError
    BY <1>1, <1>9, ForgetDataOwnership DEF PasvAcceptError, SameKinds
  <1> QED
    BY <1>4, <1>5, <1>6, <1>7, <1>8, <1>9 DEF Blocked

\* The network opens and closes nothing.
LEMMA EnvironmentKeepsKinds ==
    ASSUME NetTypes, Environment
    PROVE  SameKinds
  <1>1. ASSUME NEW f \in Fds, PeerSend(f) \/ PeerFin(f) \/ PeerReset(f)
        PROVE  SameKinds
    BY <1>1 DEF PeerSend, PeerFin, PeerReset, SameKinds, NetTypes, Slots
  <1>2. ASSUME slot' = slot
        PROVE  SameKinds
    BY <1>2 DEF SameKinds
  <1> QED
    BY <1>1, <1>2 DEF Environment, ConnectQueued, ConnectRefused, LeaveEarly,
                      DataConnect, DataLeaveEarly, LingerEnds

LEMMA EnvironmentOwnership ==
    ASSUME ListInv, NetTypes, OwnershipInv, Environment
    PROVE  OwnershipInv'
  <1>1. UNCHANGED serverVars
    BY DEF Environment, ConnectQueued, ConnectRefused, LeaveEarly, PeerSend, PeerFin,
           PeerReset, DataConnect, DataLeaveEarly, LingerEnds
  <1>2. SameKinds
    BY EnvironmentKeepsKinds
  <1>3. Listed /\ (clean => Owned)
    BY OwnershipParts
  <1>4. UNCHANGED <<pc, todo, lfd, connList, sess, clean>>
    BY <1>1 DEF serverVars
  <1>5. Listed'
    BY <1>3, <1>4 DEF Listed, Serving
  <1>6. clean' => Owned'
    <2>1. CASE Serving
      BY <1>2, <1>3, <1>4, <2>1, SameKindsKeepOwned
    <2>2. CASE ~Serving
      <3>1. connList = <<>> /\ \A c \in Conns : ~sess[c].holds
        BY <1>3, <2>2, EmptyElements DEF Listed, NoSession
      <3>2. ~Serving' /\ pc' \notin {"pasv", "port"} /\ sess' = sess /\ connList' = <<>>
        BY <1>4, <2>2, <3>1 DEF Serving
      <3> QED
        BY <3>1, <3>2, EmptyElements DEF Owned
    <2> QED
      BY <2>1, <2>2
  <1> QED
    BY <1>5, <1>6, OwnershipPartsNext

-----------------------------------------------------------------------------
IInv == ListInv /\ NetTypes /\ OwnershipInv

LEMMA InitInvariant == Init => IInv
  <1> SUFFICES ASSUME Init PROVE IInv
    OBVIOUS
  <1>1. ListInv
    BY EmptyElements, SocketsAssumption
    DEF Init, ListInv, WalkIsSound, PendingCoversBacklog, PCs
  <1>2. NoSession \in Sessions /\ NoSession.holds = FALSE
    BY DEF NoSession, Sessions
  <1>3. NetTypes
    <2>1. sess \in [Conns -> Sessions]
      BY <1>2 DEF Init
    <2>2. slot \in [Fds -> Slots]
      BY FreeSlotType DEF Init
    <2>3. early \in [Conns -> Peers] /\ pwait \in Peers \cup {"none"} /\ ppending \in 0 .. 1
      BY DEF Init, Peers
    <2> QED
      BY <2>1, <2>2, <2>3 DEF Init, NetTypes
  <1>4. OwnershipInv
    <2>1. \A c \in Conns : sess[c] = NoSession
      BY DEF Init
    <2> QED
      BY <1>2, <2>1, EmptyElements DEF Init, OwnershipInv, Serving
  <1> QED
    BY <1>1, <1>3, <1>4 DEF IInv

\* The inductive invariant behind the theorems below.
THEOREM Invariance == Spec => []IInv
  <1>1. IInv /\ [Next]_vars => OwnershipInv' /\ NetTypes'
    <2> SUFFICES ASSUME ListInv, NetTypes, OwnershipInv, [Next]_vars
                 PROVE  OwnershipInv' /\ NetTypes'
      BY DEF IInv
    <2>1. NetTypes'
      BY NextTypes
    <2>2. CASE Next
      <3>1. OwnershipInv'
        BY <2>2, LoopOwnership, CommandOwnership, BlockedOwnership, EnvironmentOwnership
        DEF Next, Server
      <3> QED
        BY <2>1, <3>1
    <2>3. CASE UNCHANGED vars
      <3>1. UNCHANGED <<pc, todo, connList, sess, slot, lfd, clean>>
        BY <2>3 DEF vars, serverVars, netVars
      <3>2. OwnershipInv'
        BY <3>1 DEF OwnershipInv, Serving, Current
      <3> QED
        BY <2>1, <3>2
    <2> QED
      BY <2>2, <2>3
  <1>2. IInv <=> ListInv /\ NetTypes /\ OwnershipInv
    BY DEF IInv
  <1>3. Init => IInv
    BY InitInvariant
  <1>4. Spec => []ListInv
    BY ListsCorrect
  <1> QED
    BY <1>1, <1>2, <1>3, <1>4, PTL DEF Spec

\* Every variable keeps its type: no descriptor out of the table is used.
THEOREM TypeCorrect == Spec => []TypeOK
  <1>1. IInv => TypeOK
    BY DEF IInv, ListInv, NetTypes, TypeOK
  <1> QED
    BY <1>1, Invariance, PTL

\* While each session keeps to its own data sockets, no session's descriptor
\* ever comes to mean another session's socket.
THEOREM Isolation == Spec => []SessionsAreIsolated
  <1>1. IInv => SessionsAreIsolated
    <2> SUFFICES ASSUME Listed, Owned, Serving PROVE SessionsAreIsolated
      BY OwnershipParts DEF IInv, SessionsAreIsolated
    <2> QED
      BY DEF Owned, SessionsAreIsolated
  <1> QED
    BY <1>1, Invariance, PTL

-----------------------------------------------------------------------------
(* The control connections of the other sessions                           *)

\* Before the listener is set up, and if it never is, no descriptor is open.
NothingOpenAtBoot == ~Serving => \A f \in Fds : slot[f].kind = "free"

\* A transfer uses a data socket that was the session's to use at its start.
TransferIsProper == pc \in {"stor", "send"} /\ clean => Proper(slot, NoFd)

\* The sessions that the walk has still to come to.
Coming == IF pc = "walk" THEN ToSet(todo) ELSE ToSet(Tail(todo))

\* What select() said holds until it is used.  A leaked PASV listener may be
\* reported too, by a stale bit of readfds; the loop has no use for it.
ReadyInv ==
    /\ pc = "accept" => \A f \in tmpfds : slot[f].kind # "plisten" => Readable(f)
    /\ clean /\ pc \in {"walk", "pasv", "port", "stor", "send"} =>
          \A c \in Coming : sess[c].fd \in tmpfds => HasInput(slot[sess[c].fd])

\* What a step of ClosedInOwnTurn must satisfy.
TurnKept == \A f \in Fds : LosesControl(f) /\ clean' => InTurnOf(slot[f].owner)

\* The table t has every control connection as u has it.
SameControl(u, t) == \A f \in Fds : slot[f].kind = "cmd" => t[f] = u[f]

\* A step that leaves alone all control connections but the current one.
OthersUntouched ==
    \A f \in Fds : slot[f].kind = "cmd" /\ f # sess[Current].fd => slot'[f] = slot[f]

LEMMA BootKeepsClosed ==
    ASSUME NetTypes, NothingOpenAtBoot, [Next]_vars
    PROVE  NothingOpenAtBoot'
  <1> SUFFICES ASSUME ~Serving' PROVE ~Serving /\ SameKinds
    BY DEF NothingOpenAtBoot, SameKinds
  <1> USE DEF Serving
  <1>1. CASE Loop
    <2>1. Boot
      BY <1>1 DEF Loop, Select, AcceptSkip, AcceptConn, AcceptError, EndWalk, WalkSkip,
                  Disconnect, NextConn
    <2> QED
      BY <2>1 DEF Boot, SameKinds
  <1>2. ~Command
    BY DEF Command, CmdReplyOnly, CmdSendNothing, CmdSendData, CmdQuit, CmdStor, CmdPort,
           CmdPasvNoSocket, CmdPasvNoBind, CmdPasvListen, CloseData, NextConn
  <1>3. ~Blocked
    BY DEF Blocked, StorRecv, StorEnd, SendEnd, PortConnected, PortRefused, PasvAccept,
           PasvAcceptError, CloseData, NextConn, serverVars
  <1>4. CASE Environment
    <2>1. pc' = pc
      BY <1>4 DEF Environment, ConnectQueued, ConnectRefused, LeaveEarly, PeerSend, PeerFin,
                  PeerReset, DataConnect, DataLeaveEarly, LingerEnds, serverVars
    <2> QED
      BY <1>4, <2>1, EnvironmentKeepsKinds
  <1>5. CASE UNCHANGED vars
    BY <1>5 DEF vars, serverVars, netVars, SameKinds
  <1> QED
    BY <1>1, <1>2, <1>3, <1>4, <1>5 DEF Next, Server

-----------------------------------------------------------------------------
(* Control connections                                                     *)

\* A proper close of the data descriptor hits no control connection.
LEMMA CloseDataSpares ==
    ASSUME NetTypes, Current \in Conns, clean',
           NEW t \in [Fds -> Slots], NEW own \in Fds \cup {NoFd}, clean => Keeps(t, own),
           \A f \in Fds : slot[f].kind = "cmd" => t[f].kind = "cmd",
           CloseData(t, own)
    PROVE  SameControl(t, slot')
  <1> DEFINE p == sess[Current].pasv
  <1> SUFFICES ASSUME NEW f \in Fds, slot[f].kind = "cmd"
               PROVE  slot'[f] = t[f]
    BY DEF SameControl
  <1>1. Keeps(t, own) /\ Proper(t, own) /\ CloseFd(t, p)
    BY DEF CloseData
  <1>2. f # p
    BY <1>1 DEF Proper, Keeps, KindIn
  <1>3. p \in Fds \cup {NoFd}
    BY DEF NetTypes, Sessions
  <1> QED
    BY <1>1, <1>2, <1>3, CloseFdSlots

\* A socket is made in a slot that was free.
LEMMA OpenSpares ==
    ASSUME NEW t \in [Fds -> Slots], NEW g \in Fds, slot[g].kind = "free", NEW s
    PROVE  SameControl(t, [t EXCEPT ![g] = s])
  BY DEF SameControl

\* A command but QUIT takes what it was sent, and no more, off the control
\* connections.
LEMMA CommandSpares ==
    ASSUME ListInv, NetTypes, OwnershipInv, Command, ~CmdQuit, clean'
    PROVE  SameControl(AfterRecv, slot')
  <1>0. CommandRead
    BY DEF Command, CmdReplyOnly, CmdSendNothing, CmdSendData, CmdQuit, CmdStor, CmdPort,
           CmdPasvNoSocket, CmdPasvNoBind, CmdPasvListen
  <1>1. /\ Listed /\ (clean => Owned) /\ Serving
        /\ Current \in ToSet(connList) /\ Current \in Conns
    BY <1>0, OwnershipParts, CurrentType DEF CommandRead, Serving
  <1>2. /\ AfterRecv \in [Fds -> Slots]
        /\ \A f \in Fds : slot[f].kind = "cmd" => AfterRecv[f].kind = "cmd"
    BY <1>0, CommandReadType
  <1>3. (clean => Keeps(AfterRecv, NoFd)) /\ NoFd \in Fds \cup {NoFd}
    BY <1>0, <1>1, AfterRecvKeeps
  <1>4. CASE CmdReplyOnly \/ CmdStor \/ CmdSendData
    BY <1>4 DEF CmdReplyOnly, CmdStor, CmdSendData, SameControl
  <1>5. CASE CmdSendNothing
    BY <1>1, <1>2, <1>3, <1>5, CloseDataSpares DEF CmdSendNothing
  <1>6. CASE CmdPort
    <2>1. \/ slot' = AfterRecv
          \/ \E g \in Fds : /\ IsLowestFree(g)
                            /\ slot' = [AfterRecv EXCEPT ![g] = Slot("raw", Nobody, "up")]
      BY <1>6 DEF CmdPort
    <2>2. CASE slot' = AfterRecv
      BY <2>2 DEF SameControl
    <2>3. ASSUME NEW g \in Fds, IsLowestFree(g),
                 slot' = [AfterRecv EXCEPT ![g] = Slot("raw", Nobody, "up")]
          PROVE  SameControl(AfterRecv, slot')
      BY <1>2, <2>3, OpenSpares DEF IsLowestFree
    <2> QED
      BY <2>1, <2>2, <2>3
  <1>7. CASE CmdPasvNoSocket
    BY <1>1, <1>2, <1>3, <1>7, CloseDataSpares DEF CmdPasvNoSocket
  <1>8. CASE CmdPasvNoBind
    <2> DEFINE t(g) == [AfterRecv EXCEPT ![g] = Slot("raw", Nobody, "up")]
    <2>1. PICK g \in Fds : IsLowestFree(g) /\ CloseData(t(g), g)
      BY <1>8 DEF CmdPasvNoBind
    <2>2. Slot("raw", Nobody, "up") \in Slots
      BY SlotType DEF Kinds, Peers
    <2>3. t(g) \in [Fds -> Slots] /\ SameControl(AfterRecv, t(g))
      BY <1>2, <2>1, <2>2, OpenSpares DEF IsLowestFree
    <2>4. clean => Keeps(t(g), g)
      BY <1>0, <1>1, <1>3, <2>1, NewSocketKeeps
    <2>5. \A f \in Fds : slot[f].kind = "cmd" => t(g)[f].kind = "cmd"
      BY <1>2, <2>3 DEF SameControl
    <2> HIDE DEF t
    <2>6. SameControl(t(g), slot')
      BY <1>1, <2>1, <2>3, <2>4, <2>5, CloseDataSpares
    <2> QED
      BY <2>3, <2>6 DEF SameControl
  <1>9. CASE CmdPasvListen
    <2>1. PICK g \in Fds :
             IsLowestFree(g) /\ slot' = [AfterRecv EXCEPT ![g] = Slot("plisten", Nobody, "up")]
      BY <1>9 DEF CmdPasvListen
    <2> QED
      BY <1>2, <2>1, OpenSpares DEF IsLowestFree
  <1> QED
    BY <1>4, <1>5, <1>6, <1>7, <1>8, <1>9 DEF Command

\* The rest of a PASV, PORT, STOR or RETR touches no control connection.
LEMMA BlockedSpares ==
    ASSUME ListInv, NetTypes, OwnershipInv, TransferIsProper, Blocked, clean'
    PROVE  SameControl(slot, slot')
  <1>0. pc \in {"pasv", "port", "stor", "send"}
    BY DEF Blocked, StorRecv, StorEnd, SendEnd, PortConnected, PortRefused,
           PasvAccept, PasvAcceptError
  <1>1. /\ Listed /\ (clean => Owned) /\ Serving /\ todo # <<>>
        /\ slot \in [Fds -> Slots] /\ NoFd \in Fds \cup {NoFd}
    BY <1>0, OwnershipParts DEF Serving, ListInv, WalkIsSound, NetTypes
  <1>2. Current \in ToSet(connList) /\ Current \in Conns
    BY <1>1, CurrentType
  <1>3. clean => Keeps(slot, NoFd)
    BY <1>1, OwnedKeeps
  <1>4. CASE StorRecv
    <2>1. Owned /\ Proper(slot, NoFd) /\ DataFd \in Fds /\ slot[DataFd].kind \in Streams
      BY <1>1, <1>4 DEF StorRecv, serverVars, TransferIsProper, HasData
    <2>2. slot[DataFd].kind # "cmd"
      BY <1>2, <1>3, <1>4, <2>1, Descriptors DEF Proper, KindIn, Owned, DataFd, Streams, StorRecv
    <2> QED
      BY <1>1, <1>4, <2>1, <2>2 DEF StorRecv, SameControl
  <1>5. CASE StorEnd \/ SendEnd
    BY <1>1, <1>2, <1>3, <1>5, CloseDataSpares DEF StorEnd, SendEnd
  <1>6. CASE PortConnected
    <2>1. Owned /\ pc = "port"
      BY <1>1, <1>6 DEF PortConnected
    <2>2. slot[sess[Current].pasv].kind # "cmd"
      BY <1>2, <2>1 DEF Owned
    <2> QED
      BY <1>1, <1>6, <2>2 DEF PortConnected, SameControl
  <1>7. CASE PortRefused
    BY <1>1, <1>2, <1>3, <1>7, CloseDataSpares DEF PortRefused
  <1>8. CASE PasvAccept
    <2>1. PICK h \in Fds :
             /\ slot[h].kind = "free"
             /\ slot' = [slot EXCEPT ![lfd] = FreeSlot, ![h] = Slot("pdata", Nobody, pwait)]
      BY <1>8 DEF PasvAccept, IsLowestFree
    <2>2. slot[lfd].kind = "plisten"
      BY <1>1, <1>8 DEF PasvAccept, Owned
    <2> QED
      BY <1>1, <2>1, <2>2 DEF SameControl
  <1>9. CASE PasvAcceptError
    BY <1>9 DEF PasvAcceptError, SameControl
  <1> QED
    BY <1>4, <1>5, <1>6, <1>7, <1>8, <1>9 DEF Blocked

\* The session being visited closes its own control connection.
LEMMA CloseControlSpares ==
    ASSUME Listed, Owned, Current \in ToSet(connList),
           NEW t \in [Fds -> Slots], CloseFd(t, sess[Current].fd),
           \A f \in Fds : f # sess[Current].fd => t[f] = slot[f]
    PROVE  /\ slot[sess[Current].fd].owner = Current
           /\ OthersUntouched
  <1>1. sess[Current].fd \in Fds /\ slot[sess[Current].fd].owner = Current
    BY DEF Listed, Owned
  <1> QED
    BY <1>1, CloseFdSlots DEF OthersUntouched

-----------------------------------------------------------------------------
(* Turns                                                                   *)

LEMMA TransferStaysProper ==
    ASSUME ListInv, NetTypes, OwnershipInv, TransferIsProper, [Next]_vars
    PROVE  TransferIsProper'
  <1> SUFFICES ASSUME pc' \in {"stor", "send"}, clean' PROVE Proper(slot, NoFd)'
    BY DEF TransferIsProper
  <1>1. CASE CmdStor \/ CmdSendData
    <2>1. /\ CommandRead /\ slot' = AfterRecv /\ Proper(slot, NoFd)
          /\ UNCHANGED <<todo, sess>>
      BY <1>1 DEF CmdStor, CmdSendData
    <2> QED
      BY <2>1, CommandReadType DEF Proper, KindIn, Current
  <1>2. ASSUME UNCHANGED <<todo, sess, pc, clean>>,
               \A f \in Fds : slot'[f].kind = slot[f].kind
        PROVE  Proper(slot, NoFd)'
    BY <1>2 DEF TransferIsProper, Proper, KindIn, Current
  <1>3. CASE StorRecv
    BY <1>2, <1>3 DEF StorRecv, serverVars, NetTypes, Slots
  <1>4. CASE Environment
    <2>1. UNCHANGED serverVars
      BY <1>4 DEF Environment, ConnectQueued, ConnectRefused, LeaveEarly, PeerSend, PeerFin,
                  PeerReset, DataConnect, DataLeaveEarly, LingerEnds
    <2> QED
      BY <1>2, <1>4, <2>1, EnvironmentKeepsKinds DEF SameKinds, serverVars
  <1>5. CASE UNCHANGED vars
    BY <1>2, <1>5 DEF vars, serverVars, netVars
  <1>6. ~Loop
    BY DEF Loop, Boot, Select, AcceptSkip, AcceptConn, AcceptError, EndWalk, WalkSkip,
           Disconnect, NextConn
  <1>7. Command => CmdStor \/ CmdSendData
    BY DEF Command, CmdReplyOnly, CmdSendNothing, CmdSendData, CmdQuit, CmdPort,
           CmdPasvNoSocket, CmdPasvNoBind, CmdPasvListen, CloseData, NextConn
  <1>8. Blocked => StorRecv
    BY DEF Blocked, StorEnd, SendEnd, PortConnected, PortRefused, PasvAccept,
           PasvAcceptError, CloseData, NextConn
  <1> QED
    BY <1>1, <1>3, <1>4, <1>5, <1>6, <1>7, <1>8 DEF Next, Server

LEMMA NextTurns ==
    ASSUME ListInv, NetTypes, OwnershipInv, NothingOpenAtBoot, TransferIsProper, Next
    PROVE  TurnKept
  <1> SUFFICES ASSUME NEW f \in Fds, LosesControl(f), clean'
               PROVE  InTurnOf(slot[f].owner)
    BY DEF TurnKept
  <1>0. Listed /\ (clean => Owned) /\ slot \in [Fds -> Slots]
    BY OwnershipParts DEF NetTypes
  <1>1. slot[f].kind = "cmd" /\ slot'[f].owner # slot[f].owner
    BY DEF LosesControl
  <1>2. ~Boot
    BY <1>1 DEF Boot, NothingOpenAtBoot, Serving
  <1>3. ~AcceptConn
    BY <1>0, <1>1 DEF AcceptConn, IsLowestFree
  <1>4. CASE Disconnect \/ CmdQuit
    <2>1. pc = "walk" /\ todo # <<>> /\ clean' = clean
      BY <1>4 DEF Disconnect, CmdQuit, CommandRead
    <2>2. PICK t \in [Fds -> Slots] :
             /\ CloseFd(t, sess[Current].fd)
             /\ \A g \in Fds : g # sess[Current].fd => t[g] = slot[g]
      BY <1>0, <1>4, CommandReadType DEF Disconnect, CmdQuit, AfterRecv
    <2>3. slot[sess[Current].fd].owner = Current /\ OthersUntouched
      BY <1>0, <2>1, <2>2, CurrentType, CloseControlSpares
    <2>4. f = sess[Current].fd
      BY <1>1, <2>3 DEF OthersUntouched
    <2> QED
      BY <2>1, <2>3, <2>4 DEF InTurnOf
  <1>5. ~(Select \/ AcceptSkip \/ AcceptError \/ EndWalk \/ WalkSkip)
    BY <1>1 DEF Select, AcceptSkip, AcceptError, EndWalk, WalkSkip, netVars
  <1>6. ~(Command /\ ~CmdQuit)
    <2> SUFFICES ASSUME Command, ~CmdQuit PROVE FALSE
      OBVIOUS
    <2>1. CommandRead
      BY DEF Command, CmdReplyOnly, CmdSendNothing, CmdSendData, CmdQuit, CmdStor, CmdPort,
             CmdPasvNoSocket, CmdPasvNoBind, CmdPasvListen
    <2>2. slot'[f] = AfterRecv[f]
      BY <1>1, CommandSpares DEF SameControl
    <2> QED
      BY <1>1, <2>1, <2>2, CommandReadType
  <1>7. ~Blocked
    BY <1>1, BlockedSpares DEF SameControl
  <1>8. ~Environment
    BY <1>1, EnvironmentKeepsKinds DEF SameKinds
  <1> QED
    BY <1>2, <1>3, <1>4, <1>5, <1>6, <1>7, <1>8 DEF Next, Server, Loop

-----------------------------------------------------------------------------
(* Readiness                                                               *)

\* Whatever the current session's turn does, the sessions that are still to
\* come find what select() promised them.
LEMMA TurnKeepsReady ==
    ASSUME ListInv, NetTypes, Listed, clean => Owned, ReadyInv, todo # <<>>,
           pc \in {"walk", "pasv", "port", "stor", "send"},
           tmpfds' = tmpfds, clean' => clean /\ OthersUntouched,
           \A c \in Conns : c # Current => sess'[c].fd = sess[c].fd,
           NextConn \/ (pc' \in {"pasv", "port", "stor", "send"} /\ todo' = todo)
    PROVE  ReadyInv'
  <1>1. Coming' = ToSet(Tail(todo)) /\ pc' # "accept"
    BY DEF Coming, NextConn
  <1>2. ToSet(Tail(todo)) \subseteq Coming /\ Current \notin ToSet(Tail(todo))
    BY HeadTailElements DEF Coming, ListInv, WalkIsSound, Current
  <1>3. /\ Current \in ToSet(connList) /\ Current \in Conns
        /\ ToSet(Tail(todo)) \subseteq ToSet(connList) /\ ToSet(connList) \subseteq Conns
    BY CurrentType, HeadTailElements, ElementsInSet DEF ListInv, WalkIsSound
  <1>4. ASSUME clean', NEW c \in ToSet(Tail(todo)), sess'[c].fd \in tmpfds
        PROVE  HasInput(slot'[sess'[c].fd])
    <2>1. c # Current /\ c \in Conns /\ sess'[c].fd = sess[c].fd
      BY <1>2, <1>3
    <2>2. /\ sess[c].fd \in Fds /\ slot[sess[c].fd].kind = "cmd"
          /\ slot[sess[c].fd].owner = c /\ slot[sess[Current].fd].owner = Current
      BY <1>3, <1>4 DEF Listed, Owned
    <2>3. slot'[sess[c].fd] = slot[sess[c].fd]
      BY <1>4, <2>1, <2>2 DEF OthersUntouched
    <2>4. HasInput(slot[sess[c].fd])
      BY <1>2, <1>4, <2>1 DEF ReadyInv
    <2> QED
      BY <2>1, <2>3, <2>4
  <1> QED
    BY <1>1, <1>4 DEF ReadyInv

LEMMA LoopReady ==
    ASSUME ListInv, NetTypes, OwnershipInv, ReadyInv, Loop
    PROVE  ReadyInv'
  <1>0. Listed /\ (clean => Owned) /\ slot \in [Fds -> Slots]
    BY OwnershipParts DEF NetTypes
  <1>1. CASE Boot \/ AcceptError \/ EndWalk
    BY <1>1 DEF Boot, AcceptError, EndWalk, ReadyInv
  <1>2. CASE Select
    <2>1. /\ pc' = "accept" /\ UNCHANGED <<slot, backlog, pwait>>
          /\ \A f \in tmpfds' : Readable(f)
      BY <1>2 DEF Select, netVars
    <2> QED
      BY <2>1 DEF ReadyInv, Readable
  <1>3. ASSUME pc = "accept", Serving, clean, NEW c \in ToSet(connList), sess[c].fd \in tmpfds
        PROVE  HasInput(slot[sess[c].fd])
    <2>1. slot[sess[c].fd].kind = "cmd" /\ Readable(sess[c].fd)
      BY <1>0, <1>3 DEF Owned, ReadyInv
    <2> QED
      BY <2>1 DEF Readable
  <1>4. CASE AcceptSkip
    <2>1. /\ pc = "accept" /\ Serving /\ pc' = "walk" /\ todo' = connList
          /\ UNCHANGED <<slot, sess, tmpfds, clean>>
      BY <1>4 DEF AcceptSkip, netVars, Serving
    <2> QED
      BY <1>3, <2>1 DEF ReadyInv, Coming
  <1>5. CASE AcceptConn
    <2> DEFINE a == Head(backlog)
    <2>1. PICK f \in Fds, junk \in Unset :
             /\ slot[f].kind = "free"
             /\ slot' = [slot EXCEPT ![f] = Slot("cmd", a, early[a])]
             /\ sess' = [sess EXCEPT ![a] = [fd |-> f, pasv |-> junk, holds |-> FALSE]]
      BY <1>5 DEF AcceptConn, IsLowestFree
    <2>2. /\ pc = "accept" /\ Serving /\ pc' = "walk" /\ todo' = <<a>> \o connList
          /\ UNCHANGED <<tmpfds, clean>>
      BY <1>5 DEF AcceptConn, Serving
    <2>3. a \in Conns /\ ToSet(todo') = {a} \cup ToSet(connList) /\ ToSet(connList) \subseteq Conns
      BY <1>5, <2>2, HeadTailElements, ConsElements, ElementsInSet DEF AcceptConn, ListInv
    <2>4. f \notin tmpfds
      BY <2>1, <2>2 DEF ReadyInv, Readable, HasInput, Streams
    <2>5. ASSUME clean, NEW c \in ToSet(todo'), sess'[c].fd \in tmpfds
          PROVE  HasInput(slot'[sess'[c].fd])
      <3>1. c # a
        BY <2>1, <2>3, <2>4, <2>5 DEF NetTypes
      <3>2. c \in ToSet(connList) /\ sess'[c] = sess[c]
        BY <2>1, <2>3, <3>1 DEF NetTypes
      <3>3. sess[c].fd \in Fds /\ sess[c].fd # f
        BY <1>0, <2>4, <2>5, <3>2 DEF Listed
      <3>4. slot'[sess[c].fd] = slot[sess[c].fd]
        BY <1>0, <2>1, <3>3
      <3> QED
        BY <1>3, <2>2, <2>5, <3>2, <3>4
    <2> QED
      BY <2>2, <2>5 DEF ReadyInv, Coming
  <1>6. CASE WalkSkip
    BY <1>0, <1>6, TurnKeepsReady DEF WalkSkip, netVars, OthersUntouched
  <1>7. CASE Disconnect
    <2>1. Current \in ToSet(connList) /\ Current \in Conns
      BY <1>7, CurrentType DEF Disconnect
    <2>2. clean => OthersUntouched
      BY <1>0, <1>7, <2>1, CloseControlSpares DEF Disconnect
    <2>3. \A c \in Conns : c # Current => sess'[c].fd = sess[c].fd
      BY <1>7 DEF Disconnect, DestroyConn, NetTypes
    <2> QED
      BY <1>0, <1>7, <2>2, <2>3, TurnKeepsReady DEF Disconnect
  <1> QED
    BY <1>1, <1>2, <1>4, <1>5, <1>6, <1>7 DEF Loop

LEMMA CommandReady ==
    ASSUME ListInv, NetTypes, OwnershipInv, ReadyInv, Command
    PROVE  ReadyInv'
  <1>0. CommandRead
    BY DEF Command, CmdReplyOnly, CmdSendNothing, CmdSendData, CmdQuit, CmdStor, CmdPort,
           CmdPasvNoSocket, CmdPasvNoBind, CmdPasvListen
  <1>1. Listed /\ (clean => Owned) /\ pc = "walk" /\ todo # <<>>
    BY <1>0, OwnershipParts DEF CommandRead
  <1>2. /\ Current \in ToSet(connList) /\ AfterRecv \in [Fds -> Slots]
        /\ \A f \in Fds : f # sess[Current].fd => AfterRecv[f] = slot[f]
    BY <1>0, CommandReadType DEF NetTypes, AfterRecv
  <1>3. clean' => clean
    BY DEF Command, CmdReplyOnly, CmdSendNothing, CmdSendData, CmdQuit, CmdStor, CmdPort,
           CmdPasvNoSocket, CmdPasvNoBind, CmdPasvListen, CloseData
  <1>4. tmpfds' = tmpfds
    BY DEF Command, CmdReplyOnly, CmdSendNothing, CmdSendData, CmdQuit, CmdStor, CmdPort,
           CmdPasvNoSocket, CmdPasvNoBind, CmdPasvListen
  <1>5. NextConn \/ (pc' \in {"pasv", "port", "stor", "send"} /\ todo' = todo)
    BY DEF Command, CmdReplyOnly, CmdSendNothing, CmdSendData, CmdQuit, CmdStor, CmdPort,
           CmdPasvNoSocket, CmdPasvNoBind, CmdPasvListen, CloseData
  <1>6. \A c \in Conns : c # Current => sess'[c].fd = sess[c].fd
    BY DEF Command, CmdReplyOnly, CmdSendNothing, CmdSendData, CmdQuit, CmdStor, CmdPort,
           CmdPasvNoSocket, CmdPasvNoBind, CmdPasvListen, CloseData, DestroyConn, NetTypes
  <1>7. clean' => OthersUntouched
    <2>1. CASE CmdQuit
      BY <1>1, <1>2, <1>3, <2>1, CloseControlSpares DEF CmdQuit
    <2>2. CASE ~CmdQuit
      BY <1>2, <2>2, CommandSpares DEF SameControl, OthersUntouched
    <2> QED
      BY <2>1, <2>2
  <1> QED
    BY <1>1, <1>3, <1>4, <1>5, <1>6, <1>7, TurnKeepsReady

LEMMA BlockedReady ==
    ASSUME ListInv, NetTypes, OwnershipInv, TransferIsProper, ReadyInv, Blocked
    PROVE  ReadyInv'
  <1>0. pc \in {"pasv", "port", "stor", "send"}
    BY DEF Blocked, StorRecv, StorEnd, SendEnd, PortConnected, PortRefused,
           PasvAccept, PasvAcceptError
  <1>1. Listed /\ (clean => Owned) /\ todo # <<>>
    BY <1>0, OwnershipParts DEF ListInv, WalkIsSound
  <1>2. clean' => clean
    BY DEF Blocked, StorRecv, StorEnd, SendEnd, PortConnected, PortRefused, PasvAccept,
           PasvAcceptError, CloseData, serverVars
  <1>3. tmpfds' = tmpfds
    BY DEF Blocked, StorRecv, StorEnd, SendEnd, PortConnected, PortRefused, PasvAccept,
           PasvAcceptError, serverVars
  <1>4. NextConn \/ (pc' \in {"pasv", "port", "stor", "send"} /\ todo' = todo)
    BY DEF Blocked, StorRecv, StorEnd, SendEnd, PortConnected, PortRefused, PasvAccept,
           PasvAcceptError, CloseData, serverVars
  <1>5. \A c \in Conns : c # Current => sess'[c].fd = sess[c].fd
    BY DEF Blocked, StorRecv, StorEnd, SendEnd, PortConnected, PortRefused, PasvAccept,
           PasvAcceptError, CloseData, serverVars, NetTypes
  <1>6. clean' => OthersUntouched
    BY BlockedSpares DEF SameControl, OthersUntouched
  <1> QED
    BY <1>0, <1>1, <1>2, <1>3, <1>4, <1>5, <1>6, TurnKeepsReady

\* What the network does makes nothing unreadable.
LEMMA EnvironmentReady ==
    ASSUME NetTypes, ListInv, ReadyInv, Environment
    PROVE  ReadyInv'
  <1>1. UNCHANGED serverVars
    BY DEF Environment, ConnectQueued, ConnectRefused, LeaveEarly, PeerSend, PeerFin,
           PeerReset, DataConnect, DataLeaveEarly, LingerEnds
  <1>2. SameKinds
    BY EnvironmentKeepsKinds
  <1>3. \A f \in Fds : HasInput(slot[f]) => HasInput(slot'[f])
    <2>1. ASSUME NEW g \in Fds, PeerSend(g) \/ PeerFin(g) \/ PeerReset(g)
          PROVE  \A f \in Fds : HasInput(slot[f]) => HasInput(slot'[f])
      BY <2>1 DEF PeerSend, PeerFin, PeerReset, NetTypes, Slots, HasInput
    <2>2. ASSUME slot' = slot
          PROVE  \A f \in Fds : HasInput(slot[f]) => HasInput(slot'[f])
      BY <2>2
    <2> QED
      BY <2>1, <2>2 DEF Environment, ConnectQueued, ConnectRefused, LeaveEarly,
                        DataConnect, DataLeaveEarly, LingerEnds
  <1>4. backlog # <<>> => backlog' # <<>>
    <2>1. ASSUME NEW c \in Conns, backlog' = Append(backlog, c) PROVE backlog' # <<>>
      BY <2>1, AppendElements, EmptyElements DEF ListInv
    <2>2. \/ backlog' = backlog
          \/ \E c \in Conns : backlog' = Append(backlog, c)
      BY DEF Environment, ConnectQueued, ConnectRefused, LeaveEarly, PeerSend, PeerFin,
             PeerReset, DataConnect, DataLeaveEarly, LingerEnds
    <2> QED
      BY <2>1, <2>2
  <1>5. \A f \in Fds : slot[f].kind # "plisten" /\ Readable(f) => Readable(f)'
    BY <1>2, <1>3, <1>4 DEF SameKinds, Readable
  <1>6. tmpfds \subseteq Fds
    BY DEF NetTypes
  <1>7. pc = "accept" => \A f \in tmpfds : slot'[f].kind # "plisten" => Readable(f)'
    BY <1>2, <1>5, <1>6 DEF SameKinds, ReadyInv
  <1>8. UNCHANGED <<pc, todo, sess, tmpfds, clean>>
    BY <1>1 DEF serverVars
  <1> QED
    BY <1>3, <1>6, <1>7, <1>8 DEF ReadyInv, Coming

-----------------------------------------------------------------------------
ControlInv == NothingOpenAtBoot /\ TransferIsProper /\ ReadyInv

LEMMA ControlInvariance == Spec => [](IInv /\ ControlInv)
  <1>1. Init => ControlInv
    BY DEF Init, ControlInv, NothingOpenAtBoot, TransferIsProper, ReadyInv, FreeSlot, Slot
  <1>2. IInv /\ ControlInv /\ [Next]_vars => ControlInv'
    <2> SUFFICES ASSUME ListInv, NetTypes, OwnershipInv, ControlInv, [Next]_vars
                 PROVE  ControlInv'
      BY DEF IInv
    <2>1. NothingOpenAtBoot' /\ TransferIsProper'
      BY BootKeepsClosed, TransferStaysProper DEF ControlInv
    <2>2. ReadyInv'
      <3>1. CASE Next
        BY <3>1, LoopReady, CommandReady, BlockedReady, EnvironmentReady, OwnershipParts
        DEF Next, Server, ControlInv
      <3>2. CASE UNCHANGED vars
        BY <3>2 DEF vars, serverVars, netVars, ControlInv, ReadyInv, Coming, Readable
      <3> QED
        BY <3>1, <3>2
    <2> QED
      BY <2>1, <2>2 DEF ControlInv
  <1> QED
    BY <1>1, <1>2, Invariance, PTL DEF Spec

\* No session's turn ends another's control connection: destroy_conn() and the
\* data closes of every handler, for all clients, descriptors and netconns.
THEOREM ClosingTurns == Spec => ClosedInOwnTurn
  <1>1. IInv /\ ControlInv /\ [Next]_vars => [TurnKept]_vars
    BY NextTurns DEF IInv, ControlInv
  <1>2. Spec => [][TurnKept]_vars
    BY <1>1, ControlInvariance, PTL DEF Spec
  <1> QED
    BY <1>2 DEF ClosedInOwnTurn, TurnKept

\* What select() reported is still there when the walk comes to it, after any
\* number of other sessions' commands: neither recv() nor accept() of the loop
\* blocks the task.
THEOREM NeverBlocks == Spec => []LoopNeverBlocks
  <1>1. IInv /\ ControlInv => LoopNeverBlocks
    <2> SUFFICES ASSUME Owned, clean, ReadyInv PROVE LoopNeverBlocks
      BY OwnershipParts DEF IInv, ControlInv, LoopNeverBlocks
    <2>1. pc = "accept" /\ Listener \in tmpfds => backlog # <<>>
      BY DEF Owned, ReadyInv, Readable, Serving
    <2>2. pc = "walk" => \A c \in ToSet(todo) :
             sess[c].fd \in tmpfds => HasInput(slot[sess[c].fd])
      BY DEF ReadyInv, Coming
    <2> QED
      BY <2>1, <2>2 DEF LoopNeverBlocks
  <1> QED
    BY <1>1, ControlInvariance, PTL

-----------------------------------------------------------------------------
(* The netconn pool.  Every action makes one of four changes to the number  *)
(* of netconns in use: see Shrinks, Takes, Moves and Arrives.               *)

\* The two parts of InUse.
Open(t) == {f \in Fds : t[f].kind # "free"}
Mail == Len(backlog) + (IF pwait = "none" THEN 0 ELSE 1)

PoolInv == InUse <= NumNetconns

\* Before the listener is set up nothing waits.
NothingWaitsAtBoot == pc = "boot" => backlog = <<>> /\ pwait = "none"

\* A PORT that is connecting has its socket.
PortSocketOpen ==
    pc = "port" => sess[Current].pasv \in Fds /\ slot[sess[Current].pasv].kind = "raw"

\* A PASV connection waits only in the mailbox of a listener.
MailHasListener == pwait # "none" => Listening("plisten")

\* A step that closes a PASV listener empties its mailbox.
KeepsListener ==
    \/ pwait' = "none"
    \/ /\ pwait # "none"
       /\ \A f \in Fds : slot[f].kind = "plisten" => slot'[f].kind = "plisten"

\* Nothing is taken from the pool.
Shrinks == Open(slot') \subseteq Open(slot) /\ Mail' <= Mail

\* A descriptor is opened by socket(), which has asked for a netconn.
Takes ==
    /\ NetconnLeft /\ Mail' <= Mail
    /\ \E g \in Fds : Open(slot') \subseteq Open(slot) \cup {g}

\* accept() moves a netconn from a mailbox to a descriptor.
Moves ==
    /\ Mail' <= Mail - 1
    /\ \E g \in Fds : Open(slot') \subseteq Open(slot) \cup {g}

\* The TCP/IP task takes a netconn and puts it into a mailbox.
Arrives == NetconnLeft /\ Open(slot') \subseteq Open(slot) /\ Mail' <= Mail + 1

-----------------------------------------------------------------------------
LEMMA FdsFinite == IsFiniteSet(Fds) /\ Cardinality(Fds) = NumSockets
  <1>1. 0 \in Int /\ NumSockets - 1 \in Int /\ ~(0 > NumSockets - 1)
    BY SocketsAssumption
  <1>2. /\ IsFiniteSet(0 .. NumSockets - 1)
        /\ Cardinality(0 .. NumSockets - 1) = NumSockets - 1 - 0 + 1
    BY <1>1, FS_Interval
  <1>3. NumSockets - 1 - 0 + 1 = NumSockets
    BY SocketsAssumption
  <1> QED
    BY <1>2, <1>3 DEF Fds

LEMMA OpenFinite ==
    ASSUME NEW t
    PROVE  IsFiniteSet(Open(t)) /\ Cardinality(Open(t)) \in Nat
  <1>1. Open(t) \in SUBSET Fds
    BY DEF Open
  <1> QED
    BY <1>1, FdsFinite, FS_Subset, FS_CardinalityType

LEMMA NoMoreOpen ==
    ASSUME NEW t, NEW u, Open(u) \subseteq Open(t)
    PROVE  Cardinality(Open(u)) <= Cardinality(Open(t))
  BY OpenFinite, FS_Subset

LEMMA OneMoreOpen ==
    ASSUME NEW t, NEW u, NEW g, Open(u) \subseteq Open(t) \cup {g}
    PROVE  Cardinality(Open(u)) <= Cardinality(Open(t)) + 1
  <1>1. /\ IsFiniteSet(Open(t) \cup {g})
        /\ Cardinality(Open(t) \cup {g}) <= Cardinality(Open(t)) + 1
    BY OpenFinite, FS_AddElement
  <1>2. Cardinality(Open(u)) <= Cardinality(Open(t) \cup {g})
    BY <1>1, FS_Subset
  <1> QED
    BY <1>1, <1>2, OpenFinite, FS_CardinalityType

LEMMA InUseParts ==
    ASSUME Len(backlog) \in Nat, Len(backlog') \in Nat
    PROVE  /\ InUse = Cardinality(Open(slot)) + Mail /\ Mail \in Nat
           /\ InUse' = Cardinality(Open(slot')) + Mail' /\ Mail' \in Nat
  <1>1. Cardinality(Open(slot)) \in Nat /\ Cardinality(Open(slot')) \in Nat
    BY OpenFinite
  <1>2. Mail \in Nat /\ Mail' \in Nat
    BY DEF Mail
  <1>3. InUse = Cardinality(Open(slot)) + Mail
    BY <1>1 DEF InUse, Open, Mail
  <1>4. InUse' = Cardinality(Open(slot')) + Mail'
    BY <1>1 DEF InUse, Open, Mail
  <1> QED
    BY <1>2, <1>3, <1>4

LEMMA PoolStep ==
    ASSUME PoolInv, Len(backlog) \in Nat, Len(backlog') \in Nat,
           Shrinks \/ Takes \/ Moves \/ Arrives
    PROVE  PoolInv'
  <1> DEFINE a == Cardinality(Open(slot))
             b == Cardinality(Open(slot'))
             m == Mail
             n == Mail'
  <1>1. {a, b, m, n, NumNetconns} \subseteq Nat
    BY OpenFinite, InUseParts, SocketsAssumption
  <1>2. a + m <= NumNetconns
    BY InUseParts DEF PoolInv
  <1>3. NetconnLeft => a + m < NumNetconns
    BY InUseParts DEF NetconnLeft
  <1>4. b + n <= NumNetconns => PoolInv'
    BY InUseParts DEF PoolInv
  <1>5. Shrinks => b <= a /\ n <= m
    BY NoMoreOpen DEF Shrinks
  <1>6. Takes => NetconnLeft /\ b <= a + 1 /\ n <= m
    BY OneMoreOpen DEF Takes
  <1>7. Moves => b <= a + 1 /\ n <= m - 1
    BY OneMoreOpen DEF Moves
  <1>8. Arrives => NetconnLeft /\ b <= a /\ n <= m + 1
    BY NoMoreOpen DEF Arrives
  <1> HIDE DEF a, b, m, n
  <1>9. CASE Shrinks
    BY <1>1, <1>2, <1>4, <1>5, <1>9
  <1>10. CASE Takes
    BY <1>1, <1>3, <1>4, <1>6, <1>10
  <1>11. CASE Moves
    BY <1>1, <1>2, <1>4, <1>7, <1>11
  <1>12. CASE Arrives
    BY <1>1, <1>3, <1>4, <1>8, <1>12
  <1> QED
    BY <1>9, <1>10, <1>11, <1>12

-----------------------------------------------------------------------------
(* Each action                                                             *)

\* close() returns a netconn, or several with a listener's mailbox.
LEMMA CloseShrinks ==
    ASSUME ListInv, NetTypes, NEW t \in [Fds -> Slots], NEW f \in Fds \cup {NoFd}, CloseFd(t, f)
    PROVE  Open(slot') \subseteq Open(t) /\ Mail' <= Mail
  <1>1. Open(slot') \subseteq Open(t)
    BY CloseFdSlots DEF Open
  <1>2. Len(backlog) \in Nat /\ Len(<<>>) = 0
    BY DEF ListInv
  <1>3. backlog' \in {backlog, <<>>} /\ pwait' \in {pwait, "none"}
    BY DEF CloseFd
  <1> QED
    BY <1>1, <1>2, <1>3 DEF Mail

\* A slot that is written over is one more in use at most.
LEMMA OpenOne ==
    ASSUME NEW t \in [Fds -> Slots], NEW g \in Fds, NEW s
    PROVE  Open([t EXCEPT ![g] = s]) \subseteq Open(t) \cup {g}
  BY DEF Open

LEMMA LoopPool ==
    ASSUME ListInv, NetTypes, NothingOpenAtBoot, NothingWaitsAtBoot, Loop
    PROVE  Shrinks \/ Takes \/ Moves
  <1>0. slot \in [Fds -> Slots] /\ sess \in [Conns -> Sessions] /\ Len(backlog) \in Nat
    BY DEF NetTypes, ListInv
  <1>1. CASE Boot
    <2>1. Open(slot) = {} /\ Mail = 0
      BY <1>1, EmptyElements DEF Boot, NothingOpenAtBoot, NothingWaitsAtBoot, Serving, Open, Mail
    <2>2. NetconnLeft
      <3>1. backlog' = backlog
        BY <1>1 DEF Boot
      <3>2. InUse = Cardinality(Open(slot)) + Mail
        BY <1>0, <3>1, InUseParts
      <3>3. InUse = 0
        BY <2>1, <3>2, FS_EmptySet
      <3> QED
        BY <3>3, SocketsAssumption DEF NetconnLeft
    <2>3. Mail' = Mail
      BY <1>1 DEF Boot, Mail
    <2>4. Listener \in Fds /\ Open(slot') \subseteq Open(slot) \cup {Listener}
      BY <1>0, <1>1, OpenOne, Descriptors DEF Boot
    <2> QED
      BY <2>1, <2>2, <2>3, <2>4 DEF Takes
  <1>2. CASE Select \/ AcceptSkip \/ EndWalk \/ WalkSkip
    <2>1. UNCHANGED <<slot, backlog, pwait>>
      BY <1>2 DEF Select, AcceptSkip, EndWalk, WalkSkip, netVars
    <2> QED
      BY <1>0, <2>1 DEF Shrinks, Mail
  <1>3. CASE AcceptConn
    <2>1. backlog' = Tail(backlog) /\ pwait' = pwait /\ Len(Tail(backlog)) = Len(backlog) - 1
      BY <1>3, HeadTailElements DEF AcceptConn, ListInv
    <2>2. PICK f \in Fds :
             slot' = [slot EXCEPT ![f] = Slot("cmd", Head(backlog), early[Head(backlog)])]
      BY <1>3 DEF AcceptConn
    <2>3. Open(slot') \subseteq Open(slot) \cup {f}
      BY <1>0, <2>2, OpenOne
    <2>4. Mail' <= Mail - 1
      <3>1. Len(backlog') = Len(backlog) - 1 /\ pwait' = pwait
        BY <2>1
      <3>2. CASE pwait = "none"
        BY <1>0, <3>1, <3>2 DEF Mail
      <3>3. CASE pwait # "none"
        BY <1>0, <3>1, <3>3 DEF Mail
      <3> QED
        BY <3>2, <3>3
    <2> QED
      BY <2>3, <2>4 DEF Moves
  <1>4. CASE AcceptError
    <2>1. /\ slot' = slot /\ pwait' = pwait
          /\ backlog' = Tail(backlog) /\ Len(Tail(backlog)) = Len(backlog) - 1
      BY <1>4, HeadTailElements DEF AcceptError, ListInv
    <2> QED
      BY <1>0, <2>1 DEF Shrinks, Mail
  <1>5. CASE Disconnect
    <2>1. sess[Current].fd \in Fds \cup {NoFd}
      BY <1>0, <1>5, CurrentType DEF Disconnect, Sessions
    <2> QED
      BY <1>0, <1>5, <2>1, CloseShrinks DEF Disconnect, Shrinks
  <1> QED
    BY <1>1, <1>2, <1>3, <1>4, <1>5 DEF Loop

LEMMA CommandPool ==
    ASSUME ListInv, NetTypes, Command
    PROVE  Shrinks \/ Takes
  <1>0. CommandRead
    BY DEF Command, CmdReplyOnly, CmdSendNothing, CmdSendData, CmdQuit, CmdStor, CmdPort,
           CmdPasvNoSocket, CmdPasvNoBind, CmdPasvListen
  <1>1. /\ AfterRecv \in [Fds -> Slots] /\ Open(AfterRecv) = Open(slot)
        /\ sess[Current].fd \in Fds \cup {NoFd} /\ sess[Current].pasv \in Fds \cup {NoFd}
        /\ Len(backlog) \in Nat
    BY <1>0, CommandReadType DEF Open, ListInv
  <1>2. UNCHANGED <<backlog, pwait>> => Mail' = Mail /\ Mail' <= Mail
    BY <1>1 DEF Mail
  <1>3. CASE CmdReplyOnly \/ CmdStor \/ CmdSendData
    BY <1>1, <1>2, <1>3 DEF CmdReplyOnly, CmdStor, CmdSendData, Shrinks
  <1>4. CASE CmdSendNothing \/ CmdPasvNoSocket
    BY <1>1, <1>4, CloseShrinks DEF CmdSendNothing, CmdPasvNoSocket, CloseData, Shrinks
  <1>5. CASE CmdQuit
    BY <1>1, <1>5, CloseShrinks DEF CmdQuit, Shrinks
  <1>6. CASE CmdPort
    <2>1. UNCHANGED <<backlog, pwait>>
      BY <1>6 DEF CmdPort
    <2>2. CASE slot' = AfterRecv
      BY <1>1, <1>2, <2>1, <2>2 DEF Shrinks
    <2>3. ASSUME NetconnLeft, NEW g \in Fds,
                 slot' = [AfterRecv EXCEPT ![g] = Slot("raw", Nobody, "up")]
          PROVE  Takes
      <3>1. Open(slot') \subseteq Open(slot) \cup {g}
        BY <1>1, <2>3, OpenOne
      <3> QED
        BY <1>2, <2>1, <2>3, <3>1 DEF Takes
    <2> QED
      BY <1>6, <2>2, <2>3 DEF CmdPort
  <1>7. CASE CmdPasvNoBind
    <2> DEFINE t(g) == [AfterRecv EXCEPT ![g] = Slot("raw", Nobody, "up")]
    <2>1. PICK g \in Fds : CloseFd(t(g), sess[Current].pasv)
      BY <1>7 DEF CmdPasvNoBind, CloseData
    <2>2. Slot("raw", Nobody, "up") \in Slots
      BY SlotType DEF Kinds, Peers
    <2>3. t(g) \in [Fds -> Slots] /\ Open(t(g)) \subseteq Open(slot) \cup {g}
      BY <1>1, <2>2, OpenOne
    <2> HIDE DEF t
    <2>4. Open(slot') \subseteq Open(t(g)) /\ Mail' <= Mail
      BY <1>1, <2>1, <2>3, CloseShrinks
    <2>5. NetconnLeft
      BY <1>7 DEF CmdPasvNoBind
    <2> QED
      BY <2>3, <2>4, <2>5 DEF Takes
  <1>8. CASE CmdPasvListen
    <2>1. PICK g \in Fds : slot' = [AfterRecv EXCEPT ![g] = Slot("plisten", Nobody, "up")]
      BY <1>8 DEF CmdPasvListen
    <2>2. NetconnLeft /\ UNCHANGED <<backlog, pwait>>
      BY <1>8 DEF CmdPasvListen
    <2>3. Open(slot') \subseteq Open(slot) \cup {g}
      BY <1>1, <2>1, OpenOne
    <2> QED
      BY <1>2, <2>2, <2>3 DEF Takes
  <1> QED
    BY <1>3, <1>4, <1>5, <1>6, <1>7, <1>8 DEF Command

LEMMA BlockedPool ==
    ASSUME ListInv, NetTypes, PortSocketOpen, Blocked
    PROVE  Shrinks \/ Moves
  <1>0. pc \in {"pasv", "port", "stor", "send"}
    BY DEF Blocked, StorRecv, StorEnd, SendEnd, PortConnected, PortRefused,
           PasvAccept, PasvAcceptError
  <1>1. /\ slot \in [Fds -> Slots] /\ Current \in Conns /\ Len(backlog) \in Nat
        /\ sess[Current].pasv \in Fds \cup {NoFd}
    BY <1>0, CurrentType DEF NetTypes, Sessions, ListInv, WalkIsSound
  <1>2. CASE StorRecv
    <2>1. Open(slot') \subseteq Open(slot) /\ UNCHANGED <<backlog, pwait>>
      BY <1>1, <1>2 DEF StorRecv, Open, Slots
    <2> QED
      BY <1>1, <2>1 DEF Shrinks, Mail
  <1>3. CASE StorEnd \/ SendEnd \/ PortRefused
    BY <1>1, <1>3, CloseShrinks DEF StorEnd, SendEnd, PortRefused, CloseData, Shrinks
  <1>4. CASE PortConnected
    <2>1. /\ slot' = [slot EXCEPT ![sess[Current].pasv] = Slot("adata", Nobody, "up")]
          /\ UNCHANGED <<backlog, pwait>> /\ sess[Current].pasv \in Open(slot)
      BY <1>4 DEF PortConnected, PortSocketOpen, Open
    <2>2. Open(slot') \subseteq Open(slot)
      BY <1>1, <2>1 DEF Open
    <2>3. Mail' = Mail /\ Mail' <= Mail
      BY <1>1, <2>1 DEF Mail
    <2> QED
      BY <2>2, <2>3 DEF Shrinks
  <1>5. CASE PasvAccept
    <2>1. PICK h \in Fds :
             slot' = [slot EXCEPT ![lfd] = FreeSlot, ![h] = Slot("pdata", Nobody, pwait)]
      BY <1>5 DEF PasvAccept
    <2>2. Open(slot') \subseteq Open(slot) \cup {h}
      BY <1>1, <2>1, FreeSlotType DEF Open
    <2>3. pwait # "none" /\ pwait' = "none" /\ backlog' = backlog
      BY <1>5 DEF PasvAccept
    <2>4. Mail' <= Mail - 1
      BY <1>1, <2>3 DEF Mail
    <2> QED
      BY <2>2, <2>4 DEF Moves
  <1>6. CASE PasvAcceptError
    <2>1. slot' = slot /\ pwait' = "none" /\ backlog' = backlog
      BY <1>6 DEF PasvAcceptError
    <2> QED
      BY <1>1, <2>1 DEF Shrinks, Mail
  <1> QED
    BY <1>2, <1>3, <1>4, <1>5, <1>6 DEF Blocked

LEMMA EnvironmentPool ==
    ASSUME ListInv, NetTypes, Environment
    PROVE  Shrinks \/ Arrives
  <1>1. Open(slot') \subseteq Open(slot) /\ Len(backlog) \in Nat
    BY EnvironmentKeepsKinds DEF SameKinds, Open, ListInv
  <1>2. ASSUME UNCHANGED backlog, pwait = "none" <=> pwait' = "none"
        PROVE  Shrinks
    BY <1>1, <1>2 DEF Shrinks, Mail
  <1>3. ASSUME NEW c \in Conns, ConnectQueued(c)
        PROVE  Arrives
    <2>1. NetconnLeft /\ pwait' = pwait /\ backlog' = Append(backlog, c)
      BY <1>3 DEF ConnectQueued
    <2>2. Len(backlog') = Len(backlog) + 1
      BY <2>1, AppendElements DEF ListInv
    <2>3. Mail' <= Mail + 1
      BY <1>1, <2>1, <2>2 DEF Mail
    <2> QED
      BY <1>1, <2>1, <2>3 DEF Arrives
  <1>4. CASE DataConnect
    <2>1. backlog' = backlog /\ (pwait' = "none" \/ NetconnLeft)
      BY <1>4 DEF DataConnect
    <2>2. CASE pwait' = "none"
      BY <1>1, <2>1, <2>2 DEF Shrinks, Mail
    <2>3. CASE NetconnLeft
      BY <1>1, <2>1, <2>3 DEF Arrives, Mail
    <2> QED
      BY <2>1, <2>2, <2>3
  <1>5. CASE DataLeaveEarly
    BY <1>2, <1>5, EndingsAssumption DEF DataLeaveEarly
  <1> QED
    BY <1>2, <1>3, <1>4, <1>5 DEF Environment, ConnectRefused, LeaveEarly, PeerSend, PeerFin,
                                  PeerReset, LingerEnds

-----------------------------------------------------------------------------
(* The boot and the PORT socket                                            *)

LEMMA BootKeepsEmpty ==
    ASSUME NothingOpenAtBoot, NothingWaitsAtBoot, [Next]_vars
    PROVE  NothingWaitsAtBoot'
  <1> SUFFICES ASSUME pc' = "boot" PROVE backlog' = <<>> /\ pwait' = "none"
    BY DEF NothingWaitsAtBoot
  <1>1. ~Loop
    BY DEF Loop, Boot, Select, AcceptSkip, AcceptConn, AcceptError, EndWalk, WalkSkip,
           Disconnect, NextConn
  <1>2. ~Command
    BY DEF Command, CmdReplyOnly, CmdSendNothing, CmdSendData, CmdQuit, CmdStor, CmdPort,
           CmdPasvNoSocket, CmdPasvNoBind, CmdPasvListen, CloseData, NextConn
  <1>3. ~Blocked
    BY DEF Blocked, StorRecv, StorEnd, SendEnd, PortConnected, PortRefused, PasvAccept,
           PasvAcceptError, CloseData, NextConn, serverVars
  <1>4. CASE Environment
    <2>1. pc = "boot"
      BY <1>4 DEF Environment, ConnectQueued, ConnectRefused, LeaveEarly, PeerSend, PeerFin,
                  PeerReset, DataConnect, DataLeaveEarly, LingerEnds, serverVars
    <2>2. ~Listening("listen") /\ ~Listening("plisten") /\ backlog = <<>> /\ pwait = "none"
      BY <2>1 DEF NothingOpenAtBoot, NothingWaitsAtBoot, Serving, Listening
    <2> QED
      BY <1>4, <2>2 DEF Environment, ConnectQueued, ConnectRefused, LeaveEarly, PeerSend, PeerFin,
                        PeerReset, DataConnect, DataLeaveEarly, LingerEnds
  <1>5. CASE UNCHANGED vars
    BY <1>5 DEF vars, serverVars, netVars, NothingWaitsAtBoot
  <1> QED
    BY <1>1, <1>2, <1>3, <1>4, <1>5 DEF Next, Server

LEMMA PortSocketStays ==
    ASSUME ListInv, NetTypes, PortSocketOpen, [Next]_vars
    PROVE  PortSocketOpen'
  <1> DEFINE Raw == sess[Current].pasv \in Fds /\ slot[sess[Current].pasv].kind = "raw"
  <1> SUFFICES ASSUME pc' = "port" PROVE Raw'
    BY DEF PortSocketOpen
  <1>1. CASE CmdPort
    <2>1. CommandRead
      BY <1>1 DEF CmdPort
    <2>2. PICK g \in Fds :
             /\ slot' = [AfterRecv EXCEPT ![g] = Slot("raw", Nobody, "up")]
             /\ sess' = [sess EXCEPT ![Current].pasv = g, ![Current].holds = TRUE]
      BY <1>1 DEF CmdPort, NextConn
    <2>3. todo' = todo
      BY <1>1 DEF CmdPort, NextConn
    <2>4. Slot("raw", Nobody, "up").kind = "raw"
      BY DEF Slot
    <2>5. slot'[g].kind = "raw"
      BY <2>1, <2>2, <2>4, CommandReadType
    <2>6. sess'[Current'].pasv = g
      BY <2>1, <2>2, <2>3, CommandReadType DEF Current, NetTypes, Sessions
    <2> QED
      BY <2>5, <2>6
  <1>2. CASE Environment
    <2>1. UNCHANGED serverVars
      BY <1>2 DEF Environment, ConnectQueued, ConnectRefused, LeaveEarly, PeerSend, PeerFin,
                  PeerReset, DataConnect, DataLeaveEarly, LingerEnds
    <2>2. SameKinds
      BY <1>2, EnvironmentKeepsKinds
    <2>3. UNCHANGED <<pc, sess, todo>>
      BY <2>1 DEF serverVars
    <2> QED
      BY <2>2, <2>3 DEF PortSocketOpen, Current, SameKinds
  <1>3. CASE UNCHANGED vars
    BY <1>3 DEF vars, serverVars, netVars, PortSocketOpen, Current
  <1>4. ~Loop
    BY DEF Loop, Boot, Select, AcceptSkip, AcceptConn, AcceptError, EndWalk, WalkSkip,
           Disconnect, NextConn
  <1>5. Command => CmdPort
    BY DEF Command, CmdReplyOnly, CmdSendNothing, CmdSendData, CmdQuit, CmdStor,
           CmdPasvNoSocket, CmdPasvNoBind, CmdPasvListen, CloseData, NextConn
  <1>6. ~Blocked
    BY DEF Blocked, StorRecv, StorEnd, SendEnd, PortConnected, PortRefused, PasvAccept,
           PasvAcceptError, CloseData, NextConn, serverVars
  <1> QED
    BY <1>1, <1>2, <1>3, <1>4, <1>5, <1>6 DEF Next, Server

-----------------------------------------------------------------------------
(* The mailbox of the PASV listener                                        *)

LEMMA CloseKeepsListener ==
    ASSUME NEW t \in [Fds -> Slots], NEW f \in Fds \cup {NoFd}, CloseFd(t, f),
           \A g \in Fds : slot[g].kind = "plisten" => t[g].kind = "plisten"
    PROVE  KeepsListener
  <1>1. CASE KindIn(t, f) = "plisten"
    BY <1>1 DEF CloseFd, KeepsListener
  <1>2. CASE KindIn(t, f) # "plisten"
    <2>1. pwait' = pwait
      BY <1>2 DEF CloseFd
    <2>2. ASSUME NEW g \in Fds, slot[g].kind = "plisten"
          PROVE  slot'[g].kind = "plisten"
      BY <1>2, <2>2, CloseFdSlots DEF KindIn
    <2> QED
      BY <2>1, <2>2 DEF KeepsListener
  <1> QED
    BY <1>1, <1>2

LEMMA LoopListener ==
    ASSUME ListInv, NetTypes, NothingOpenAtBoot, NothingWaitsAtBoot, Loop
    PROVE  KeepsListener
  <1>0. slot \in [Fds -> Slots] /\ sess \in [Conns -> Sessions]
    BY DEF NetTypes
  <1>1. CASE Boot
    BY <1>1 DEF Boot, NothingWaitsAtBoot, KeepsListener
  <1>2. CASE Select \/ AcceptSkip \/ AcceptError \/ EndWalk \/ WalkSkip
    BY <1>2 DEF Select, AcceptSkip, AcceptError, EndWalk, WalkSkip, netVars, KeepsListener
  <1>3. CASE AcceptConn
    <2>1. PICK f \in Fds, s \in {Slot("cmd", Head(backlog), early[Head(backlog)])} :
             slot[f].kind = "free" /\ slot' = [slot EXCEPT ![f] = s]
      BY <1>3 DEF AcceptConn, IsLowestFree
    <2>2. pwait' = pwait
      BY <1>3 DEF AcceptConn
    <2> QED
      BY <1>0, <2>1, <2>2 DEF KeepsListener
  <1>4. CASE Disconnect
    <2>1. sess[Current].fd \in Fds \cup {NoFd}
      BY <1>0, <1>4, CurrentType DEF Disconnect, Sessions
    <2> QED
      BY <1>0, <1>4, <2>1, CloseKeepsListener DEF Disconnect
  <1> QED
    BY <1>1, <1>2, <1>3, <1>4 DEF Loop

LEMMA CommandListener ==
    ASSUME ListInv, NetTypes, Command
    PROVE  KeepsListener
  <1>0. CommandRead
    BY DEF Command, CmdReplyOnly, CmdSendNothing, CmdSendData, CmdQuit, CmdStor, CmdPort,
           CmdPasvNoSocket, CmdPasvNoBind, CmdPasvListen
  <1>1. /\ AfterRecv \in [Fds -> Slots]
        /\ \A f \in Fds : AfterRecv[f].kind = slot[f].kind
        /\ sess[Current].fd \in Fds \cup {NoFd} /\ sess[Current].pasv \in Fds \cup {NoFd}
    BY <1>0, CommandReadType
  <1>2. ASSUME pwait' = pwait, slot' = AfterRecv
        PROVE  KeepsListener
    BY <1>1, <1>2 DEF KeepsListener
  <1>3. ASSUME NEW g \in Fds, IsLowestFree(g), NEW s
        PROVE  \A f \in Fds : slot[f].kind = "plisten" =>
                  [AfterRecv EXCEPT ![g] = s][f].kind = "plisten"
    BY <1>1, <1>3 DEF IsLowestFree
  <1>4. CASE CmdReplyOnly \/ CmdStor \/ CmdSendData
    BY <1>2, <1>4 DEF CmdReplyOnly, CmdStor, CmdSendData
  <1>5. CASE CmdSendNothing \/ CmdPasvNoSocket \/ CmdQuit
    BY <1>1, <1>5, CloseKeepsListener DEF CmdSendNothing, CmdPasvNoSocket, CloseData, CmdQuit
  <1>6. CASE CmdPort
    <2>1. pwait' = pwait
      BY <1>6 DEF CmdPort
    <2>2. CASE slot' = AfterRecv
      BY <1>2, <2>1, <2>2
    <2>3. ASSUME NEW g \in Fds, IsLowestFree(g),
                 slot' = [AfterRecv EXCEPT ![g] = Slot("raw", Nobody, "up")]
          PROVE  KeepsListener
      BY <1>3, <2>1, <2>3 DEF KeepsListener
    <2> QED
      BY <1>6, <2>2, <2>3 DEF CmdPort
  <1>7. CASE CmdPasvNoBind
    <2> DEFINE t(g) == [AfterRecv EXCEPT ![g] = Slot("raw", Nobody, "up")]
    <2>1. PICK g \in Fds : IsLowestFree(g) /\ CloseFd(t(g), sess[Current].pasv)
      BY <1>7 DEF CmdPasvNoBind, CloseData
    <2>2. t(g) \in [Fds -> Slots]
      BY <1>1, SlotType DEF Kinds, Peers
    <2>3. \A f \in Fds : slot[f].kind = "plisten" => t(g)[f].kind = "plisten"
      BY <1>3, <2>1
    <2> HIDE DEF t
    <2> QED
      BY <1>1, <2>1, <2>2, <2>3, CloseKeepsListener
  <1>8. CASE CmdPasvListen
    <2>1. PICK g \in Fds :
             /\ IsLowestFree(g)
             /\ slot' = [AfterRecv EXCEPT ![g] = Slot("plisten", Nobody, "up")]
      BY <1>8 DEF CmdPasvListen
    <2>2. pwait' = pwait
      BY <1>8 DEF CmdPasvListen
    <2> QED
      BY <1>3, <2>1, <2>2 DEF KeepsListener
  <1> QED
    BY <1>4, <1>5, <1>6, <1>7, <1>8 DEF Command

LEMMA BlockedListener ==
    ASSUME ListInv, NetTypes, PortSocketOpen, Blocked
    PROVE  KeepsListener
  <1>0. pc \in {"pasv", "port", "stor", "send"}
    BY DEF Blocked, StorRecv, StorEnd, SendEnd, PortConnected, PortRefused,
           PasvAccept, PasvAcceptError
  <1>1. slot \in [Fds -> Slots] /\ sess[Current].pasv \in Fds \cup {NoFd}
    BY <1>0, CurrentType DEF NetTypes, Sessions, ListInv, WalkIsSound
  <1>2. CASE StorRecv
    BY <1>1, <1>2 DEF StorRecv, Slots, KeepsListener
  <1>3. CASE StorEnd \/ SendEnd \/ PortRefused
    BY <1>1, <1>3, CloseKeepsListener DEF StorEnd, SendEnd, PortRefused, CloseData
  <1>4. CASE PortConnected
    BY <1>1, <1>4 DEF PortConnected, PortSocketOpen, KeepsListener
  <1>5. CASE PasvAccept \/ PasvAcceptError
    BY <1>5 DEF PasvAccept, PasvAcceptError, KeepsListener
  <1> QED
    BY <1>2, <1>3, <1>4, <1>5 DEF Blocked

LEMMA ListenerStays ==
    ASSUME ListInv, NetTypes, NothingOpenAtBoot, NothingWaitsAtBoot, PortSocketOpen,
           MailHasListener, [Next]_vars
    PROVE  MailHasListener'
  <1>1. ASSUME KeepsListener
        PROVE  MailHasListener'
    BY <1>1 DEF KeepsListener, MailHasListener, Listening
  <1>2. CASE Server
    BY <1>1, <1>2, LoopListener, CommandListener, BlockedListener DEF Server
  <1>3. CASE Environment
    <2>1. SameKinds
      BY <1>3, EnvironmentKeepsKinds
    <2>2. Listening("plisten") => Listening("plisten")'
      BY <2>1 DEF SameKinds, Listening
    <2>3. pwait' # "none" => pwait # "none" \/ Listening("plisten")
      BY <1>3 DEF Environment, ConnectQueued, ConnectRefused, LeaveEarly, PeerSend, PeerFin,
                  PeerReset, DataConnect, DataLeaveEarly, LingerEnds
    <2> QED
      BY <2>2, <2>3 DEF MailHasListener
  <1>4. CASE UNCHANGED vars
    BY <1>4 DEF vars, netVars, MailHasListener, Listening
  <1> QED
    BY <1>2, <1>3, <1>4 DEF Next

-----------------------------------------------------------------------------
(* The theorems                                                            *)

PoolIInv == PoolInv /\ NothingWaitsAtBoot /\ PortSocketOpen /\ MailHasListener

LEMMA PoolInvariance == Spec => [](IInv /\ ControlInv /\ PoolIInv)
  <1>1. Init => PoolIInv
    <2> SUFFICES ASSUME Init PROVE PoolIInv
      OBVIOUS
    <2>1. {f \in Fds : slot[f].kind # "free"} = {}
      BY DEF Init, FreeSlot, Slot
    <2>2. backlog = <<>> /\ pwait = "none" /\ Len(<<>>) = 0
      BY DEF Init
    <2>3. Cardinality({f \in Fds : slot[f].kind # "free"}) = 0
      BY <2>1, FS_EmptySet
    <2>4. InUse = 0
      BY <2>2, <2>3 DEF InUse
    <2> QED
      BY <2>4, SocketsAssumption
      DEF Init, PoolIInv, PoolInv, NothingWaitsAtBoot, PortSocketOpen, MailHasListener
  <1>2. IInv /\ IInv' /\ ControlInv /\ PoolIInv /\ [Next]_vars => PoolIInv'
    <2> SUFFICES ASSUME ListInv, NetTypes, OwnershipInv, ListInv', NothingOpenAtBoot,
                        PoolInv, NothingWaitsAtBoot, PortSocketOpen, MailHasListener,
                        [Next]_vars
                 PROVE  PoolIInv'
      BY DEF IInv, ControlInv, PoolIInv
    <2>1. NothingWaitsAtBoot' /\ PortSocketOpen' /\ MailHasListener'
      BY BootKeepsEmpty, PortSocketStays, ListenerStays
    <2>2. CASE Next
      <3>1. Len(backlog) \in Nat /\ Len(backlog') \in Nat
        BY DEF ListInv
      <3>2. Shrinks \/ Takes \/ Moves \/ Arrives
        BY <2>2, LoopPool, CommandPool, BlockedPool, EnvironmentPool DEF Next, Server
      <3> QED
        BY <2>1, <3>1, <3>2, PoolStep DEF PoolIInv
    <2>3. CASE UNCHANGED vars
      BY <2>1, <2>3 DEF vars, serverVars, netVars, PoolIInv, PoolInv, InUse
    <2> QED
      BY <2>2, <2>3
  <1> QED
    BY <1>1, <1>2, ControlInvariance, PTL DEF Spec

\* Descriptors and mailboxes together never hold more netconns than the pool
\* has, whatever pasv_sockfd is closed or overwritten.
THEOREM PoolNeverOverdrawn == Spec => []PoolInv
  <1>1. PoolIInv => PoolInv
    BY DEF PoolIInv
  <1> QED
    BY <1>1, PoolInvariance, PTL

\* accept() never fails for want of a descriptor: what waits in a mailbox has
\* a netconn that no descriptor has.
THEOREM AcceptSucceeds == Spec => []AcceptFindsDescriptor
  <1>1. IInv /\ PoolInv => AcceptFindsDescriptor
    <2> SUFFICES ASSUME ListInv, PoolInv, backlog # <<>> \/ pwait # "none"
                 PROVE  FdLeft
      BY DEF IInv, AcceptFindsDescriptor
    <2> DEFINE n == Cardinality(Open(slot))
    <2>1. Len(backlog) \in Nat /\ (backlog # <<>> => Len(backlog) > 0)
      BY DEF ListInv
    <2>2. n \in Nat
      BY OpenFinite
    <2>3. n < NumNetconns
      BY <2>1, <2>2, SocketsAssumption DEF PoolInv, InUse, Open
    <2>4. n # NumSockets
      BY <2>2, <2>3, SocketsAssumption, PoolAssumption
    <2>5. Open(slot) # Fds
      BY <2>4, FdsFinite
    <2> QED
      BY <2>5 DEF Open, FdLeft
  <1> QED
    BY <1>1, Invariance, PoolNeverOverdrawn, PTL

\* The listener, the sessions, the PASV listener and the connection that
\* waits for it are that many different netconns: the sessions have sockets of
\* their own as long as none is misused.
THEOREM RoomForData == Spec => []PasvNeedsRoom
  <1>1. IInv /\ ControlInv /\ PoolIInv => PasvNeedsRoom
    <2> SUFFICES ASSUME ListInv, NetTypes, Listed, clean => Owned, NothingOpenAtBoot,
                        PoolInv, MailHasListener, clean, pwait # "none"
                 PROVE  Len(connList) + 3 <= NumNetconns
      BY OwnershipParts DEF IInv, ControlInv, PoolIInv, PasvNeedsRoom
    <2>1. PICK p \in Fds : slot[p].kind = "plisten"
      BY DEF MailHasListener, Listening
    <2>2. Serving
      BY <2>1 DEF NothingOpenAtBoot
    <2>3. PICK n \in Nat : n = Len(connList) /\ DOMAIN connList = 1 .. n
      BY DEF ListInv
    <2>4. Listener \in Fds /\ slot[Listener].kind = "listen"
      BY <2>2, Descriptors DEF Owned
    <2> DEFINE sockfd(i) == sess[connList[i]].fd
    <2>5. ASSUME NEW i \in 1 .. n
          PROVE  /\ sockfd(i) \in Fds /\ slot[sockfd(i)].kind = "cmd"
                 /\ slot[sockfd(i)].owner = connList[i]
      <3>1. connList[i] \in ToSet(connList)
        BY <2>3 DEF ToSet
      <3> QED
        BY <3>1 DEF Listed, Owned
    <2>6. \A i, j \in 1 .. n : sockfd(i) = sockfd(j) => i = j
      <3>1. \A i, j \in 1 .. n : connList[i] = connList[j] => i = j
        BY <2>3 DEF ListInv, WalkIsSound, IsInjective
      <3> HIDE DEF sockfd
      <3> QED
        BY <2>5, <3>1
    <2> HIDE DEF sockfd
    <2> DEFINE D == 0 .. n + 1
               h == [i \in D |-> IF i = 0 THEN Listener
                                 ELSE IF i = n + 1 THEN p ELSE sockfd(i)]
    <2>7. h \in Injection(D, Open(slot))
      <3>1. h[0] = Listener /\ h[n + 1] = p /\ 0 # n + 1
        OBVIOUS
      <3>2. \A i \in D : i = 0 \/ i = n + 1 \/ (i \in 1 .. n /\ h[i] = sockfd(i))
        OBVIOUS
      <3>3. h = [i \in D |-> h[i]] /\ DOMAIN h = D
        OBVIOUS
      <3> HIDE DEF h, D
      <3>4. \A i \in D : h[i] \in Open(slot)
        BY <2>1, <2>4, <2>5, <3>1, <3>2 DEF Open
      <3>5. \A i, j \in D : h[i] = h[j] => i = j
        BY <2>1, <2>4, <2>5, <2>6, <3>1, <3>2
      <3> QED
        BY <3>3, <3>4, <3>5 DEF Injection, IsInjective
    <2>8. n + 2 <= Cardinality(Open(slot))
      <3>1. Cardinality(D) <= Cardinality(Open(slot))
        BY <2>7, OpenFinite, FS_Injection
      <3>2. Cardinality(D) = n + 2
        <4>1. 0 \in Int /\ n + 1 \in Int /\ ~(0 > n + 1) /\ n + 1 - 0 + 1 = n + 2
          OBVIOUS
        <4> QED
          BY <4>1, FS_Interval
      <3> QED
        BY <3>1, <3>2
    <2>9. Cardinality(Open(slot)) + Len(backlog) + 1 <= NumNetconns
      BY DEF PoolInv, InUse, Open
    <2>10. Len(backlog) \in Nat /\ Cardinality(Open(slot)) \in Nat
      BY OpenFinite DEF ListInv
    <2> QED
      BY <2>3, <2>8, <2>9, <2>10, SocketsAssumption
  <1> QED
    BY <1>1, PoolInvariance, PTL
=============================================================================
