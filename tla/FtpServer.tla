----------------------------- MODULE FtpServer -----------------------------
(***************************************************************************)
(* The control loop of the FTP server (ftp/ftpd.c) over the lwIP socket    *)
(* layer it runs on: the session list, the descriptor table and its        *)
(* netconn pool, the two descriptor sets given to select(), and every      *)
(* command's effect on descriptors.                                        *)
(*                                                                         *)
(* The server is ONE task.  It takes one step at a time, but the TCP/IP    *)
(* task delivers connections, data, FINs and resets between any two of     *)
(* them, and the handlers of PASV, PORT, STOR and of what sends data       *)
(* block in the middle.                                                    *)
(*                                                                         *)
(* What a command says, and its effect on files, offset and current        *)
(* directory, is the matter of FtpFiles; here a command is what it does    *)
(* to descriptors.                                                         *)
(***************************************************************************)
EXTENDS Integers, Sequences, SequencesExt, FiniteSets

CONSTANTS
    Conns,         \* control connections that clients may have at one time
    Nobody,        \* not a member of Conns
    NumSockets,    \* NUM_SOCKETS: descriptors of the socket layer
    NumNetconns,   \* MEMP_NUM_NETCONN: netconns in the memory pool
    MaxConnection, \* FTP_MAX_CONNECTION: backlog given to listen()
    Unset,         \* what the pasv_sockfd field of fresh memory may hold
    Endings,       \* how a client may end a connection: "fin", "rst"
    FollowUnclean  \* bound: rounds after a misused descriptor are explored

Fds == 0 .. NumSockets - 1
NoFd == -1
Listener == 0      \* the first descriptor socket() hands out

ASSUME SocketsAssumption ==
    /\ NumSockets \in Nat \ {0}
    /\ NumNetconns \in Nat \ {0}
    /\ MaxConnection \in Nat \ {0}
\* No more netconns than descriptors: lwIP gives both the same number.
ASSUME PoolAssumption == NumNetconns <= NumSockets
ASSUME ConnsAssumption == IsFiniteSet(Conns) /\ Nobody \notin Conns
\* An uninitialised field may hold any descriptor number, or none.
ASSUME UnsetAssumption == Unset \subseteq Fds \cup {NoFd} /\ NoFd \in Unset
ASSUME EndingsAssumption == Endings \subseteq {"fin", "rst"}
ASSUME FollowAssumption == FollowUnclean \in BOOLEAN

(* What a descriptor refers to.  A "raw" socket is neither listening nor   *)
(* connected; "pdata" was accepted on the PASV port, "adata" connected by  *)
(* PORT.                                                                   *)
Kinds == {"free", "listen", "plisten", "raw", "cmd", "pdata", "adata"}
Streams == {"cmd", "pdata", "adata"}
Peers == {"up", "fin", "rst"}     \* the state of the other end

Slots == [kind: Kinds, owner: Conns \cup {Nobody}, unread: BOOLEAN, peer: Peers]
Sessions == [fd: Fds \cup {NoFd}, pasv: Fds \cup {NoFd}, holds: BOOLEAN]

Slot(kind, owner, peer) ==
    [kind |-> kind, owner |-> owner, unread |-> FALSE, peer |-> peer]
FreeSlot == Slot("free", Nobody, "up")
NoSession == [fd |-> NoFd, pasv |-> NoFd, holds |-> FALSE]

VARIABLES
    pc,        \* where the task is: see PCs
    todo,      \* rest of the list walk: conn and everything after it
    connList,  \* conn_list, most recent session first
    sess,      \* struct conn of each session; holds is a ghost: pasv is a
               \* data socket this session obtained and has not yet closed
    readfds, tmpfds,
    slot,      \* sockets[]: what each descriptor refers to
    lfd,       \* the PASV handler's local sockfd
    backlog,   \* accept mailbox of the control listener
    pending,   \* its accepts_pending counter
    early,     \* state of the other end of a connection in the mailbox
    pwait,     \* accept mailbox of the PASV listener: "none" or a peer state
    ppending,  \* its accepts_pending counter
    linger,    \* a closed PASV data connection still occupies the port
    clean      \* ghost: no session has touched a descriptor it did not own

serverVars == <<pc, todo, connList, sess, readfds, tmpfds, lfd, clean>>
netVars == <<slot, backlog, pending, early, pwait, ppending, linger>>
vars == <<serverVars, netVars>>

PCs == {"boot", "select", "accept", "walk", "pasv", "port", "stor", "send", "returned"}

TypeOK ==
    /\ pc \in PCs
    /\ todo \in Seq(Conns) /\ connList \in Seq(Conns)
    /\ sess \in [Conns -> Sessions]
    /\ readfds \subseteq Fds /\ tmpfds \subseteq Fds
    /\ slot \in [Fds -> Slots]
    /\ lfd \in Fds \cup {NoFd}
    /\ backlog \in Seq(Conns)
    /\ pending \in 0 .. MaxConnection
    /\ early \in [Conns -> Peers]
    /\ pwait \in Peers \cup {"none"}
    /\ ppending \in 0 .. 1
    /\ linger \in BOOLEAN /\ clean \in BOOLEAN

-----------------------------------------------------------------------------
(* The socket layer                                                        *)

\* alloc_socket takes the first free entry of the table.
IsLowestFree(f) ==
    /\ slot[f].kind = "free"
    /\ \A g \in Fds : slot[g].kind = "free" => f <= g

\* Netconns taken from the pool: open descriptors and unaccepted connections.
InUse ==
    Cardinality({f \in Fds : slot[f].kind # "free"})
        + Len(backlog) + (IF pwait = "none" THEN 0 ELSE 1)

NetconnLeft == InUse < NumNetconns
FdLeft == \E f \in Fds : slot[f].kind = "free"

\* recv() would return at once: data, or the end of the stream.
HasInput(s) == s.kind \in Streams /\ (s.unread \/ s.peer # "up")
\* recv() would return data rather than 0 or -1.
HasData(s) == s.kind \in Streams /\ s.unread /\ s.peer # "rst"

\* lwip_selscan counts f as readable.
Readable(f) ==
    CASE slot[f].kind = "listen"  -> backlog # <<>>
      [] slot[f].kind = "plisten" -> pwait # "none"
      [] OTHER                    -> HasInput(slot[f])

\* close(f) applied to the table t.  A PASV data connection that the other
\* end has not reset keeps the port until both sides have finished.
Closed(t, f) == IF f \in Fds THEN [t EXCEPT ![f] = FreeSlot] ELSE t
KindIn(t, f) == IF f \in Fds THEN t[f].kind ELSE "free"

CloseFd(t, f) ==
    /\ slot' = Closed(t, f)
    /\ backlog' = IF KindIn(t, f) = "listen" THEN <<>> ELSE backlog
    /\ pwait' = IF KindIn(t, f) = "plisten" THEN "none" ELSE pwait
    /\ linger' = \/ linger
                 \/ KindIn(t, f) = "pdata" /\ t[f].peer # "rst"
                 \/ KindIn(t, f) = "plisten" /\ pwait \in {"up", "fin"}
    /\ UNCHANGED <<pending, early, ppending>>

\* tcp_bind to the PASV port returns ERR_USE.  A reset connection is off
\* tcp_active_pcbs at once.
PasvPortBusy ==
    \/ linger
    \/ \E f \in Fds : \/ slot[f].kind = "plisten"
                      \/ slot[f].kind = "pdata" /\ slot[f].peer # "rst"

-----------------------------------------------------------------------------
(* The session list                                                        *)

Init ==
    /\ pc = "boot" /\ todo = <<>> /\ connList = <<>>
    /\ sess = [c \in Conns |-> NoSession]
    /\ readfds = {} /\ tmpfds = {}
    /\ slot = [f \in Fds |-> FreeSlot]
    /\ lfd = NoFd
    /\ backlog = <<>> /\ pending = 0
    /\ early = [c \in Conns |-> "up"]
    /\ pwait = "none" /\ ppending = 0
    /\ linger = FALSE /\ clean = TRUE

\* Mutant: the search runs one element too far and unlinks the next session.
DestroyConnNext(c) ==
    /\ \E i \in 1 .. Len(connList) :
          /\ connList[i] = c
          /\ connList' = RemoveAt(connList, IF i < Len(connList) THEN i + 1 ELSE i)
    /\ sess' = [sess EXCEPT ![c] = NoSession]

\* destroy_conn: unlink c and free it.
DestroyConn(c) ==
    /\ \E i \in 1 .. Len(connList) :
          connList[i] = c /\ connList' = RemoveAt(connList, i)
    /\ sess' = [sess EXCEPT ![c] = NoSession]

Current == Head(todo)

\* Control goes to the next session of the walk.
NextConn == todo' = Tail(todo) /\ pc' = "walk" /\ lfd' = NoFd

\* f_mount fails and the task function returns, or the listener is set up.
\* bind() and listen() cannot fail this early: no other socket exists.
Boot ==
    /\ pc = "boot"
    /\ \/ pc' = "returned" /\ UNCHANGED <<slot, readfds>>
       \/ /\ pc' = "select"
          /\ slot' = [slot EXCEPT ![Listener] = Slot("listen", Nobody, "up")]
          /\ readfds' = {Listener}
    /\ UNCHANGED <<todo, connList, sess, tmpfds, lfd, clean,
                   backlog, pending, early, pwait, ppending, linger>>

\* Mutant: the walk tests readfds itself, not the copy select() filled in.
SelectUnfiltered ==
    /\ pc = "select"
    /\ slot[Listener].kind = "listen" /\ (clean \/ FollowUnclean)
    /\ readfds' = readfds \cup {sess[c].fd : c \in ToSet(connList)}
    /\ \E f \in readfds' : Readable(f)
    /\ tmpfds' = readfds'
    /\ pc' = "accept"
    /\ UNCHANGED <<todo, connList, sess, lfd, clean, netVars>>

\* Mutant: maxfdp1 is computed from the listener alone.
SelectListenerOnly ==
    /\ pc = "select"
    /\ slot[Listener].kind = "listen" /\ (clean \/ FollowUnclean)
    /\ readfds' = readfds \cup {sess[c].fd : c \in ToSet(connList)}
    /\ Readable(Listener) /\ tmpfds' = {Listener}
    /\ pc' = "accept"
    /\ UNCHANGED <<todo, connList, sess, lfd, clean, netVars>>

\* The top of the loop: every session's descriptor is added to readfds, none
\* is ever taken out here, and select() leaves the ready ones in tmpfds.  The
\* model does not follow a server that has closed its own listener.
Select ==
    /\ pc = "select"
    /\ slot[Listener].kind = "listen" /\ (clean \/ FollowUnclean)
    /\ LET own == {Listener} \cup {sess[c].fd : c \in ToSet(connList)}
       IN  /\ readfds' = readfds \cup own
           /\ tmpfds' = {f \in readfds' : Readable(f) /\ \E g \in own : f <= g}
    /\ tmpfds' # {}
    /\ pc' = "accept"
    /\ UNCHANGED <<todo, connList, sess, lfd, clean, netVars>>

AcceptSkip ==
    /\ pc = "accept" /\ Listener \notin tmpfds
    /\ pc' = "walk" /\ todo' = connList
    /\ UNCHANGED <<connList, sess, readfds, tmpfds, lfd, clean, netVars>>

\* accept() gives a descriptor, the greeting is sent and the new session
\* goes to the head of the list, its pasv_sockfd never written.
AcceptConn ==
    /\ pc = "accept" /\ Listener \in tmpfds
    /\ backlog # <<>>
    /\ LET c == Head(backlog)
       IN  /\ early[c] # "rst"
           /\ \E f \in Fds, junk \in Unset :
                 /\ IsLowestFree(f)
                 /\ slot' = [slot EXCEPT ![f] = Slot("cmd", c, early[c])]
                 /\ readfds' = readfds \cup {f}
                 /\ sess' = [sess EXCEPT
                                ![c] = [fd |-> f, pasv |-> junk, holds |-> FALSE]]
           /\ early' = [early EXCEPT ![c] = "up"]
           /\ connList' = <<c>> \o connList
    /\ backlog' = Tail(backlog) /\ pending' = pending - 1
    /\ pc' = "walk" /\ todo' = connList'
    /\ UNCHANGED <<tmpfds, lfd, clean, pwait, ppending, linger>>

\* accept() returns -1: the connection is already reset, or no descriptor is
\* left.  `continue' goes back to the top: nobody is served in this round.
AcceptError ==
    /\ pc = "accept" /\ Listener \in tmpfds
    /\ backlog # <<>>
    /\ early[Head(backlog)] = "rst" \/ ~FdLeft
    /\ early' = [early EXCEPT ![Head(backlog)] = "up"]
    /\ backlog' = Tail(backlog) /\ pending' = pending - 1
    /\ pc' = "select" /\ tmpfds' = {}
    /\ UNCHANGED <<todo, connList, sess, readfds, lfd, clean,
                   slot, pwait, ppending, linger>>

\* tmpfds is dead from here to the next select(): the model forgets it.
EndWalk ==
    /\ pc = "walk" /\ todo = <<>>
    /\ pc' = "select" /\ tmpfds' = {}
    /\ UNCHANGED <<todo, connList, sess, readfds, lfd, clean, netVars>>

WalkSkip ==
    /\ pc = "walk" /\ todo # <<>>
    /\ sess[Current].fd \notin tmpfds
    /\ NextConn
    /\ UNCHANGED <<connList, sess, readfds, tmpfds, clean, netVars>>

\* recv() returns 0 or -1: anything but unread data on a live stream.
Disconnect ==
    /\ pc = "walk" /\ todo # <<>>
    /\ LET f == sess[Current].fd
       IN  /\ f \in tmpfds
           /\ ~HasData(slot[f])
           /\ slot[f].kind \in Streams => slot[f].peer # "up"
           /\ readfds' = readfds \ {f}
           /\ CloseFd(slot, f)
    /\ DestroyConn(Current)
    /\ NextConn
    /\ UNCHANGED <<tmpfds, clean>>

-----------------------------------------------------------------------------
(* The commands.  One recv() takes one command off the control connection. *)

CommandRead ==
    /\ pc = "walk" /\ todo # <<>>
    /\ sess[Current].fd \in tmpfds
    /\ HasData(slot[sess[Current].fd])

AfterRecv == [slot EXCEPT ![sess[Current].fd].unread = FALSE]

\* Using pasv_sockfd is proper when the session obtained it, or when it
\* refers to nothing, or to own, the socket this very handler made.
Proper(t, own) ==
    \/ sess[Current].holds
    \/ KindIn(t, sess[Current].pasv) = "free"
    \/ sess[Current].pasv = own

\* close(conn->pasv_sockfd): the number stays in the session.
CloseData(t, own) ==
    /\ CloseFd(t, sess[Current].pasv)
    /\ sess' = [sess EXCEPT ![Current].holds = FALSE]
    /\ clean' = (clean /\ Proper(t, own))
    /\ NextConn

\* Every command whose handler touches no descriptor but the control one:
\* USER PASS TYPE SIZE MDTM SYST PWD CWD CDUP REST MKD DELE RMD FEAT, the
\* unknown, and RETR or STOR of a file that cannot be opened.
CmdReplyOnly ==
    /\ CommandRead
    /\ slot' = AfterRecv
    /\ NextConn
    /\ UNCHANGED <<connList, sess, readfds, tmpfds, clean,
                   backlog, pending, early, pwait, ppending, linger>>

\* The data socket of the session whose turn it is.
DataFd == sess[Current].pasv

\* LIST, NLST, RETR with nothing to send, or on a pasv_sockfd that is no
\* connection, so that every send() returns -1 at once and none is looked at:
\* pasv_sockfd is closed.
CmdSendNothing ==
    /\ CommandRead
    /\ CloseData(AfterRecv, NoFd)
    /\ UNCHANGED <<connList, readfds, tmpfds>>

\* LIST, NLST, RETR: the data goes to pasv_sockfd, and send() keeps the task
\* in do_writemore until the other end has taken what the send buffer cannot.
CmdSendData ==
    /\ CommandRead
    /\ KindIn(slot, DataFd) \in Streams
    /\ slot' = AfterRecv
    /\ pc' = "send" /\ lfd' = lfd
    /\ clean' = (clean /\ Proper(slot, NoFd))
    /\ UNCHANGED <<todo, connList, sess, readfds, tmpfds,
                   backlog, pending, early, pwait, ppending, linger>>

\* The task waits for a client to read.  It may wait for ever: the persist
\* timer asks a silent window without end (see TcpSend), and with no
\* SO_SNDTIMEO nothing else ends do_writemore.
WaitsForReader == pc = "send" /\ slot[DataFd].peer # "rst"

\* The last send() has returned, the data taken or the connection reset:
\* pasv_sockfd is closed.
SendEnd ==
    /\ pc = "send"
    /\ CloseData(slot, NoFd)
    /\ UNCHANGED <<connList, readfds, tmpfds>>

\* Mutant: the connection is closed but its session stays in the list.
CmdQuitNoDestroy ==
    /\ CommandRead
    /\ CloseFd(AfterRecv, sess[Current].fd)
    /\ NextConn
    /\ UNCHANGED <<connList, sess, readfds, tmpfds, clean>>

\* QUIT, or no memory for the work buffer: -1 to the loop, which closes and
\* destroys but leaves the bit in readfds.
CmdQuit ==
    /\ CommandRead
    /\ CloseFd(AfterRecv, sess[Current].fd)
    /\ DestroyConn(Current)
    /\ NextConn
    /\ UNCHANGED <<readfds, tmpfds, clean>>

\* STOR opens its file and enters the select() loop on pasv_sockfd.
CmdStor ==
    /\ CommandRead
    /\ slot' = AfterRecv
    /\ pc' = "stor" /\ lfd' = lfd
    /\ clean' = (clean /\ Proper(slot, NoFd))
    /\ UNCHANGED <<todo, connList, sess, readfds, tmpfds,
                   backlog, pending, early, pwait, ppending, linger>>

StorRecv ==
    /\ pc = "stor"
    /\ DataFd \in Fds /\ HasData(slot[DataFd])
    /\ slot' = [slot EXCEPT ![DataFd].unread = FALSE]
    /\ UNCHANGED <<serverVars, backlog, pending, early, pwait, ppending, linger>>

StorAtEnd == DataFd \in Fds /\ Readable(DataFd) /\ ~HasData(slot[DataFd])

\* Mutant: the control connection is closed in place of the data connection.
StorEndWrongFd ==
    /\ pc = "stor"
    /\ StorAtEnd
    /\ CloseFd(slot, sess[Current].fd)
    /\ NextConn
    /\ UNCHANGED <<connList, sess, readfds, tmpfds, clean>>

\* select() reports pasv_sockfd and recv() returns 0: 226.  The 3 s given to
\* select() never expire (see LwipTimeouts), and recv() cannot return -1, since
\* select() only reports open descriptors.
StorEnd ==
    /\ pc = "stor"
    /\ StorAtEnd
    /\ CloseData(slot, NoFd)
    /\ UNCHANGED <<connList, readfds, tmpfds>>

\* PORT: socket() fails, or the number of the new socket overwrites
\* pasv_sockfd and connect() starts.
CmdPort ==
    /\ CommandRead
    /\ \/ /\ ~NetconnLeft \/ ~FdLeft
          /\ slot' = AfterRecv
          /\ sess' = [sess EXCEPT ![Current].pasv = NoFd, ![Current].holds = FALSE]
          /\ NextConn
       \/ /\ NetconnLeft
          /\ \E g \in Fds :
                /\ IsLowestFree(g)
                /\ slot' = [AfterRecv EXCEPT ![g] = Slot("raw", Nobody, "up")]
                /\ sess' = [sess EXCEPT ![Current].pasv = g, ![Current].holds = TRUE]
          /\ pc' = "port" /\ UNCHANGED <<todo, lfd>>
    /\ UNCHANGED <<connList, readfds, tmpfds, clean,
                   backlog, pending, early, pwait, ppending, linger>>

PortConnected ==
    /\ pc = "port"
    /\ slot' = [slot EXCEPT ![sess[Current].pasv] = Slot("adata", Nobody, "up")]
    /\ NextConn
    /\ UNCHANGED <<connList, sess, readfds, tmpfds, clean,
                   backlog, pending, early, pwait, ppending, linger>>

\* Both attempts to connect fail: 425 and close.
PortRefused ==
    /\ pc = "port"
    /\ CloseData(slot, NoFd)
    /\ UNCHANGED <<connList, readfds, tmpfds>>

\* PASV.  Whatever fails, the tail closes conn->pasv_sockfd, the descriptor
\* of an EARLIER data connection, never the listener made here.
CmdPasvNoSocket ==
    /\ CommandRead
    /\ ~NetconnLeft \/ ~FdLeft
    /\ CloseData(AfterRecv, NoFd)
    /\ UNCHANGED <<connList, readfds, tmpfds>>

\* bind() and then listen() fail: two 425 and a socket nobody will close.
CmdPasvNoBind ==
    /\ CommandRead
    /\ NetconnLeft /\ PasvPortBusy
    /\ \E g \in Fds :
          /\ IsLowestFree(g)
          /\ CloseData([AfterRecv EXCEPT ![g] = Slot("raw", Nobody, "up")], g)
    /\ UNCHANGED <<connList, readfds, tmpfds>>

CmdPasvListen ==
    /\ CommandRead
    /\ NetconnLeft /\ ~PasvPortBusy
    /\ \E g \in Fds :
          /\ IsLowestFree(g)
          /\ lfd' = g
          /\ slot' = [AfterRecv EXCEPT ![g] = Slot("plisten", Nobody, "up")]
    /\ ppending' = 0
    /\ pc' = "pasv"
    /\ UNCHANGED <<todo, connList, sess, readfds, tmpfds, clean,
                   backlog, pending, early, pwait, linger>>

PasvAccept ==
    /\ pc = "pasv" /\ pwait \in {"up", "fin"}
    /\ \E h \in Fds :
          /\ IsLowestFree(h)
          /\ slot' = [slot EXCEPT ![lfd] = FreeSlot, ![h] = Slot("pdata", Nobody, pwait)]
          /\ sess' = [sess EXCEPT ![Current].pasv = h, ![Current].holds = TRUE]
    /\ pwait' = "none" /\ ppending' = 0
    /\ NextConn
    /\ UNCHANGED <<connList, readfds, tmpfds, clean,
                   backlog, pending, early, linger>>

\* accept() returns -1 into pasv_sockfd: the close of the tail has no effect.
PasvAcceptError ==
    /\ pc = "pasv"
    /\ pwait # "none"
    /\ pwait = "rst" \/ ~FdLeft
    /\ sess' = [sess EXCEPT ![Current].pasv = NoFd, ![Current].holds = FALSE]
    /\ pwait' = "none" /\ ppending' = 0
    /\ NextConn
    /\ UNCHANGED <<connList, readfds, tmpfds, clean,
                   slot, backlog, pending, early, linger>>

-----------------------------------------------------------------------------
(* The clients and the TCP/IP task.  A client speaks after the greeting.   *)

Listening(kind) == \E f \in Fds : slot[f].kind = kind

Unconnected(c) == c \notin ToSet(connList) /\ c \notin ToSet(backlog)

\* Mutant: the backlog limit is not looked at.
ConnectQueuedUnlimited(c) ==
    /\ Listening("listen") /\ Unconnected(c) /\ NetconnLeft
    /\ backlog' = Append(backlog, c) /\ pending' = pending + 1
    /\ UNCHANGED <<serverVars, slot, early, pwait, ppending, linger>>

\* Mutant: a queued connection is not counted in accepts_pending.
ConnectQueuedUncounted(c) ==
    /\ Listening("listen") /\ Unconnected(c)
    /\ pending < MaxConnection /\ NetconnLeft
    /\ backlog' = Append(backlog, c)
    /\ UNCHANGED <<serverVars, slot, pending, early, pwait, ppending, linger>>

ConnectQueued(c) ==
    /\ Listening("listen") /\ Unconnected(c)
    /\ pending < MaxConnection /\ NetconnLeft
    /\ backlog' = Append(backlog, c) /\ pending' = pending + 1
    /\ UNCHANGED <<serverVars, slot, early, pwait, ppending, linger>>

\* No netconn: the handshake is aborted in ESTABLISHED, a state in which
\* tcp_pcb_purge does not take the connection off accepts_pending again.
ConnectRefused(c) ==
    /\ Listening("listen") /\ Unconnected(c)
    /\ pending < MaxConnection /\ ~NetconnLeft
    /\ pending' = pending + 1
    /\ UNCHANGED <<serverVars, slot, backlog, early, pwait, ppending, linger>>

LeaveEarly(c) ==
    /\ c \in ToSet(backlog) /\ early[c] = "up"
    /\ \E p \in Endings : early' = [early EXCEPT ![c] = p]
    /\ UNCHANGED <<serverVars, slot, backlog, pending, pwait, ppending, linger>>

\* Mutant: the pool is not asked for a netconn.
DataConnectNoNetconn ==
    /\ Listening("plisten") /\ ppending = 0
    /\ ppending' = 1 /\ pwait' = "up"
    /\ UNCHANGED <<serverVars, slot, backlog, pending, early, linger>>

DataConnect ==
    /\ Listening("plisten") /\ ppending = 0
    /\ ppending' = 1
    /\ pwait' = IF NetconnLeft THEN "up" ELSE "none"
    /\ UNCHANGED <<serverVars, slot, backlog, pending, early, linger>>

DataLeaveEarly ==
    /\ pwait = "up" /\ pwait' \in Endings
    /\ UNCHANGED <<serverVars, slot, backlog, pending, early, ppending, linger>>

PeerSend(f) ==
    /\ slot[f].kind \in Streams /\ slot[f].peer = "up" /\ ~slot[f].unread
    /\ slot' = [slot EXCEPT ![f].unread = TRUE]
    /\ UNCHANGED <<serverVars, backlog, pending, early, pwait, ppending, linger>>

PeerFin(f) ==
    /\ "fin" \in Endings
    /\ slot[f].kind \in Streams /\ slot[f].peer = "up"
    /\ slot' = [slot EXCEPT ![f].peer = "fin"]
    /\ UNCHANGED <<serverVars, backlog, pending, early, pwait, ppending, linger>>

\* A reset loses what was not read: netconn_recv looks at the error first.
PeerReset(f) ==
    /\ "rst" \in Endings
    /\ slot[f].kind \in Streams /\ slot[f].peer # "rst"
    /\ slot' = [slot EXCEPT ![f].peer = "rst", ![f].unread = FALSE]
    /\ UNCHANGED <<serverVars, backlog, pending, early, pwait, ppending, linger>>

LingerEnds ==
    /\ linger /\ linger' = FALSE
    /\ UNCHANGED <<serverVars, slot, backlog, pending, early, pwait, ppending>>

-----------------------------------------------------------------------------
Loop == Boot \/ Select \/ AcceptSkip \/ AcceptConn \/ AcceptError
        \/ EndWalk \/ WalkSkip \/ Disconnect

Command == CmdReplyOnly \/ CmdSendNothing \/ CmdSendData \/ CmdQuit \/ CmdStor
           \/ CmdPort \/ CmdPasvNoSocket \/ CmdPasvNoBind \/ CmdPasvListen

Blocked == StorRecv \/ StorEnd \/ SendEnd \/ PortConnected \/ PortRefused
           \/ PasvAccept \/ PasvAcceptError

Server == Loop \/ Command \/ Blocked

Environment ==
    \/ \E c \in Conns : ConnectQueued(c) \/ ConnectRefused(c) \/ LeaveEarly(c)
    \/ \E f \in Fds : PeerSend(f) \/ PeerFin(f) \/ PeerReset(f)
    \/ DataConnect \/ DataLeaveEarly \/ LingerEnds

Next == Server \/ Environment

Spec == Init /\ [][Next]_vars

\* The other end of the upload in progress finishes it, in order or not.
UploadEnds ==
    /\ pc = "stor" /\ DataFd \in Fds
    /\ PeerFin(DataFd) \/ PeerReset(DataFd)

\* The task is scheduled whenever it can run and a connect() ends.  Of the
\* clients it is assumed that one that got a 227 reply connects, and that
\* nobody uploads one file for ever: select() does not time out for them.
\* That a client reads what it asked for is not assumed;
\* that it reads the replies is.
FairSpec == Spec /\ WF_vars(~WaitsForReader /\ Server)
                 /\ WF_vars(DataConnect) /\ WF_vars(UploadEnds)
-----------------------------------------------------------------------------
(* Properties.  `clean' excludes only the histories in which a session has  *)
(* already used a descriptor number that was not its own to use.           *)

Serving == pc \notin {"boot", "returned"}

\* destroy_conn() frees the session being visited and no other, so that the
\* saved `next' pointer of the walk (ftpd.c:157) never dangles, and a session
\* is visited at most once per round.
WalkIsSound ==
    /\ IsInjective(connList) /\ IsInjective(todo)
    /\ ToSet(todo) \subseteq ToSet(connList)
    /\ pc \in {"pasv", "port", "stor", "send"} => todo # <<>>

\* As long as every session keeps to the data sockets it obtained, reuse of
\* descriptor numbers never mixes sessions up: the listener stays open, each
\* session's sockfd is its own client's connection, and each data socket
\* belongs to one session.
SessionsAreIsolated ==
    clean /\ Serving =>
        /\ slot[Listener].kind = "listen"
        /\ \A c \in ToSet(connList) :
              slot[sess[c].fd].kind = "cmd" /\ slot[sess[c].fd].owner = c
        /\ \A c \in Conns : sess[c].holds =>
              /\ slot[sess[c].pasv].kind \in {"pdata", "adata", "raw"}
              /\ \A d \in Conns : sess[d].holds /\ sess[d].pasv = sess[c].pasv => c = d

\* SessionsAreIsolated, made inductive (for the proofs): a session that is
\* not in the list holds nothing, a suspended handler's own socket is what it
\* made, and only a PORT that is still connecting holds a raw socket.
OwnershipInv ==
    /\ ~Serving => connList = <<>>
    /\ \A c \in Conns \ ToSet(connList) : sess[c] = NoSession
    /\ \A c \in ToSet(connList) : sess[c].fd \in Fds
    /\ clean =>
        /\ Serving => slot[Listener].kind = "listen"
        /\ \A c \in ToSet(connList) :
              /\ slot[sess[c].fd].kind = "cmd" /\ slot[sess[c].fd].owner = c
        /\ \A c \in Conns : sess[c].holds =>
              /\ sess[c].pasv \in Fds
              /\ slot[sess[c].pasv].kind \in
                    IF pc = "port" /\ c = Current THEN {"raw"} ELSE {"pdata", "adata"}
              /\ \A d \in Conns : sess[d].holds /\ sess[d].pasv = sess[c].pasv => c = d
        /\ pc = "pasv" => lfd \in Fds /\ slot[lfd].kind = "plisten"
        /\ pc = "port" => sess[Current].holds

\* The result of select() is used after other sessions' commands have opened
\* and closed descriptors; still neither recv() nor accept() of the loop blocks
\* the task (ftpd.c:132, 158-160).
LoopNeverBlocks ==
    clean =>
        /\ pc = "accept" /\ Listener \in tmpfds => backlog # <<>>
        /\ pc = "walk" => \A c \in ToSet(todo) :
              sess[c].fd \in tmpfds => HasInput(slot[sess[c].fd])

\* A connection waiting in an accept mailbox holds a netconn already, so with
\* no more netconns than descriptors accept() never fails for want of one, and
\* the `continue' at ftpd.c:135 is only ever taken for a reset connection.
AcceptFindsDescriptor == (backlog # <<>> \/ pwait # "none") => FdLeft

\* A PASV data connection arrives only if the pool has room for the listener,
\* every session, the PASV listener and itself.
PasvNeedsRoom == clean /\ pwait # "none" => Len(connList) + 3 <= NumNetconns

\* accept() takes 1 off accepts_pending, an unsigned byte: it never wraps, and
\* the mailbox never holds more than the backlog.
PendingCoversBacklog == Len(backlog) <= pending /\ IsInjective(backlog)

\* What the session list, the walk and the accept mailbox need of each other
\* (for the proofs).
ListInv ==
    /\ pc \in PCs /\ pending \in 0 .. MaxConnection
    /\ todo \in Seq(Conns) /\ connList \in Seq(Conns) /\ backlog \in Seq(Conns)
    /\ WalkIsSound
    /\ PendingCoversBacklog
    /\ ToSet(connList) \cap ToSet(backlog) = {}

\* While sessions keep to their own data sockets, a control connection is
\* closed only in its own session's turn of the walk.
LosesControl(f) == slot[f].kind = "cmd" /\ slot'[f].owner # slot[f].owner
InTurnOf(c) == pc = "walk" /\ Current = c
ClosedInOwnTurn ==
    [][\A f \in Fds : LosesControl(f) /\ clean' => InTurnOf(slot[f].owner)]_vars

\* The task is in a select() that nothing the client may still do ends: the
\* data connection was aborted for want of a netconn, or STOR came without a
\* data connection.
Hangs ==
    \/ pc = "pasv" /\ ppending = 1 /\ pwait = "none"
    \/ pc = "stor" /\ KindIn(slot, DataFd) = "free"

\* A client that reads nothing more of what it asked for keeps the task, and
\* with it everybody else, in send() for ever (ftpd.c:338).
NeverRead == <>[](pc = "send")

\* Every round of the loop ends and every command of c that has arrived is read,
\* whatever the other sessions do, unless the task hangs, one of them never
\* reads its data, or connections that are reset before accept() keep coming
\* for ever.
Waiting(c) ==
    clean /\ c \in ToSet(connList) /\ HasInput(slot[sess[c].fd])
Visited(c) == c \in ToSet(connList) => ~HasInput(slot[sess[c].fd])
CommandServedOf(c) ==
    <>[][~AcceptError]_vars /\ ~NeverRead =>
        Waiting(c) ~> (~clean \/ Visited(c) \/ Hangs)

(* What the sources say and the code does not do                           *)

\* ftpd.c:37-39, destroy_conn: a session's end is to "close the current FTP
\* connection"; and 183: there is "a session for each connection".  A command
\* that uses pasv_sockfd after closing it closes what has the number now.
OnlyTheCurrentIsClosed ==
    [][\A f \in Fds : LosesControl(f) => InTurnOf(slot[f].owner)]_vars
=============================================================================
