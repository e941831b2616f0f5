----------------------------- MODULE LwipSockets ----------------------------
(***************************************************************************)
(* lwIP's sockets between the TCP/IP thread and the one task that uses     *)
(* them (api/sockets.c, api_lib.c, api_msg.c, core/tcp_in.c): mailboxes,   *)
(* the count of receive events of each socket, and the sleep in select().  *)
(*                                                                         *)
(* The TCP/IP thread has the higher priority: it interrupts the task       *)
(* anywhere, and the task runs only while the thread waits, for a message, *)
(* for a semaphore the task holds, or for room in a mailbox.  So a step of *)
(* the thread is what it does up to the next place where it may wait; a    *)
(* step of the task is one access to what they share.                      *)
(*                                                                         *)
(* A wait of the thread for a semaphore runs the timers that are due, the  *)
(* semaphore free or not (core/sys.c:143-155): here tcp_fasttmr, which     *)
(* offers refused data again in the middle of whatever the thread does.    *)
(* Other effects of timers (tcp_slowtmr) come only while the thread is     *)
(* idle.  If the same data is offered twice at once, its pbuf is freed     *)
(* twice, and the model goes no further.                                   *)
(***************************************************************************)
EXTENDS Integers, Sequences, SequencesExt, FiniteSets

CONSTANTS
    Conns,       \* the netconns of the pool, less the listener's
    Listener,    \* the netconn that listens; its socket is 0
    None,
    MboxSize,    \* archMESG_QUEUE_LENGTH
    MaxSegments  \* bound: of each connection, the messages its peer sends

\* None is neither a netconn nor a message to the thread.
ASSUME SocketsAssumption ==
    /\ IsFiniteSet(Conns) /\ Listener \notin Conns
    /\ None \notin Conns \cup {Listener} \cup [fn : {"ask", "delete"}, c : Conns \cup {Listener}]
    /\ MboxSize \in Nat \ {0} /\ MaxSegments \in [Conns -> Nat]

Netconns == Conns \cup {Listener}
Indices == 0 .. Cardinality(Conns)  \* NUM_SOCKETS is MEMP_NUM_NETCONN
End == 0                            \* the NULL in a recvmbox

VARIABLES
    conn,      \* sockets[i].conn
    rcvevent,  \* sockets[i].rcvevent
    lastdata,  \* sockets[i].lastdata is set
    socket,    \* conn->socket; below 0 it counts down from -1
    mbox,      \* recvmbox, of the listener acceptmbox
    fatal,     \* conn->err is fatal
    pcb,       \* conn->pcb: NULL or what became of the connection; "freed" when
               \* it points to a pcb that is no more
    refused,   \* pcb->refused_data, 0 for NULL
    closing,   \* netconns whose tcp_close has to be tried again
    live,      \* allocated netconns
    sent, read, lost,  \* ghosts: messages sent, the last one read, and the
                       \* connections whose end got lost
    twice,     \* ghost: data that was in a mailbox already was posted again
    todo,      \* the TCP/IP thread: what it has still to do
    api,       \* the message in its mailbox
    held,      \* socksem, selectsem: those the task holds
    scb,       \* the entry of select_cb_list and its semaphore
    ftp,       \* the task: where it is, with which socket and netconn
    ready      \* what select() returned

sockets == <<conn, rcvevent, lastdata>>
netconns == <<socket, mbox, fatal, pcb, refused, closing, live>>
ghosts == <<sent, read, lost, twice>>
tcpip == <<todo, api>>
task == <<held, scb, ftp, ready>>
vars == <<sockets, netconns, ghosts, tcpip, task>>

Ops == [op : {"deliver", "post", "count", "add", "scan", "clear", "rearm", "done"},
        c : Netconns, x : Int]
Op(op, c, x) == [op |-> op, c |-> c, x |-> x]

TypeOK ==
    /\ conn \in [Indices -> Netconns \cup {None}]
    /\ rcvevent \in [Indices -> Nat]
    /\ lastdata \in [Indices -> BOOLEAN]
    /\ socket \in [Netconns -> Int]
    /\ \A c \in Conns : mbox[c] \in Seq(0 .. MaxSegments[c]) /\ Len(mbox[c]) <= MboxSize
    /\ mbox[Listener] \in Seq(live) /\ Len(mbox[Listener]) <= MboxSize
    /\ fatal \in [Conns -> BOOLEAN]
    /\ pcb \in [Conns -> {"none", "open", "ended", "lastack", "freed"}]
    /\ \A c \in Conns : refused[c] \in 0 .. MaxSegments[c]
    /\ closing \subseteq live /\ live \subseteq Conns /\ lost \subseteq live
    /\ twice \in BOOLEAN
    /\ todo \in Seq(Ops)
    /\ held \in SUBSET {"socksem", "selectsem"} /\ Cardinality(held) <= 1
    /\ ready \subseteq Indices

\* The task at the top of its loop.
Start == [pc |-> "serve", then |-> None, i |-> 0, c |-> None, some |-> FALSE, m |-> None]

Init ==
    /\ conn = [i \in Indices |-> IF i = 0 THEN Listener ELSE None]
    /\ rcvevent = [i \in Indices |-> 0]
    /\ lastdata = [i \in Indices |-> FALSE]
    /\ socket = [c \in Netconns |-> IF c = Listener THEN 0 ELSE -1]
    /\ mbox = [c \in Netconns |-> <<>>]
    /\ fatal = [c \in Conns |-> FALSE]
    /\ pcb = [c \in Conns |-> "none"]
    /\ refused = [c \in Conns |-> 0]
    /\ closing = {} /\ live = {}
    /\ sent = [c \in Conns |-> 0] /\ read = [c \in Conns |-> 0] /\ lost = {}
    /\ twice = FALSE
    /\ todo = <<>> /\ api = None
    /\ held = {} /\ scb = [listed |-> FALSE, signalled |-> FALSE, sem |-> FALSE]
    /\ ftp = Start
    /\ ready = {}

Full(c) == Len(mbox[c]) >= MboxSize

\* event_callback, from where it knows the socket on, and from its start:
\* without a socket it counts in the netconn.
Callback(c, x) ==
    IF conn[socket[c]] = None THEN <<>>
    ELSE <<Op("add", c, x), Op("scan", c, 0)>>
ApiEvent(c, x) == IF socket[c] < 0 THEN <<Op("count", c, x)>> ELSE Callback(c, x)

-----------------------------------------------------------------------------
(* The TCP/IP thread: what comes from the network                          *)

\* Nothing is followed further than a pbuf that is in a mailbox twice.
Whole == ~twice

Idle == Whole /\ todo = <<>> /\ api = None

\* What it does next.
First(op) == Whole /\ todo # <<>> /\ Head(todo).op = op
C == Head(todo).c
X == Head(todo).x

\* What is still to be done for c.
Coming(c, ops) ==
    Cardinality({k \in 1 .. Len(todo) : todo[k].op \in ops /\ todo[k].c = c})

\* accept_function; without a netconn or room in the mailbox the connection
\* is dropped.
Connected(c) ==
    /\ Idle
    /\ c \notin live /\ ~Full(Listener)
    /\ live' = live \cup {c}
    /\ socket' = [socket EXCEPT ![c] = -1]
    /\ fatal' = [fatal EXCEPT ![c] = FALSE]
    /\ pcb' = [pcb EXCEPT ![c] = "open"]
    /\ mbox' = [mbox EXCEPT ![Listener] = Append(@, c)]
    /\ todo' = ApiEvent(Listener, 1)
    /\ UNCHANGED <<sockets, refused, closing, ghosts, api, task>>

\* Mutant: it is taken while data was refused before it.
SegmentBehindRefused(c, data, end) ==
    /\ Idle
    /\ pcb[c] = "open" /\ c \notin closing
    /\ data \/ end
    /\ data => sent[c] < MaxSegments[c]
    /\ sent' = [sent EXCEPT ![c] = IF data THEN @ + 1 ELSE @]
    /\ pcb' = [pcb EXCEPT ![c] = IF end THEN "ended" ELSE @]
    /\ todo' = (IF data THEN <<Op("deliver", c, sent[c] + 1)>> ELSE <<>>)
               \o (IF end THEN <<Op("deliver", c, End)>> ELSE <<>>)
    /\ UNCHANGED <<sockets, socket, mbox, fatal, refused, closing, live, read,
                   lost, twice, api, task>>

\* A segment of data, the end, or both.  While the connection is being closed
\* tcp_recv_null takes them: it drops data, and on the end it closes, too.
Segment(c, data, end) ==
    /\ Idle
    /\ pcb[c] = "open" /\ refused[c] = 0
    /\ data \/ end
    /\ data => sent[c] < MaxSegments[c]
    /\ sent' = [sent EXCEPT ![c] = IF data THEN @ + 1 ELSE @]
    /\ \/ /\ c \notin closing
          /\ pcb' = [pcb EXCEPT ![c] = IF end THEN "ended" ELSE @]
          /\ todo' = (IF data THEN <<Op("deliver", c, sent[c] + 1)>> ELSE <<>>)
                     \o (IF end THEN <<Op("deliver", c, End)>> ELSE <<>>)
       \/ /\ c \in closing
          /\ \E state \in IF end THEN {"ended", "lastack"} ELSE {"open"} :
                pcb' = [pcb EXCEPT ![c] = state]
          /\ UNCHANGED todo
    /\ UNCHANGED <<sockets, socket, mbox, fatal, refused, closing, live, read,
                   lost, twice, api, task>>

\* The peer acknowledges the end sent by tcp_recv_null: the pcb is freed, and
\* the netconn that still points to it hears nothing.
LastAck(c) ==
    /\ Idle
    /\ pcb[c] = "lastack"
    /\ pcb' = [pcb EXCEPT ![c] = "freed"]
    /\ UNCHANGED <<sockets, socket, mbox, fatal, refused, closing, live, ghosts,
                   tcpip, task>>

\* Refused data is offered to recv_tcp again, or to tcp_recv_null.  If it is
\* taken refused_data is cleared, but only when the event has been told.
Offer(c, then) ==
    /\ refused[c] # 0
    /\ \/ /\ c \in closing
          /\ refused' = [refused EXCEPT ![c] = 0]
          /\ UNCHANGED <<mbox, fatal, todo>>
       \/ /\ c \notin closing /\ ~Full(c)
          /\ mbox' = [mbox EXCEPT ![c] = Append(@, refused[c])]
          /\ fatal' = [fatal EXCEPT ![c] = FALSE]
          /\ todo' = ApiEvent(c, 1) \o <<Op(then, c, 0)>> \o todo
          /\ UNCHANGED refused
    /\ UNCHANGED <<sockets, socket, pcb, closing, live, sent, read, lost, api, task>>

\* By tcp_input, before it looks at the next segment, or by tcp_fasttmr, in
\* which no other timer of TCP is armed.
OfferAgain(c) ==
    /\ Idle
    /\ Offer(c, "clear") \/ Offer(c, "rearm")
    /\ UNCHANGED twice

\* By tcp_fasttmr while the thread is about to wait for a semaphore: inside
\* tcp_input, which may have offered the same data and not cleared it yet.
NestedOffer(c) ==
    /\ First("count") \/ First("add") \/ First("scan")
    /\ \A k \in DOMAIN todo : todo[k].op # "rearm"
    /\ Offer(c, "rearm")
    /\ twice' = (Coming(c, {"clear"}) > 0)

\* err_tcp, which a connection that is being closed has, too.
Reset(c) ==
    /\ Idle
    /\ pcb[c] \notin {"none", "freed"}
    /\ pcb' = [pcb EXCEPT ![c] = "none"]
    /\ refused' = [refused EXCEPT ![c] = 0]
    /\ fatal' = [fatal EXCEPT ![c] = TRUE]
    /\ todo' = ApiEvent(c, 1) \o <<Op("post", c, End)>>
               \o (IF c \in closing THEN <<Op("done", c, 0)>> ELSE <<>>)
    /\ closing' = closing \ {c}
    /\ UNCHANGED <<sockets, socket, mbox, live, ghosts, api, task>>

\* Mutant: the netconn stays in state NETCONN_CLOSE.
CloseDoneKept(c) ==
    /\ pcb' = [pcb EXCEPT ![c] = "none"]
    /\ refused' = [refused EXCEPT ![c] = 0]
    /\ fatal' = [fatal EXCEPT ![c] = FALSE]
    /\ todo' = ApiEvent(c, 1) \o ApiEvent(c, 0) \o <<Op("done", c, 0)>>
    /\ UNCHANGED <<socket, mbox, live, closing>>

\* do_close_internal: tcp_close may fail for want of memory, and is tried
\* again by poll_tcp or sent_tcp.
CloseDone(c) ==
    /\ pcb' = [pcb EXCEPT ![c] = "none"]
    /\ refused' = [refused EXCEPT ![c] = 0]
    /\ fatal' = [fatal EXCEPT ![c] = FALSE]
    /\ closing' = closing \ {c}
    /\ todo' = ApiEvent(c, 1) \o ApiEvent(c, 0) \o <<Op("done", c, 0)>>
    /\ UNCHANGED <<socket, mbox, live>>

CloseFailed(c) ==
    /\ closing' = closing \cup {c}
    /\ todo' = <<>>
    /\ UNCHANGED <<socket, mbox, fatal, pcb, refused, live>>

CloseAgain(c) ==
    /\ Idle
    /\ c \in closing /\ pcb[c] # "freed"
    /\ CloseDone(c)
    /\ UNCHANGED <<sockets, ghosts, api, task>>

\* The thread takes a message of the task: do_recv and do_getaddr have nothing
\* to show here but their answer, do_delconn closes.
ApiCall ==
    /\ Whole /\ todo = <<>> /\ api # None
    /\ api' = None
    /\ LET c == api.c
       IN  \/ /\ api.fn = "ask"
              /\ todo' = <<Op("done", c, 0)>>
              /\ UNCHANGED netconns
           \/ /\ api.fn = "delete" /\ pcb[c] # "none"
              /\ CloseDone(c) \/ CloseFailed(c)
           \/ /\ api.fn = "delete" /\ pcb[c] = "none"
              /\ todo' = ApiEvent(c, 1) \o ApiEvent(c, 0) \o <<Op("done", c, 0)>>
              /\ UNCHANGED netconns
    /\ UNCHANGED <<sockets, ghosts, task>>

-----------------------------------------------------------------------------
(* The TCP/IP thread: telling the task                                     *)

\* Mutant: no event for the end.
DeliverQuietly ==
    /\ First("deliver")
    /\ fatal' = [fatal EXCEPT ![C] = FALSE]
    /\ \/ /\ ~Full(C)
          /\ mbox' = [mbox EXCEPT ![C] = Append(@, X)]
          /\ todo' = (IF X = End THEN <<>> ELSE ApiEvent(C, 1)) \o Tail(todo)
          /\ UNCHANGED <<refused, lost>>
       \/ /\ Full(C)
          /\ refused' = IF X = End THEN refused ELSE [refused EXCEPT ![C] = X]
          /\ lost' = IF X = End THEN lost \cup {C} ELSE lost
          /\ todo' = Tail(todo)
          /\ UNCHANGED mbox
    /\ UNCHANGED <<sockets, socket, pcb, closing, live, sent, read, twice, api, task>>

\* recv_tcp: what does not fit is kept in the pcb, but not the end.
Deliver ==
    /\ First("deliver")
    /\ fatal' = [fatal EXCEPT ![C] = FALSE]
    /\ \/ /\ ~Full(C)
          /\ mbox' = [mbox EXCEPT ![C] = Append(@, X)]
          /\ todo' = ApiEvent(C, 1) \o Tail(todo)
          /\ UNCHANGED <<refused, lost>>
       \/ /\ Full(C)
          /\ refused' = IF X = End THEN refused ELSE [refused EXCEPT ![C] = X]
          /\ lost' = IF X = End THEN lost \cup {C} ELSE lost
          /\ todo' = Tail(todo)
          /\ UNCHANGED mbox
    /\ UNCHANGED <<sockets, socket, pcb, closing, live, sent, read, twice, api, task>>

\* sys_mbox_post in err_tcp waits for room.
Post ==
    /\ First("post") /\ ~Full(C)
    /\ mbox' = [mbox EXCEPT ![C] = Append(@, End)]
    /\ todo' = Tail(todo)
    /\ UNCHANGED <<sockets, socket, fatal, pcb, refused, closing, live, ghosts,
                   api, task>>

\* Mutant: once it has socksem it does not look at conn->socket again.
CountUnchecked ==
    /\ First("count") /\ "socksem" \notin held
    /\ socket' = [socket EXCEPT ![C] = @ - X]
    /\ todo' = Tail(todo)
    /\ UNCHANGED <<sockets, mbox, fatal, pcb, refused, closing, live, ghosts,
                   api, task>>

\* Before accept() has made a socket: counted in the netconn, under socksem.
Count ==
    /\ First("count") /\ "socksem" \notin held
    /\ \/ /\ socket[C] < 0
          /\ socket' = [socket EXCEPT ![C] = @ - X]
          /\ todo' = Tail(todo)
       \/ /\ socket[C] >= 0
          /\ todo' = Callback(C, X) \o Tail(todo)
          /\ UNCHANGED socket
    /\ UNCHANGED <<sockets, mbox, fatal, pcb, refused, closing, live, ghosts,
                   api, task>>

Add ==
    /\ First("add") /\ "selectsem" \notin held
    /\ rcvevent' = [rcvevent EXCEPT ![socket[C]] = @ + X]
    /\ todo' = Tail(todo)
    /\ UNCHANGED <<conn, lastdata, netconns, ghosts, api, task>>

\* A select() that waits for this socket is signalled, once.
Scan ==
    /\ First("scan") /\ "selectsem" \notin held
    /\ scb' = IF scb.listed /\ ~scb.signalled /\ rcvevent[socket[C]] > 0
              THEN [scb EXCEPT !.signalled = TRUE, !.sem = TRUE] ELSE scb
    /\ todo' = Tail(todo)
    /\ UNCHANGED <<sockets, netconns, ghosts, api, held, ftp, ready>>

\* tcp_input or tcp_fasttmr goes on after recv_tcp.
Clear ==
    /\ First("clear") \/ First("rearm")
    /\ refused' = [refused EXCEPT ![C] = 0]
    /\ todo' = Tail(todo)
    /\ UNCHANGED <<sockets, socket, mbox, fatal, pcb, closing, live, ghosts, api, task>>

\* op_completed: the task goes on.
Done ==
    /\ First("done")
    /\ ftp' = [ftp EXCEPT !.pc = ftp.then, !.then = None]
    /\ todo' = Tail(todo)
    /\ UNCHANGED <<sockets, netconns, ghosts, api, held, scb, ready>>

\* The thread waits: the task may run.
Waits ==
    \/ Idle
    \/ First("post") /\ Full(C)
    \/ First("count") /\ "socksem" \in held
    \/ (First("add") \/ First("scan")) /\ "selectsem" \in held

-----------------------------------------------------------------------------
(* The task                                                                *)

At(pc) == ftp.pc = pc /\ Waits
Goto(pc) == ftp' = [ftp EXCEPT !.pc = pc]
Take(sem) == held' = held \cup {sem}
Give(sem) == held' = held \ {sem}

\* The call of the server is over.
Return == ftp' = Start

\* lwip_selscan over all open sockets, which is what the server waits for.
Readable == {i \in Indices : conn[i] # None /\ (lastdata[i] \/ rcvevent[i] > 0)}

\* Mutant: what is scanned is not protected.
SelectLockless ==
    /\ At("select") /\ Goto("scan")
    /\ UNCHANGED <<sockets, netconns, ghosts, tcpip, held, scb, ready>>

SelectLock ==
    /\ At("select") /\ Take("selectsem") /\ Goto("scan")
    /\ UNCHANGED <<sockets, netconns, ghosts, tcpip, scb, ready>>

SelectScan ==
    /\ At("scan")
    /\ \/ Readable # {} /\ ready' = Readable /\ Return /\ Give("selectsem")
       \/ Readable = {} /\ Goto("list") /\ UNCHANGED <<ready, held>>
    /\ UNCHANGED <<sockets, netconns, ghosts, tcpip, scb>>

SelectList ==
    /\ At("list") /\ Give("selectsem") /\ Goto("sleep")
    /\ scb' = [listed |-> TRUE, signalled |-> FALSE, sem |-> FALSE]
    /\ UNCHANGED <<sockets, netconns, ghosts, tcpip, ready>>

SelectWake ==
    /\ At("sleep") /\ scb.sem
    /\ scb' = [scb EXCEPT !.sem = FALSE]
    /\ Goto("unlist")
    /\ UNCHANGED <<sockets, netconns, ghosts, tcpip, held, ready>>

SelectRelock ==
    /\ At("unlist") /\ Take("selectsem") /\ Goto("unlink")
    /\ UNCHANGED <<sockets, netconns, ghosts, tcpip, scb, ready>>

SelectUnlink ==
    /\ At("unlink") /\ Give("selectsem") /\ Goto("rescan")
    /\ scb' = [scb EXCEPT !.listed = FALSE, !.signalled = FALSE]
    /\ UNCHANGED <<sockets, netconns, ghosts, tcpip, ready>>

\* The second scan is not protected.
SelectRescan ==
    /\ At("rescan") /\ Return
    /\ ready' = Readable
    /\ UNCHANGED <<sockets, netconns, ghosts, tcpip, held, scb>>

\* The server accepts on its listener and receives from the others.
Serve ==
    /\ At("serve")
    /\ \/ /\ ready = {} /\ Goto("select") /\ UNCHANGED ready
       \/ \E i \in ready :
             /\ ready' = ready \ {i}
             /\ ftp' = [ftp EXCEPT !.pc = IF i = 0 THEN "fetch" ELSE "receive",
                                   !.i = i, !.c = conn[i], !.some = FALSE]
    /\ UNCHANGED <<sockets, netconns, ghosts, tcpip, held, scb>>

\* netconn_accept and netconn_recv take a message, and wait for one.
Fetch ==
    /\ At("fetch") /\ mbox[ftp.c] # <<>>
    /\ mbox' = [mbox EXCEPT ![ftp.c] = Tail(@)]
    /\ ftp' = [ftp EXCEPT !.pc = "minus", !.m = Head(mbox[ftp.c])]
    /\ read' = IF ftp.i # 0 /\ Head(mbox[ftp.c]) # End
               THEN [read EXCEPT ![ftp.c] = Head(mbox[ftp.c])] ELSE read
    /\ UNCHANGED <<sockets, socket, fatal, pcb, refused, closing, live, sent, lost,
                   twice, tcpip, held, scb, ready>>

\* event_callback in the task; nobody else is in select().
MinusLock ==
    /\ At("minus") /\ Take("selectsem") /\ Goto("less")
    /\ UNCHANGED <<sockets, netconns, ghosts, tcpip, scb, ready>>

Minus ==
    /\ At("less") /\ Give("selectsem")
    /\ rcvevent' = [rcvevent EXCEPT ![ftp.i] = @ - 1]
    /\ Goto(IF ftp.i = 0 \/ ftp.m # End THEN "taken" ELSE "ended")
    /\ UNCHANGED <<conn, lastdata, netconns, ghosts, tcpip, scb, ready>>

\* do_recv, and the answer.
Taken ==
    /\ At("taken")
    /\ api' = [fn |-> "ask", c |-> ftp.c]
    /\ ftp' = IF ftp.i = 0 THEN [ftp EXCEPT !.pc = "asked", !.then = "peer"]
              ELSE [ftp EXCEPT !.pc = "asked", !.then = "copy", !.m = None]
    /\ UNCHANGED <<sockets, netconns, ghosts, todo, held, scb, ready>>

\* netconn_peer, for a connection that may have been reset by now.
Peer ==
    /\ At("peer")
    /\ api' = [fn |-> "ask", c |-> ftp.m]
    /\ ftp' = [ftp EXCEPT !.pc = "asked", !.c = ftp.m, !.m = None,
                          !.then = IF pcb[ftp.m] = "none" THEN "delete" ELSE "alloc"]
    /\ UNCHANGED <<sockets, netconns, ghosts, todo, held, scb, ready>>

\* alloc_socket
AllocLock ==
    /\ At("alloc") /\ Take("socksem") /\ Goto("slot")
    /\ UNCHANGED <<sockets, netconns, ghosts, tcpip, scb, ready>>

FreeIndices == {i \in Indices : conn[i] = None}

Alloc ==
    /\ At("slot") /\ Give("socksem")
    /\ \/ /\ FreeIndices = {} /\ Goto("delete")
          /\ UNCHANGED sockets
       \/ \E i \in FreeIndices :
             /\ \A j \in FreeIndices : i <= j
             /\ conn' = [conn EXCEPT ![i] = ftp.c]
             /\ rcvevent' = [rcvevent EXCEPT ![i] = 0]
             /\ lastdata' = [lastdata EXCEPT ![i] = FALSE]
             /\ ftp' = [ftp EXCEPT !.pc = "accept", !.i = i]
    /\ UNCHANGED <<netconns, ghosts, tcpip, scb, ready>>

\* lwip_accept hands the events counted in the netconn over to the socket.
AcceptLock ==
    /\ At("accept") /\ Take("socksem") /\ Goto("hand over")
    /\ UNCHANGED <<sockets, netconns, ghosts, tcpip, scb, ready>>

\* Mutant: the socket's count starts with what was counted down.
AcceptOffByOne ==
    /\ At("hand over") /\ Give("socksem") /\ Return
    /\ rcvevent' = [rcvevent EXCEPT ![ftp.i] = @ - socket[ftp.c]]
    /\ socket' = [socket EXCEPT ![ftp.c] = ftp.i]
    /\ UNCHANGED <<conn, lastdata, mbox, fatal, pcb, refused, closing, live, ghosts,
                   tcpip, scb, ready>>

Accept ==
    /\ At("hand over") /\ Give("socksem") /\ Return
    /\ rcvevent' = [rcvevent EXCEPT ![ftp.i] = @ - 1 - socket[ftp.c]]
    /\ socket' = [socket EXCEPT ![ftp.c] = ftp.i]
    /\ UNCHANGED <<conn, lastdata, mbox, fatal, pcb, refused, closing, live, ghosts,
                   tcpip, scb, ready>>

\* lwip_recvfrom, once around its loop.  Told of the end, the server closes,
\* unless recv() has something to return.
Told ==
    \/ ftp.some /\ Return
    \/ ~ftp.some /\ ftp' = [ftp EXCEPT !.pc = "delete", !.m = None]

Receive ==
    /\ At("receive")
    /\ \/ lastdata[ftp.i] /\ Goto("copy")
       \/ ~lastdata[ftp.i] /\ fatal[ftp.c] /\ Told
       \/ ~lastdata[ftp.i] /\ ~fatal[ftp.c] /\ Goto("fetch")
    /\ UNCHANGED <<sockets, netconns, ghosts, tcpip, held, scb, ready>>

\* The end has been taken out of the mailbox.
Ended ==
    /\ At("ended") /\ Told
    /\ fatal' = [fatal EXCEPT ![ftp.c] = TRUE]
    /\ lost' = IF ftp.some THEN lost \cup {ftp.c} ELSE lost
    /\ UNCHANGED <<sockets, socket, mbox, pcb, refused, closing, live, sent, read,
                   twice, tcpip, held, scb, ready>>

\* What recv() returns makes the server close: QUIT, or all of an upload.
Quit == ftp' = [ftp EXCEPT !.pc = "delete", !.some = TRUE]

\* Mutant: recv() goes on until its buffer is full or a message was pushed.
CopyGreedily(more) ==
    /\ At("copy")
    /\ lastdata' = [lastdata EXCEPT ![ftp.i] = more]
    /\ \/ Return
       \/ Quit
       \/ ~more /\ ftp' = [ftp EXCEPT !.pc = "receive", !.some = TRUE]
    /\ UNCHANGED <<conn, rcvevent, netconns, ghosts, tcpip, held, scb, ready>>

\* recv() returns when its buffer is full, some of the message left over or
\* not, when the message was pushed, or when nothing else has come.
Copy(more) ==
    /\ At("copy")
    /\ lastdata' = [lastdata EXCEPT ![ftp.i] = more]
    /\ \/ Return
       \/ Quit
       \/ /\ ~more /\ rcvevent[ftp.i] > 0
          /\ ftp' = [ftp EXCEPT !.pc = "receive", !.some = TRUE]
    /\ UNCHANGED <<conn, rcvevent, netconns, ghosts, tcpip, held, scb, ready>>

\* netconn_delete: do_delconn, then netconn_free.  (What is left in a free
\* netconn or socket is as when it is allocated again.)
Delete ==
    /\ At("delete")
    /\ api' = [fn |-> "delete", c |-> ftp.c]
    /\ ftp' = [ftp EXCEPT !.pc = "asked", !.then = "free"]
    /\ UNCHANGED <<sockets, netconns, ghosts, todo, held, scb, ready>>

Free ==
    /\ At("free")
    /\ mbox' = [mbox EXCEPT ![ftp.c] = <<>>]
    /\ live' = live \ {ftp.c}
    /\ sent' = [sent EXCEPT ![ftp.c] = 0] /\ read' = [read EXCEPT ![ftp.c] = 0]
    /\ lost' = lost \ {ftp.c}
    /\ socket' = [socket EXCEPT ![ftp.c] = -1]
    /\ fatal' = [fatal EXCEPT ![ftp.c] = FALSE]
    /\ \/ ftp.i # 0 /\ Goto("close")
       \/ ftp.i = 0 /\ Return
    /\ UNCHANGED <<sockets, pcb, refused, closing, twice, tcpip, held, scb, ready>>

\* lwip_close gives the socket back.
CloseLock ==
    /\ At("close") /\ Take("socksem") /\ Goto("closed")
    /\ UNCHANGED <<sockets, netconns, ghosts, tcpip, scb, ready>>

Closed ==
    /\ At("closed") /\ Give("socksem") /\ Return
    /\ conn' = [conn EXCEPT ![ftp.i] = None]
    /\ lastdata' = [lastdata EXCEPT ![ftp.i] = FALSE]
    /\ rcvevent' = [rcvevent EXCEPT ![ftp.i] = 0]
    /\ UNCHANGED <<netconns, ghosts, tcpip, scb, ready>>

-----------------------------------------------------------------------------
Network == \E c \in Conns :
    \/ Connected(c) \/ LastAck(c) \/ Reset(c) \/ CloseAgain(c)
    \/ OfferAgain(c) \/ NestedOffer(c)
    \/ \E data, end \in BOOLEAN : Segment(c, data, end)

Thread == ApiCall \/ Deliver \/ Post \/ Count \/ Add \/ Scan \/ Clear \/ Done

Task ==
    \/ SelectLock \/ SelectScan \/ SelectList \/ SelectWake \/ SelectRelock
    \/ SelectUnlink \/ SelectRescan \/ Serve \/ Fetch \/ MinusLock \/ Minus
    \/ Taken \/ Peer \/ AllocLock \/ Alloc \/ AcceptLock \/ Accept
    \/ Receive \/ Ended \/ (\E more \in BOOLEAN : Copy(more)) \/ Delete \/ Free \/ CloseLock \/ Closed

Next == Network \/ Thread \/ Task

Spec == Init /\ [][Next]_vars

\* The kernel runs the thread when it can, and the task when the thread waits;
\* poll_tcp tries a close again until there is memory for it; the rest of a
\* message is read in the end.
FairSpec ==
    /\ Spec
    /\ WF_vars(Thread) /\ WF_vars(Task)
    /\ \A c \in Conns : WF_vars(CloseAgain(c))
    /\ \A i \in Indices : SF_vars(ftp.i = i /\ Copy(FALSE))

-----------------------------------------------------------------------------
(* Properties                                                              *)

\* The server is about to give the netconn back, or waits for that.
Deleting(c) ==
    /\ ftp.c = c
    /\ \/ ftp.pc \in {"delete", "free"}
       \/ ftp.pc = "asked" /\ ftp.then = "free"

Counted(c) == IF socket[c] < 0 THEN -1 - socket[c] ELSE rcvevent[socket[c]]

\* Through accept(), with events that come before there is a socket, while it
\* is made, and after, each message is counted once, and each count is for a
\* message (sockets.c:299-310, 1048-1077).
EventsCounted ==
    \A c \in live \cup {Listener} : ~Deleting(c) =>
        Counted(c) + Coming(c, {"count", "add"})
            = Len(mbox[c]) + Coming(c, {"post"})
              + (IF ftp.c = c /\ ftp.pc \in {"minus", "less"} THEN 1 ELSE 0)

\* select() sleeps exactly as long as nothing is readable: no wake-up gets lost
\* between its scan and its sleep, and none comes for nothing
\* (sockets.c:910-1016, 1081-1128).
SleepsWhileNothingReadable ==
    ftp.pc = "sleep" /\ Waits => (scb.sem <=> Readable # {})

\* What select() said is true when the task acts on it: accept() and recv()
\* find a message and do not block, and accept() finds a socket
\* (sockets.c:222-236, 506-540).
ReadableIsRead ==
    /\ ftp.pc = "fetch" => mbox[ftp.c] # <<>> \/ Coming(ftp.c, {"post"}) > 0
    /\ ftp.pc = "slot" => FreeIndices # {}

\* Whatever is refused, retried, left over or reset, messages are read in the
\* order they were sent, none twice and none left out, and the end after them,
\* as long as none has been posted twice (tcp_in.c:276-337, api_msg.c:200-232).
Stream == INSTANCE Streams WITH
    stream <- [c \in Conns |->
        IF c \notin live \/ (Deleting(c) /\ ftp.some)
        THEN [state |-> "off", sent |-> 0, read |-> 0, told |-> FALSE]
        ELSE [state |-> CASE pcb[c] = "open" -> "open"
                          [] pcb[c] = "none" -> "gone"
                          [] OTHER           -> "ended",
              sent |-> sent[c], read |-> read[c], told |-> Deleting(c)]],
    broken <- twice
ImplementsStreams == Stream!Spec

\* The two ways the thread and the task can come to a stop for good.
MutualWait == First("post") /\ Full(C) /\ ftp.pc = "asked"
CloseForgotten == \E c \in Conns : pcb[c] = "freed"

\* Unless one of these happens, the end itself is lost, or a pbuf is freed
\* twice, the server is told of the end of connection c.
EndIsSeenOf(c) ==
    (c \in live /\ pcb[c] \in {"ended", "none"})
        ~> (Deleting(c) \/ c \in lost \/ twice \/ MutualWait \/ CloseForgotten)

(* What the sources say and the code does not do                           *)

\* api_msg.c:295, of err_tcp: it "posts to all conn mboxes and calls
\* API_EVENT. The application thread has then to decide what to do."
ApplicationDecides == ~MutualWait
=============================================================================
