------------------------------- MODULE TcpSend ------------------------------
(***************************************************************************)
(* lwIP sending (core/tcp_out.c, tcp_in.c, tcp.c; api/api_msg.c): the      *)
(* server writes a file into a data connection and closes it, over a       *)
(* network that loses and reorders, to a client that reads when it likes.  *)
(*                                                                         *)
(* The TCP/IP thread does one thing at a time, so that a step is a whole   *)
(* call of it: do_write, do_delconn, tcp_input or tcp_slowtmr.  pcb holds  *)
(* the fields of struct tcp_pcb and what do_writemore and                  *)
(* do_close_internal keep in the netconn.  Data is counted in units,       *)
(* sequence numbers begin with 0 when the connection is established.       *)
(***************************************************************************)
EXTENDS Integers, Sequences, SequencesExt, FiniteSets, FiniteSetsExt, Sums

CONSTANTS
    Total,     \* bound: units of the file
    WriteLen,  \* units of one send(): the server's sbuf
    MSS,       \* TCP_MSS
    SndBuf,    \* TCP_SND_BUF, twice that, in a u16_t
    QueueLen,  \* TCP_SND_QUEUELEN, in pbufs
    MaxRtx,    \* TCP_MAXRTX
    PeerBuf,   \* units the client's side can hold
    WireSize,  \* bounds: segments under way to the client, besides what was
    AcksSize   \* sent at once, and from it

ASSUME SendAssumption ==
    /\ Total \in Nat /\ {WriteLen, MSS, QueueLen, MaxRtx, PeerBuf, WireSize, AcksSize}
          \subseteq Nat \ {0}
    /\ WriteLen <= MSS /\ SndBuf = 2 * MSS /\ SndBuf < 65536

VARIABLES
    pcb,   \* the pcb and its netconn
    peer,  \* the client: next sequence number, what it has beyond that, up to
           \* where it has read, whether it has ended its own side
    wire,  \* segments under way to the client
    acks   \* segments under way from it

vars == <<pcb, peer, wire, acks>>

Min2(a, b) == IF a < b THEN a ELSE b
Max2(a, b) == IF a < b THEN b ELSE a

\* A segment: data, then maybe FIN; pbufs counts against QueueLen.
EndOf(seg) == seg.seq + seg.len + (IF seg.fin THEN 1 ELSE 0)

Segments == [seq : 0 .. Total, len : 0 .. MSS, fin : BOOLEAN, pbufs : 0 .. MSS]

u16_t == 0 .. 65535

Writable == {"ESTABLISHED", "CLOSE_WAIT"}
Closing == {"FIN_WAIT_1", "FIN_WAIT_2", "CLOSING", "LAST_ACK"}
Over == {"TIME_WAIT", "CLOSED", "timed out", "aborted"}

TypeOK ==
    /\ pcb.state \in Writable \cup Closing \cup Over
    /\ pcb.unsent \in Seq(Segments) /\ pcb.unacked \in Seq(Segments)
    /\ {pcb.lastack, pcb.nxt, pcb.lbb} \subseteq 0 .. Total + 1
    /\ pcb.wnd \in 0 .. PeerBuf /\ pcb.wl1 \in 0 .. 1 /\ pcb.wl2 \in 0 .. Total + 1
    /\ pcb.buf \in u16_t /\ pcb.qlen \in 0 .. QueueLen
    /\ pcb.cwnd \in MSS .. SndBuf
    /\ pcb.nrtx \in 0 .. MaxRtx + 1 /\ pcb.dupacks \in 0 .. 4
    /\ pcb.left \in 0 .. WriteLen
    /\ pcb.out = {} /\ pcb.acked = 0 /\ ~pcb.input
    /\ peer.rcv \in 0 .. Total + 1 /\ peer.read \in 0 .. Total
    /\ Cardinality(wire) <= WireSize + QueueLen /\ Cardinality(acks) <= AcksSize

Init ==
    /\ pcb = [state |-> "ESTABLISHED", unsent |-> <<>>, unacked |-> <<>>,
              lastack |-> 0, nxt |-> 0, lbb |-> 0,
              wnd |-> PeerBuf, wl1 |-> 0, wl2 |-> 0,
              buf |-> SndBuf, qlen |-> 0, cwnd |-> SndBuf,
              running |-> FALSE,   \* rtime >= 0
              nrtx |-> 0, dupacks |-> 0,
              infr |-> FALSE, memerr |-> FALSE, fin |-> FALSE,  \* TF_ flags
              acknow |-> FALSE,
              persist |-> FALSE,   \* persist_backoff > 0
              rcv |-> 0,           \* rcv_nxt: 1 when the peer's FIN has come
              acked |-> 0,
              left |-> 0,          \* NETCONN_WRITE: units not yet enqueued
              closing |-> FALSE,   \* NETCONN_CLOSE: to be tried again
              early |-> FALSE,     \* ghost: see FinAcked
              input |-> FALSE,     \* tcp_input_pcb = pcb
              out |-> {}]          \* what the step sends
    /\ peer = [rcv |-> 0, beyond |-> {}, read |-> 0, fin |-> FALSE]
    /\ wire = {} /\ acks = {}

\* The network takes what it is given, and loses what it has no room for.
Carry(old, new, size) ==
    LET others == old \ new
        room == Max2(0, size - Cardinality(new))
    IN  {new \cup kept : kept \in kSubset(Min2(room, Cardinality(others)), others)}

\* The step ends with the pcb p and sends what p holds for it; left is still on
\* its way to it, which ends with the connection.
Becomes(p, left) ==
    /\ UNCHANGED peer
    /\ acks' = IF p.state \in Over THEN {} ELSE left
    /\ pcb' = [p EXCEPT !.out = {}]
    /\ wire' \in IF p.state \in Over THEN {{}} ELSE Carry(wire, p.out, WireSize)

-----------------------------------------------------------------------------
(* Output                                                                  *)

Fits(p, seg, wnd) == seg.seq - p.lastack + seg.len \in 0 .. wnd

\* tcp_do_output_nagle
Nagle(p) ==
    \/ p.unacked = <<>> \/ p.infr
    \/ Len(p.unsent) > 1
    \/ p.unsent # <<>> /\ Head(p.unsent).len >= MSS

\* Mutant: a segment always goes to the tail of the queue.
InsertLast(queue, seg) == Append(queue, seg)

\* A queue of segments is kept in order.
Insert(queue, seg) ==
    InsertAt(queue, 1 + Cardinality({i \in 1 .. Len(queue) : queue[i].seq < seg.seq}), seg)

\* The loop of tcp_output sends the i-th unsent segment.
Goes(p, i) ==
    /\ Fits(p, p.unsent[i], Min2(p.wnd, p.cwnd))
    /\ Nagle([p EXCEPT !.unsent = SubSeq(@, i, Len(@)),
                       !.unacked = @ \o SubSeq(p.unsent, 1, i - 1)])
       \/ p.memerr \/ p.fin
Burst(p) == Max({k \in 0 .. Len(p.unsent) : \A i \in 1 .. k : Goes(p, i)})

\* Mutant: the timer of the probes only when the window is shut altogether.
PersistsIfShut(p, rest) == rest # <<>> /\ p.wnd = 0

Persists(p, rest) == rest # <<>> /\ ~Fits(p, Head(rest), p.wnd)

\* The unacked segments when the first k unsent ones have joined them.
Joined(p, k) ==
    LET queue[n \in 0 .. k] == IF n = 0 THEN p.unacked
                               ELSE Insert(queue[n - 1], p.unsent[n])
    IN  queue[k]

\* The first k unsent segments go, and the rest stay.
Send(p, k, rest) ==
    [p EXCEPT !.unsent = rest,
              !.unacked = Joined(p, k),
              !.nxt = Max({@} \cup {EndOf(p.unsent[i]) : i \in 1 .. k}),
              !.out = @ \cup {p.unsent[i] : i \in 1 .. k},
              !.running = @ \/ k > 0,
              !.acknow = @ /\ k = 0,
              !.memerr = FALSE,
              !.persist = @ \/ Persists(p, rest)]
SendFirst(p, k) == Send(p, k, SubSeq(p.unsent, k + 1, Len(p.unsent)))

\* tcp_output: called from within tcp_input it does nothing.
Output(p) ==
    IF p.input THEN p
    ELSE IF p.acknow /\ (p.unsent = <<>> \/ ~Fits(p, Head(p.unsent), Min2(p.wnd, p.cwnd)))
    THEN [p EXCEPT !.acknow = FALSE]
    ELSE SendFirst(p, Burst(p))

\* Mutant: a queue of that many pbufs takes one more.
CanEnqueueOneMore(p, len) == len <= p.buf /\ p.qlen <= QueueLen

CanEnqueue(p, len) == len <= p.buf /\ p.qlen < QueueLen

\* What is enqueued goes into the last unsent segment, if there is one that it
\* continues and fits into.
Chains(p, len) ==
    LET last == Last(p.unsent)
    IN  /\ p.unsent # <<>> /\ ~last.fin
        /\ last.len + len <= MSS
        /\ last.seq + last.len = p.lbb

Extended(seg, len, fin) ==
    [seg EXCEPT !.len = @ + len, !.fin = fin, !.pbufs = @ + (IF fin THEN 0 ELSE 1)]

Counted(p, len, fin) == IF fin /\ Chains(p, len) THEN 0 ELSE 1

\* tcp_enqueue, for data or for a FIN alone.
Enqueue(p, len, fin) ==
    LET tcplen == IF fin THEN 1 ELSE len
    IN  [p EXCEPT
          !.unsent = IF Chains(p, len)
                     THEN Append(Front(@), Extended(Last(@), len, fin))
                     ELSE Append(@, [seq |-> p.lbb, len |-> len, fin |-> fin, pbufs |-> 1]),
          !.fin = @ \/ fin,
          !.lbb = @ + tcplen,
          !.buf = (@ - tcplen) % 65536,
          !.qlen = @ + Counted(p, len, fin)]

\* do_writemore
NagleOutput(p) == IF Nagle(p) THEN Output(p) ELSE p
WriteUnits(p, len) ==
    IF len # 0 /\ ~CanEnqueue(p, len) THEN Output([p EXCEPT !.memerr = TRUE])
    ELSE NagleOutput([(IF len = 0 THEN p ELSE Enqueue(p, len, FALSE)) EXCEPT !.left = @ - len])
WriteMore(p) == WriteUnits(p, Min2(p.left, p.buf))

\* tcp_close
TcpClose(p) ==
    IF p.state \notin Writable THEN p
    ELSE IF ~CanEnqueue(p, 0) THEN [p EXCEPT !.memerr = TRUE]
    ELSE Output([Enqueue(p, 0, TRUE) EXCEPT
                    !.state = IF @ = "ESTABLISHED" THEN "FIN_WAIT_1" ELSE "LAST_ACK"])

\* do_close_internal
Pending(p) == [p EXCEPT !.closing = p.state \in Writable]
Close(p) == Pending(TcpClose(p))

-----------------------------------------------------------------------------
(* Input                                                                   *)

\* tcp_rexmit_fast.  nrtx may step over the limit that tcp_slowtmr looks for:
\* one above it stands for all.
FastRetransmit(p) ==
    IF p.unacked = <<>> \/ p.infr THEN p
    ELSE [p EXCEPT !.unacked = Tail(@), !.unsent = Insert(@, Head(p.unacked)),
                   !.nrtx = Min2(@ + 1, MaxRtx + 1),
                   !.cwnd = SndBuf, !.infr = TRUE]

Repeated(p) ==
    CASE p.dupacks = 3 -> FastRetransmit(p)
      [] p.dupacks > 3 -> [p EXCEPT !.cwnd = Min2(@ + MSS, SndBuf)]
      [] OTHER         -> p
Duplicate(p) == Repeated([p EXCEPT !.dupacks = Min2(@ + 1, 4)])

\* What is left of a queue when the segments that end at ack or before are
\* taken off its head.
Unacked(queue, ack) ==
    LET k == Max({k \in 0 .. Len(queue) : \A i \in 1 .. k : EndOf(queue[i]) <= ack})
    IN  SubSeq(queue, k + 1, Len(queue))

Pbufs(queue) == SumOf([i \in 1 .. Len(queue) |-> queue[i].pbufs])
HasFin(queue) == \E i \in 1 .. Len(queue) : queue[i].fin

\* The segments of both queues that ack covers are freed; that of the FIN is
\* not reported to the writer.
Account(p, before, after) ==
    [p EXCEPT !.qlen = @ - (Pbufs(before) - Pbufs(after)),
              !.acked = IF @ # 0 /\ HasFin(before) /\ ~HasFin(after) THEN @ - 1 ELSE @]
Free(p, unacked, unsent) ==
    Account([p EXCEPT !.unacked = unacked, !.unsent = unsent],
            p.unacked \o p.unsent, unacked \o unsent)

\* Mutant: every ACK brings its window with it, an old one too.
WindowUpdateAlways(p, m) ==
    [p EXCEPT !.wnd = m.wnd, !.wl1 = m.seq, !.wl2 = m.ack, !.persist = @ /\ m.wnd = 0]

\* tcp_receive, up to the round trip time.
WindowUpdate(p, m) ==
    IF \/ p.wl1 < m.seq
       \/ p.wl1 = m.seq /\ p.wl2 < m.ack
       \/ p.wl2 = m.ack /\ m.wnd > p.wnd
    THEN [p EXCEPT !.wnd = m.wnd, !.wl1 = m.seq, !.wl2 = m.ack,
                   !.persist = @ /\ m.wnd = 0]
    ELSE p

\* Mutant: what was acknowledged stops the timer, whatever is left.
RestartedNever(unacked) == FALSE

Restarted(unacked) == unacked # <<>>

NewAck(p, ack, unacked) ==
    [Free([p EXCEPT !.acked = ack - p.lastack], unacked, p.unsent) EXCEPT
        !.infr = FALSE, !.cwnd = Min2(@ + MSS, SndBuf),
        !.nrtx = 0, !.dupacks = 0,
        !.buf = (@ + ack - p.lastack) % 65536,
        !.lastack = ack,
        !.running = Restarted(unacked)]

\* tcp_receive, from edge, the right edge of the window before the update.
IsDuplicate(p, m, edge) ==
    ~m.fin /\ p.wl2 + p.wnd = edge /\ p.running /\ p.lastack = m.ack
AckUnacked(p, m, edge) ==
    CASE m.ack <= p.lastack ->
            IF IsDuplicate(p, m, edge) THEN Duplicate(p) ELSE [p EXCEPT !.dupacks = 0]
      [] m.ack \in p.lastack + 1 .. p.nxt -> NewAck(p, m.ack, Unacked(p.unacked, m.ack))
      [] OTHER -> p
AckUnsent(p, ack) ==
    IF ack <= p.nxt THEN Free(p, p.unacked, Unacked(p.unsent, ack)) ELSE p
ReceiveAck(p, m) ==
    AckUnsent(AckUnacked(WindowUpdate(p, m), m, p.wl2 + p.wnd), m.ack)

\* The rest of tcp_receive, for a peer that sends nothing but its FIN.  One
\* that came before is answered at once.
ReceiveFin(p, m) ==
    CASE m.fin /\ m.seq = p.rcv  -> [p EXCEPT !.rcv = 1, !.acknow = TRUE]
      [] m.fin /\ m.seq # p.rcv  -> [p EXCEPT !.acknow = FALSE]
      [] ~m.fin /\ m.seq < p.rcv -> [p EXCEPT !.acknow = TRUE]
      [] OTHER                   -> p

\* tcp_pcb_purge
Purge(p, state) ==
    [p EXCEPT !.state = state, !.unsent = <<>>, !.unacked = <<>>, !.running = FALSE]

\* Mutant: any ACK is taken for that of the FIN.
FinAckedByAny(p, m) == TRUE

\* That snd_nxt is acknowledged is taken for the FIN's being acknowledged,
\* which it need not be as long as something is unsent: `early' remembers that.
FinAcked(p, m) == m.ack = p.nxt

\* tcp_process, with the FIN got from the peer and all of ours acknowledged.
NewState(p, got, full) ==
    CASE p.state \in Writable /\ got -> [p EXCEPT !.state = "CLOSE_WAIT"]
      [] p.state = "FIN_WAIT_1" /\ got /\ full -> Purge(p, "TIME_WAIT")
      [] p.state = "FIN_WAIT_1" /\ got /\ ~full -> [p EXCEPT !.state = "CLOSING"]
      [] p.state = "FIN_WAIT_1" /\ ~got /\ full -> [p EXCEPT !.state = "FIN_WAIT_2"]
      [] p.state = "FIN_WAIT_2" /\ got -> Purge(p, "TIME_WAIT")
      [] p.state = "CLOSING" /\ full -> Purge(p, "TIME_WAIT")
      [] p.state = "LAST_ACK" /\ full -> Purge(p, "CLOSED")
      [] OTHER -> p
Advance(p, got, full) ==
    NewState([p EXCEPT !.early = @ \/ (full /\ p.state \in Closing /\ p.unsent # <<>>)],
             got, full)
Received(p, m, rcv) == Advance(p, p.rcv # rcv, FinAcked(p, m))
Process(p, m) == Received(ReceiveFin(ReceiveAck(p, m), m), m, p.rcv)

\* sent_tcp and, while the close is to be tried again, tcp_recv_null.
SentEvent(p) ==
    CASE p.acked > 0 /\ p.left > 0  -> WriteMore(p)
      [] p.acked > 0 /\ p.closing   -> Close(p)
      [] OTHER                      -> p
FinEvent(p, got) == IF got /\ p.closing THEN TcpClose(p) ELSE p

\* tcp_input
Events(p, got) == IF p.state \in Over THEN p ELSE FinEvent(SentEvent(p), got)
Return(p) == Output([p EXCEPT !.input = FALSE, !.acked = 0])
Indicate(p, rcv) == Return(Events(p, p.rcv # rcv))
Input(p, m) == Indicate(Process([p EXCEPT !.input = TRUE], m), p.rcv)

-----------------------------------------------------------------------------
(* The steps of the TCP/IP thread                                          *)

\* The server's send(), and its close() when all of the file is written.
TaskRuns == pcb.state \in Writable /\ pcb.left = 0 /\ ~pcb.closing
WriteDue == TaskRuns /\ pcb.lbb < Total
CloseDue == TaskRuns /\ pcb.lbb = Total

Write ==
    /\ WriteDue
    /\ Becomes(WriteMore([pcb EXCEPT !.left = Min2(WriteLen, Total - pcb.lbb)]), acks)

CloseConnection ==
    /\ CloseDue
    /\ Becomes(Close(pcb), acks)

Receive(m) ==
    /\ pcb.state \notin Over
    /\ Becomes(Input(pcb, m), acks \ {m})

\* A RST, or err_tcp after the last retransmission.
Abort(p) == [Purge(p, "aborted") EXCEPT !.left = 0, !.closing = FALSE]

Reset ==
    /\ pcb.state \notin Over
    /\ Becomes(Abort(pcb), acks)

\* tcp_rexmit_rto, with the reduced window.
RetransmitAll(p) ==
    Output([p EXCEPT !.unsent = p.unacked \o @, !.unacked = <<>>,
                     !.nrtx = Min2(@ + 1, MaxRtx + 1), !.cwnd = MSS])

\* tcp_zero_window_probe: one unit of the first segment, or its FIN.
Probe(p) ==
    LET queue == p.unacked \o p.unsent
        seg == Head(queue)
    IN  IF queue = <<>> THEN p
        ELSE [p EXCEPT !.out = @ \cup {[seq |-> seg.seq, len |-> Min2(seg.len, 1),
                                        fin |-> seg.len = 0, pbufs |-> 0]}]

\* poll_tcp
Poll(p) ==
    Output(CASE p.left > 0 -> WriteMore(p)
             [] p.closing  -> Close(p)
             [] OTHER      -> p)

RetransmissionDue ==
    pcb.state \notin Over /\ ~pcb.persist /\ pcb.running /\ pcb.unacked # <<>>
ProbeDue == pcb.state \notin Over /\ pcb.persist
PollDue == pcb.state \notin Over /\ Poll(pcb) # pcb

\* tcp_slowtmr, when one of its counters has reached its limit: that of a
\* timer, of the poll, or of the time since the peer was last heard of.  (Two
\* that reach theirs in the same tick do what they would in two.)
SlowTimer(due) ==
    /\ pcb.state \notin Over
    /\ \/ /\ pcb.nrtx = MaxRtx
          /\ Becomes(Abort(pcb), acks)
       \/ /\ pcb.nrtx # MaxRtx
          /\ CASE due = "persist" -> ProbeDue /\ Becomes(Probe(pcb), acks)
               [] due = "rtime"   -> RetransmissionDue /\ Becomes(RetransmitAll(pcb), acks)
               [] due = "poll"    -> Becomes(Poll(pcb), acks)
               [] due = "tmr"     -> \/ /\ pcb.state = "FIN_WAIT_2"
                                        /\ Becomes(Purge(pcb, "timed out"), acks)
                                     \/ /\ pcb.state = "LAST_ACK"
                                        /\ Becomes(Purge(pcb, "aborted"), acks)

-----------------------------------------------------------------------------
(* The client and the network                                              *)

Window(c) == Max2(0, c.read + PeerBuf - c.rcv)
Says(c, fin) == [seq |-> IF c.fin /\ ~fin THEN 1 ELSE 0, ack |-> c.rcv,
                 wnd |-> Window(c), fin |-> fin]
Answers(m) == acks' \in IF pcb.state \in Over THEN {{}} ELSE Carry(acks, {m}, AcksSize)

\* The client keeps what its window has room for, and answers.
ClientTakes(seg) ==
    /\ UNCHANGED pcb
    /\ wire' = wire \ {seg}
    /\ LET room == seg.seq + seg.len <= peer.read + PeerBuf
           taken == {n \in seg.seq .. EndOf(seg) - 1 :
                        \/ n < seg.seq + seg.len /\ n < peer.read + PeerBuf
                        \/ n = seg.seq + seg.len /\ room}
           all == peer.beyond \cup taken \cup 0 .. peer.rcv - 1
           rcv == CHOOSE n \in 0 .. Total + 1 : n \notin all /\ 0 .. n - 1 \subseteq all
           \* past the FIN there is nothing
           c == [peer EXCEPT !.rcv = IF 0 .. Total \subseteq all THEN Total + 1 ELSE rcv,
                             !.beyond = {n \in all : n > rcv}]
       IN  peer' = c /\ Answers(Says(c, FALSE))

\* The client reads all that is there.
ClientReads ==
    /\ peer.read < Min2(peer.rcv, Total)
    /\ UNCHANGED <<pcb, wire>>
    /\ LET c == [peer EXCEPT !.read = Min2(peer.rcv, Total)]
       IN  peer' = c /\ Answers(Says(c, FALSE))

\* The client may end its side at any time, and says so again when that got
\* lost, until it is heard.
ClientEnds ==
    /\ pcb.rcv = 0 /\ pcb.state \notin Over
    /\ \A m \in acks : ~m.fin
    /\ peer' = [peer EXCEPT !.fin = TRUE]
    /\ Answers(Says(peer, TRUE))
    /\ UNCHANGED <<pcb, wire>>

Lose ==
    \/ \E seg \in wire : wire' = wire \ {seg} /\ UNCHANGED <<pcb, peer, acks>>
    \/ \E m \in acks : acks' = acks \ {m} /\ UNCHANGED <<pcb, peer, wire>>

-----------------------------------------------------------------------------
Next ==
    \/ Write \/ CloseConnection \/ Reset
    \/ \E m \in acks : Receive(m)
    \/ \E due \in {"rtime", "persist", "poll", "tmr"} : SlowTimer(due)
    \/ \E seg \in wire : ClientTakes(seg)
    \/ ClientReads \/ ClientEnds \/ Lose

Spec == Init /\ [][Next]_vars

\* The latest word of the client, and the segments it has to have and those it
\* only answers.
Latest == {m \in acks : m.ack = peer.rcv /\ m.wnd = Window(peer)}
Expected == {seg \in wire : peer.rcv \in seg.seq .. EndOf(seg) - 1}
Others == wire \ Expected

\* The task and the timers go on, the client reads, and of what is sent again
\* and again some arrives.
FairSpec ==
    /\ Spec
    /\ WF_vars(ClientReads)
    /\ <>[]WriteDue => []<><<Write>>_vars
    /\ <>[]CloseDue => []<><<CloseConnection>>_vars
    /\ <>[]RetransmissionDue => []<><<SlowTimer("rtime")>>_vars
    /\ <>[]ProbeDue => []<><<SlowTimer("persist")>>_vars
    /\ <>[]PollDue => []<><<SlowTimer("poll")>>_vars
    /\ []<>(Latest # {} /\ pcb.state \notin Over)
         => []<><<\E m \in Latest : Receive(m)>>_vars
    /\ []<>(Expected # {}) => []<><<\E seg \in Expected : ClientTakes(seg)>>_vars
    /\ []<>(Others # {}) => []<><<\E seg \in Others : ClientTakes(seg)>>_vars

-----------------------------------------------------------------------------
(* Properties                                                              *)

Queued == pcb.unacked \o pcb.unsent

\* Until it is acknowledged each unit that was written, and the FIN, is in
\* exactly one segment of one queue, through fast retransmission, time-outs and
\* ACKs of half a segment (tcp_enqueue, tcp_output's insertion, tcp_rexmit,
\* tcp_rexmit_rto, tcp_receive).  And the counts follow: snd_queuelen the pbufs
\* of both queues, snd_buf what the writer may still write; an unacknowledged
\* FIN counts, too.  One behind the other the queues are in order: what is
\* retransmitted fast is on its way again at the end of the step, so that
\* tcp_rexmit_rto may put the unacked segments before the others.  Not when the
\* client has ended its side: see SentWithinWindow.
NothingForgotten ==
    pcb.state \notin Over =>
        /\ \A n \in pcb.lastack .. pcb.lbb - 1 :
              Cardinality({i \in 1 .. Len(Queued) :
                              n \in Queued[i].seq .. EndOf(Queued[i]) - 1}) = 1
        /\ ~peer.fin => \A i \in 1 .. Len(Queued) - 1 : EndOf(Queued[i]) <= Queued[i + 1].seq
        /\ pcb.qlen = Pbufs(Queued)
        /\ pcb.buf = (SndBuf - (pcb.lbb - pcb.lastack)) % 65536

\* What was sent and is not acknowledged has a timer that sends it again or
\* probes for it (rtime in tcp_receive and tcp_output_segment, persist_backoff).
RetransmissionRuns ==
    pcb.unacked # <<>> => pcb.running \/ pcb.persist

\* Nothing but a probe goes beyond the window the client has announced, however
\* its ACKs were lost and overtook each other (snd_wl1 and snd_wl2 in
\* tcp_receive).  Not when the client has ended its side: a FIN that is repeated
\* after ACKs that follow it brings an old sequence number with a new window.
SentWithinWindow ==
    ~peer.fin => \A seg \in wire : seg.pbufs > 0 => seg.seq + seg.len <= peer.read + PeerBuf

Written == Min2(pcb.lbb, Total)
Delivered == Min2(peer.rcv, Total)

Phase(p) ==
    CASE p.state \in Writable -> "open"
      [] p.state \in Closing -> "closing"
      [] p.state \in {"TIME_WAIT", "CLOSED", "timed out"} /\ ~p.early -> "closed"
      [] OTHER -> "broken"

Connection == INSTANCE Pipe WITH
    written <- Written, delivered <- Delivered, state <- Phase(pcb)

\* A connection is what Pipe promises a writer: after a close that went through
\* to its end the client has all of the file, unless snd_nxt was taken for
\* the FIN's number while something was unsent (FinAcked, tcp_process); and
\* nothing is taken from the writer when the close has begun.
ImplementsPipe == Connection!Spec

\* The client gets the whole file and its end, whatever is lost or overtaken on
\* the way, unless the connection is reset or given up after TCP_MAXRTX, or
\* FinAcked is wrong (tcp_slowtmr, tcp_zero_window_probe, poll_tcp, sent_tcp).
TransferEnds ==
    <>(pcb.state = "aborted" \/ pcb.early \/ peer.rcv = Total + 1)

\* tcp_close may leave data unsent, as "unsent data is sent from tcp timer
\* functions, also" (core/tcp.c:195): what a closed connection was given to
\* send has come to the client.
UnsentDataIsSent ==
    pcb.state \in {"TIME_WAIT", "CLOSED", "timed out"} => Delivered = Written
=============================================================================
