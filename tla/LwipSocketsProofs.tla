------------------------- MODULE LwipSocketsProofs -------------------------
(***************************************************************************)
(* No wake-up of lwip_select is lost, none comes for nothing, no event is  *)
(* lost, what select() reports can be read, and connections are streams,   *)
(* for any number of connections and any size of the mailboxes.            *)
(*                                                                         *)
(* The argument has three layers.                                          *)
(*                                                                         *)
(*   IInv: whoever adds a receive event looks for a waiting select()       *)
(*   afterwards (Ordered), and while the task holds selectsem no event is  *)
(*   added, so that what was true at its scan is true when it is listed.   *)
(*                                                                         *)
(*   AccInv, on top of it, keeps accounts: which netconn has which socket, *)
(*   which has none yet, and that the events counted and those that the    *)
(*   thread is still to count (Owed) are the messages of the mailbox.      *)
(*                                                                         *)
(*   FlowInv, on top of both, follows the messages of a connection from    *)
(*   the segment to recv(): the mailbox holds what follows the last one    *)
(*   read, then comes what is under way, then what is still to be sent,    *)
(*   and an end is behind all of them.  It holds as long as no refused     *)
(*   data was posted twice (`twice'), and so does the refinement; the      *)
(*   other two layers do not depend on that.                               *)
(*                                                                         *)
(* HandInv, proved with the first layer, is that the socket in the task's  *)
(* hands and the netconn in them belong together.                          *)
(***************************************************************************)
EXTENDS LwipSockets, SequenceElements, FiniteSetTheorems, TLAPS

\* Where the task is while it has no socket in hand.
Selecting == {"serve", "select", "scan", "list", "sleep", "unlist", "unlink", "rescan"}
Working == {"fetch", "minus", "less", "taken", "ended", "peer", "alloc", "slot", "accept",
            "hand over", "receive", "copy", "delete", "free", "close", "closed", "asked"}
Answered == {"peer", "copy", "delete", "alloc", "free"}

SelectHeld == {"scan", "list", "unlink", "less"}
SocketHeld == {"slot", "hand over", "closed"}

\* What a pc leads to when the thread has answered, or already is.
Going(pc) == ftp.pc = pc \/ (ftp.pc = "asked" /\ ftp.then = pc)

SocketTypes ==
    /\ conn \in [Indices -> Netconns \cup {None}] /\ conn[0] = Listener
    /\ rcvevent \in [Indices -> Int]
    /\ socket \in [Netconns -> Int]
    /\ \A c \in Netconns : socket[c] < 0 \/ socket[c] \in Indices
    /\ mbox \in [Netconns -> Seq(Int \cup Conns)] /\ mbox[Listener] \in Seq(Conns)
    /\ sent \in [Conns -> Int] /\ refused \in [Conns -> Int]
    /\ api \in {None} \cup [fn : {"ask", "delete"}, c : Netconns]
    /\ scb \in [listed : BOOLEAN, signalled : BOOLEAN, sem : BOOLEAN]

TaskTypes ==
    /\ ftp \in [pc : Selecting \cup Working, then : Answered \cup {None}, i : Indices,
                c : Netconns \cup {None}, some : BOOLEAN, m : Int \cup Netconns \cup {None}]
    /\ ready \subseteq Indices
    /\ \A i \in ready : conn[i] # None
    /\ held = (IF ftp.pc \in SelectHeld THEN {"selectsem"}
               ELSE IF ftp.pc \in SocketHeld THEN {"socksem"} ELSE {})

\* What the task has in its hands.
TaskInv ==
    /\ ftp.pc \in Working => ftp.c \in Netconns /\ ftp.i \notin ready
    /\ ftp.pc = "asked" => ftp.then \in Answered
    /\ ftp.pc = "fetch" /\ ftp.i = 0 => ftp.c = Listener
    /\ Going("peer") \/ Going("alloc") \/ ftp.pc = "slot" => ftp.i = 0
    /\ ftp.pc = "receive" \/ Going("copy") => ftp.i # 0
    /\ ftp.pc \in {"ended", "close", "closed"} => ftp.i # 0
    /\ ftp.pc \in {"minus", "less", "taken"} \/ Going("peer") => (ftp.i = 0 => ftp.m \in Conns)

\* The thread has one question of the task at a time.
NoAnswer(s) == \A o \in ToSet(s) : o.op # "done"
AnswerInv ==
    /\ ftp.pc # "asked" => api = None /\ closing = {} /\ NoAnswer(todo)
    /\ api # None => closing = {} /\ NoAnswer(todo)
    /\ closing # {} => NoAnswer(todo)
    /\ \A c, d \in closing : c = d

\* What the thread has still to do: events come first, or behind what nested
\* timers do, each of them is followed by its scan, an answer is last.
Event(o) == o.op \in {"add", "scan"}
Early(o) == o.op \in {"add", "scan", "count", "rearm"}
NoEvents(s) == \A o \in ToSet(s) : ~Event(o)
EarlyOnly(s) == \A o \in ToSet(s) : Early(o)

Fitting(o) ==
    /\ o.op \in {"add", "count"} => o.x >= 0
    /\ o.op \in {"deliver", "post", "clear", "rearm"} => o.c \in Conns

Ordered(s) ==
    /\ s \in Seq(Ops)
    /\ \A o \in ToSet(s) : Fitting(o)
    /\ \A k \in 1 .. Len(s) :
          /\ Event(s[k]) => \A j \in 1 .. k : Early(s[j])
          /\ s[k].op = "add" => k + 1 \in 1 .. Len(s) /\ s[k + 1] = Op("scan", s[k].c, 0)
          /\ s[k].op = "done" => k = Len(s)

\* An event is for a socket that is open.
Placed(c) == socket[c] \in Indices /\ conn[socket[c]] # None
EventsPlaced(s) == \A o \in ToSet(s) : Event(o) => Placed(o.c)

\* A scan to come will find something.
WillSignal == \E o \in ToSet(todo) : o.op = "scan" /\ rcvevent[socket[o.c]] > 0

SleepInv ==
    /\ ftp.pc = "list" => Readable = {}
    /\ ftp.pc = "sleep" =>
          /\ scb.listed /\ scb.signalled = scb.sem
          /\ scb.sem => Readable # {}
          /\ Readable # {} => scb.sem \/ WillSignal

IInv == SocketTypes /\ TaskTypes /\ TaskInv /\ AnswerInv /\ Ordered(todo) /\ EventsPlaced(todo)
        /\ SleepInv

\* Sockets and netconns belong together, and the task has a pair of them.
HandInv ==
    /\ \A c \in Netconns : socket[c] < 0 \/ conn[socket[c]] = c
    /\ ftp.pc \in Working /\ ftp.i # 0 => conn[ftp.i] = ftp.c
    /\ ftp.pc \in {"accept", "hand over"} => ftp.i # 0
    /\ ftp.pc \in {"close", "closed"} => socket[ftp.c] < 0

-----------------------------------------------------------------------------
(* Sequences of things to do                                               *)

LEMMA OrderedEmpty == Ordered(<<>>) /\ ToSet(<<>>) = {}
  BY EmptyElements DEF Ordered

\* What is done leaves the rest in order.
LEMMA OrderedTail ==
    ASSUME NEW s, Ordered(s), s # <<>>
    PROVE  /\ Ordered(Tail(s)) /\ ToSet(s) = {Head(s)} \cup ToSet(Tail(s))
           /\ Head(s) \in Ops /\ Fitting(Head(s))
           /\ Head(s).op = "done" => Tail(s) = <<>>
           /\ ~Early(Head(s)) => NoEvents(s)
           /\ Head(s).op = "add" => Op("scan", Head(s).c, 0) \in ToSet(Tail(s))
  <1>1. PICK n \in Nat : n = Len(s)
    BY DEF Ordered
  <1>2. /\ s \in Seq(Ops) /\ n # 0 /\ Head(s) = s[1] /\ Head(s) \in Ops
        /\ Tail(s) \in Seq(Ops) /\ Len(Tail(s)) = n - 1
        /\ \A k \in 1 .. n - 1 : Tail(s)[k] = s[k + 1]
    BY <1>1, EmptySeq, HeadTailProperties DEF Ordered
  <1>3. DOMAIN s = 1 .. n /\ DOMAIN Tail(s) = 1 .. n - 1
    BY <1>1, <1>2
  <1>4. \A k \in 1 .. n - 1 : k + 1 \in 1 .. n
    BY <1>2
  <1>5. ASSUME NEW k \in 1 .. n
        PROVE  s[k] = Head(s) \/ s[k] \in ToSet(Tail(s))
    <2>1. CASE k = 1
      BY <1>2, <2>1
    <2>2. CASE k # 1
      <3>1. PICK l \in 1 .. n - 1 : l + 1 = k
        <4>1. k - 1 \in 1 .. n - 1 /\ (k - 1) + 1 = k
          BY <2>2
        <4> QED
          BY <4>1
      <3> QED
        BY <1>2, <1>3, <3>1 DEF ToSet
    <2> QED
      BY <2>1, <2>2
  <1>6. ToSet(s) = {Head(s)} \cup ToSet(Tail(s))
    <2>1. 1 \in 1 .. n
      BY <1>2
    <2> QED
      BY <1>2, <1>3, <1>4, <1>5, <2>1 DEF ToSet
  <1>7. ASSUME NEW k \in 1 .. n - 1
        PROVE  /\ Event(Tail(s)[k]) => \A j \in 1 .. k : Early(Tail(s)[j])
               /\ Tail(s)[k].op = "add" =>
                     k + 1 \in 1 .. n - 1 /\ Tail(s)[k + 1] = Op("scan", Tail(s)[k].c, 0)
               /\ Tail(s)[k].op = "done" => k = n - 1
    <2>1. PICK l \in 1 .. n : l = k + 1 /\ Tail(s)[k] = s[l]
      BY <1>2, <1>4
    <2>2. /\ Event(s[l]) => \A j \in 1 .. l : Early(s[j])
          /\ s[l].op = "add" => l + 1 \in 1 .. n /\ s[l + 1] = Op("scan", s[l].c, 0)
          /\ s[l].op = "done" => l = n
      BY <1>1 DEF Ordered
    <2>3. Event(Tail(s)[k]) => \A j \in 1 .. k : Early(Tail(s)[j])
      <3>1. \A j \in 1 .. k : j \in 1 .. n - 1 /\ j + 1 \in 1 .. l
        BY <2>1
      <3> QED
        BY <1>2, <2>1, <2>2, <3>1
    <2>4. ASSUME Tail(s)[k].op = "add"
          PROVE  k + 1 \in 1 .. n - 1 /\ Tail(s)[k + 1] = Op("scan", Tail(s)[k].c, 0)
      <3>1. l + 1 \in 1 .. n /\ s[l + 1] = Op("scan", s[l].c, 0)
        BY <2>1, <2>2, <2>4
      <3>2. PICK m \in 1 .. n - 1 : m = k + 1 /\ m + 1 = l + 1
        BY <2>1, <3>1
      <3>3. Tail(s)[m] = s[l + 1]
        BY <1>2, <3>2
      <3> QED
        BY <2>1, <3>1, <3>2, <3>3
    <2>5. Tail(s)[k].op = "done" => k = n - 1
      <3>1. l = n => k = n - 1
        BY <2>1
      <3> QED
        BY <2>1, <2>2, <3>1
    <2> QED
      BY <2>3, <2>4, <2>5
  <1>8. Ordered(Tail(s))
    BY <1>2, <1>6, <1>7 DEF Ordered
  <1>9. Head(s).op = "done" => Tail(s) = <<>>
    <2>1. 1 \in 1 .. n /\ (Head(s).op = "done" => 1 = n)
      BY <1>1, <1>2 DEF Ordered
    <2> QED
      BY <1>2, <2>1, EmptySeq
  <1>10. ~Early(Head(s)) => NoEvents(s)
    <2>1. \A k \in 1 .. n : 1 \in 1 .. k /\ (Event(s[k]) => \A j \in 1 .. k : Early(s[j]))
      BY <1>1 DEF Ordered
    <2> QED
      BY <1>2, <1>3, <2>1 DEF NoEvents, ToSet
  <1>11. Head(s).op = "add" => Op("scan", Head(s).c, 0) \in ToSet(Tail(s))
    <2> SUFFICES ASSUME Head(s).op = "add" PROVE Op("scan", Head(s).c, 0) \in ToSet(Tail(s))
      OBVIOUS
    <2>1. 1 \in 1 .. n /\ 1 + 1 \in 1 .. n /\ s[1 + 1] = Op("scan", Head(s).c, 0)
      <3>1. 1 \in 1 .. n
        BY <1>2
      <3> QED
        BY <1>1, <1>2, <3>1 DEF Ordered
    <2>2. 1 \in 1 .. n - 1
      BY <2>1
    <2> QED
      BY <1>2, <1>3, <2>1, <2>2 DEF ToSet
  <1>12. Fitting(Head(s))
    BY <1>6 DEF Ordered
  <1> QED
    BY <1>2, <1>6, <1>8, <1>9, <1>10, <1>11, <1>12

\* Two in a row, when the first has no answer and events come behind nothing else.
LEMMA OrderedConcat ==
    ASSUME NEW s, NEW t, Ordered(s), Ordered(t), NoAnswer(s), EarlyOnly(s) \/ NoEvents(t)
    PROVE  Ordered(s \o t) /\ ToSet(s \o t) = ToSet(s) \cup ToSet(t)
  <1> DEFINE r == s \o t
  <1>1. PICK m \in Nat, n \in Nat : m = Len(s) /\ n = Len(t)
    BY DEF Ordered
  <1>2. /\ r \in Seq(Ops) /\ Len(r) = m + n
        /\ \A k \in 1 .. m + n : r[k] = IF k <= m THEN s[k] ELSE t[k - m]
    BY <1>1, ConcatProperties DEF Ordered
  <1>3. ToSet(r) = ToSet(s) \cup ToSet(t)
    BY ConcatElements DEF Ordered
  <1> HIDE DEF r
  <1>4. DOMAIN s = 1 .. m /\ DOMAIN t = 1 .. n
    BY <1>1 DEF Ordered
  <1>5. ASSUME NEW k \in 1 .. m
        PROVE  k \in 1 .. m + n /\ r[k] = s[k] /\ s[k] \in ToSet(s)
    <2>1. k \in 1 .. m + n /\ r[k] = s[k]
      BY <1>2
    <2>2. s[k] \in ToSet(s)
      BY <1>4 DEF ToSet
    <2> QED
      BY <2>1, <2>2
  <1>6. ASSUME NEW k \in 1 .. n, NEW l, l = k + m
        PROVE  l \in 1 .. m + n /\ r[l] = t[k] /\ t[k] \in ToSet(t)
    <2>1. l \in 1 .. m + n /\ ~(l <= m) /\ l - m = k
      BY <1>6
    <2>2. r[l] = t[l - m]
      BY <1>2, <2>1
    <2>3. t[k] \in ToSet(t)
      BY <1>4 DEF ToSet
    <2> QED
      BY <2>1, <2>2, <2>3
  <1>7. ASSUME NEW k \in 1 .. m
        PROVE  /\ Event(r[k]) => \A j \in 1 .. k : Early(r[j])
               /\ r[k].op = "add" => k + 1 \in 1 .. m + n /\ r[k + 1] = Op("scan", r[k].c, 0)
               /\ r[k].op # "done"
    <2>1. /\ Event(s[k]) => \A j \in 1 .. k : Early(s[j])
          /\ s[k].op = "add" => k + 1 \in 1 .. m /\ s[k + 1] = Op("scan", s[k].c, 0)
          /\ s[k].op # "done"
      BY <1>1, <1>5 DEF Ordered, NoAnswer
    <2>2. \A j \in 1 .. k : j \in 1 .. m
      OBVIOUS
    <2> QED
      BY <1>5, <2>1, <2>2
  <1>8. ASSUME NEW l \in 1 .. n, NEW k \in 1 .. m + n, k = l + m
        PROVE  /\ Event(r[k]) => \A j \in 1 .. k : Early(r[j])
               /\ r[k].op = "add" => k + 1 \in 1 .. m + n /\ r[k + 1] = Op("scan", r[k].c, 0)
               /\ r[k].op = "done" => k = m + n
    <2>1. /\ Event(t[l]) => \A j \in 1 .. l : Early(t[j])
          /\ t[l].op = "add" => l + 1 \in 1 .. n /\ t[l + 1] = Op("scan", t[l].c, 0)
          /\ t[l].op = "done" => l = n
      BY <1>1 DEF Ordered
    <2>2. r[k] = t[l] /\ t[l] \in ToSet(t)
      BY <1>6, <1>8
    <2>3. ASSUME Event(r[k]), NEW j \in 1 .. k
          PROVE  Early(r[j])
      <3>1. EarlyOnly(s)
        BY <2>2, <2>3 DEF NoEvents
      <3>2. CASE j \in 1 .. m
        BY <1>5, <3>1, <3>2 DEF EarlyOnly
      <3>3. CASE j \notin 1 .. m
        <4>1. PICK i \in 1 .. l : i + m = j
          <5>1. j - m \in 1 .. l /\ (j - m) + m = j
            BY <1>8, <3>3
          <5> QED
            BY <5>1
        <4>2. i \in 1 .. n
          BY <4>1
        <4> QED
          BY <1>6, <2>1, <2>2, <2>3, <4>1, <4>2
      <3> QED
        BY <3>2, <3>3
    <2>4. ASSUME r[k].op = "add"
          PROVE  k + 1 \in 1 .. m + n /\ r[k + 1] = Op("scan", r[k].c, 0)
      <3>1. PICK i \in 1 .. n : i = l + 1 /\ t[i] = Op("scan", t[l].c, 0)
        BY <2>1, <2>2, <2>4
      <3>2. i + m = k + 1
        BY <1>8, <3>1
      <3> QED
        BY <1>6, <2>2, <3>1, <3>2
    <2>5. r[k].op = "done" => k = m + n
      BY <1>8, <2>1, <2>2
    <2> QED
      BY <2>3, <2>4, <2>5
  <1>9. \A k \in 1 .. m + n : k \in 1 .. m \/ \E l \in 1 .. n : k = l + m
    <2> TAKE k \in 1 .. m + n
    <2>1. CASE k <= m
      BY <2>1
    <2>2. CASE ~(k <= m)
      <3>1. k - m \in 1 .. n /\ k = (k - m) + m
        BY <2>2
      <3> QED
        BY <3>1
    <2> QED
      BY <2>1, <2>2
  <1>10. \A k \in 1 .. m + n :
            /\ Event(r[k]) => \A j \in 1 .. k : Early(r[j])
            /\ r[k].op = "add" => k + 1 \in 1 .. m + n /\ r[k + 1] = Op("scan", r[k].c, 0)
            /\ r[k].op = "done" => k = m + n
    BY <1>7, <1>8, <1>9
  <1>11. \A o \in ToSet(r) : Fitting(o)
    BY <1>3 DEF Ordered
  <1> QED
    BY <1>2, <1>3, <1>10, <1>11 DEF Ordered, r

LEMMA OrderedOne ==
    ASSUME NEW o \in Ops, Fitting(o), ~Event(o)
    PROVE  Ordered(<<o>>) /\ ToSet(<<o>>) = {o}
  <1>1. <<o>> \in Seq(Ops) /\ ToSet(<<o>>) = {o}
    BY SingleElements
  <1>2. Len(<<o>>) = 1 /\ <<o>>[1] = o
    OBVIOUS
  <1>3. \A k \in 1 .. 1 : k = 1
    OBVIOUS
  <1> QED
    BY <1>1, <1>2, <1>3 DEF Ordered, Event

\* What an event makes the thread do.
LEMMA EventOrdered ==
    ASSUME SocketTypes, NEW c \in Netconns, NEW x \in Int, x >= 0
    PROVE  /\ Ordered(Callback(c, x)) /\ Ordered(ApiEvent(c, x))
           /\ NoAnswer(Callback(c, x)) /\ NoAnswer(ApiEvent(c, x))
           /\ EarlyOnly(Callback(c, x)) /\ EarlyOnly(ApiEvent(c, x))
           /\ socket[c] >= 0 => EventsPlaced(Callback(c, x))
           /\ EventsPlaced(ApiEvent(c, x))
           /\ \A o \in ToSet(ApiEvent(c, x)) : o.c = c
  <1> DEFINE a == Op("add", c, x)  s == Op("scan", c, 0)  n == Op("count", c, x)
  <1>1. /\ {a, s, n} \subseteq Ops
        /\ a.op = "add" /\ s.op = "scan" /\ n.op = "count"
        /\ a.c = c /\ s.c = c /\ a.x = x /\ n.x = x
    BY DEF Op, Ops
  <1>2. Ordered(<<n>>) /\ ToSet(<<n>>) = {n}
    <2>1. Fitting(n) /\ ~Event(n)
      BY <1>1 DEF Fitting, Event
    <2> QED
      BY <1>1, <2>1, OrderedOne
  <1>3. Ordered(<<a, s>>) /\ ToSet(<<a, s>>) = {a, s}
    <2>1. <<a, s>> \in Seq(Ops) /\ ToSet(<<a, s>>) = {a, s}
      <3>1. a \in Ops /\ s \in Ops
        BY <1>1
      <3> HIDE DEF a, s
      <3> QED
        BY <3>1, SingleElements
    <2>2. Len(<<a, s>>) = 2 /\ <<a, s>>[1] = a /\ <<a, s>>[2] = s /\ s = Op("scan", a.c, 0)
      BY <1>1
    <2>3. Fitting(a) /\ Fitting(s) /\ Early(a) /\ Early(s)
      BY <1>1 DEF Fitting, Early
    <2>4. \A k \in 1 .. 2 : k = 1 \/ k = 2
      OBVIOUS
    <2> HIDE DEF a, s
    <2>5. \A k \in 1 .. 2 :
             /\ Early(<<a, s>>[k])
             /\ <<a, s>>[k].op = "add" =>
                   k + 1 \in 1 .. 2 /\ <<a, s>>[k + 1] = Op("scan", <<a, s>>[k].c, 0)
             /\ <<a, s>>[k].op # "done"
      BY <1>1, <2>2, <2>3, <2>4
    <2>6. \A k \in 1 .. 2 : \A j \in 1 .. k : j \in 1 .. 2
      OBVIOUS
    <2> QED
      BY <2>1, <2>2, <2>3, <2>5, <2>6 DEF Ordered
  <1> HIDE DEF a, s, n
  <1>4. Callback(c, x) = (IF conn[socket[c]] = None THEN <<>> ELSE <<a, s>>)
    BY DEF Callback, a, s
  <1>5. ApiEvent(c, x) = (IF socket[c] < 0 THEN <<n>> ELSE Callback(c, x))
    BY DEF ApiEvent, n
  <1>6. socket[c] \in Int /\ (socket[c] < 0 \/ socket[c] \in Indices)
    BY DEF SocketTypes
  <1>7. /\ Ordered(Callback(c, x)) /\ NoAnswer(Callback(c, x)) /\ EarlyOnly(Callback(c, x))
        /\ socket[c] >= 0 => EventsPlaced(Callback(c, x))
        /\ \A o \in ToSet(Callback(c, x)) : o.c = c
    BY <1>1, <1>3, <1>4, <1>6, OrderedEmpty
    DEF NoAnswer, EarlyOnly, Early, EventsPlaced, Placed
  <1>8. Ordered(<<n>>) /\ NoAnswer(<<n>>) /\ EarlyOnly(<<n>>) /\ EventsPlaced(<<n>>)
        /\ \A o \in ToSet(<<n>>) : o.c = c
    <2>1. \A o \in ToSet(<<n>>) : o.op = "count" /\ o.c = c
      <3>1. ToSet(<<n>>) = {n}
        BY <1>2
      <3>2. n.op = "count" /\ n.c = c
        BY <1>1 DEF n, Op
      <3> QED
        BY <3>1, <3>2, Zenon
    <2> QED
      BY <1>2, <2>1 DEF NoAnswer, EarlyOnly, Early, Event, EventsPlaced
  <1>9. CASE socket[c] < 0
    <2>1. ApiEvent(c, x) = <<n>>
      BY <1>5, <1>9
    <2> QED
      BY <1>6, <1>7, <1>8, <1>9, <2>1
  <1>10. CASE ~(socket[c] < 0)
    <2>1. ApiEvent(c, x) = Callback(c, x) /\ socket[c] >= 0
      BY <1>5, <1>6, <1>10
    <2> QED
      BY <1>7, <1>10, <2>1
  <1> QED
    BY <1>9, <1>10

LEMMA PlacedConcat ==
    ASSUME NEW s, NEW t, Ordered(s), Ordered(t), NoAnswer(s), EarlyOnly(s) \/ NoEvents(t),
           EventsPlaced(s), EventsPlaced(t)
    PROVE  Ordered(s \o t) /\ EventsPlaced(s \o t)
  BY OrderedConcat DEF EventsPlaced

\* Anything else alone.
LEMMA OneOrdered ==
    ASSUME NEW op \in {"deliver", "post", "clear", "rearm", "done"}, NEW c \in Netconns, NEW x \in Int,
           op # "done" => c \in Conns
    PROVE  LET s == <<Op(op, c, x)>>
           IN  /\ Ordered(s) /\ ToSet(s) = {Op(op, c, x)}
               /\ NoEvents(s) /\ EventsPlaced(s)
               /\ op # "done" => NoAnswer(s)
  <1> DEFINE o == Op(op, c, x)
  <1>1. o \in Ops /\ o.op = op /\ o.c = c
    BY DEF Op, Ops
  <1>2. Fitting(o) /\ ~Event(o)
    BY <1>1 DEF Fitting, Event
  <1> HIDE DEF o
  <1>3. Ordered(<<o>>) /\ ToSet(<<o>>) = {o}
    BY <1>1, <1>2, OrderedOne
  <1>4. NoEvents(<<o>>) /\ EventsPlaced(<<o>>) /\ (op # "done" => NoAnswer(<<o>>))
    BY <1>1, <1>2, <1>3 DEF NoEvents, EventsPlaced, NoAnswer
  <1> QED
    BY <1>3, <1>4 DEF o

\* do_close_internal and do_delconn: two events, then the answer.
LEMMA CloseOrdered ==
    ASSUME SocketTypes, NEW c \in Netconns
    PROVE  LET s == ApiEvent(c, 1) \o ApiEvent(c, 0) \o <<Op("done", c, 0)>>
           IN  Ordered(s) /\ EventsPlaced(s)
  <1> DEFINE a == ApiEvent(c, 1)  b == ApiEvent(c, 0)  d == <<Op("done", c, 0)>>
  <1>1. /\ Ordered(a) /\ NoAnswer(a) /\ EventsPlaced(a)
        /\ Ordered(b) /\ NoAnswer(b) /\ EventsPlaced(b)
        /\ EarlyOnly(a)
    BY EventOrdered
  <1>2. Ordered(d) /\ NoEvents(d) /\ EventsPlaced(d)
    BY OneOrdered
  <1> HIDE DEF a, b, d
  <1>3. Ordered(a \o b) /\ EventsPlaced(a \o b) /\ NoAnswer(a \o b)
    BY <1>1, OrderedConcat, PlacedConcat DEF NoAnswer
  <1>4. Ordered((a \o b) \o d) /\ EventsPlaced((a \o b) \o d)
    BY <1>2, <1>3, PlacedConcat
  <1> QED
    BY <1>4 DEF a, b, d

\* err_tcp: an event, the end, and the answer if the task waits for a close.
LEMMA ResetOrdered ==
    ASSUME SocketTypes, NEW c \in Conns, NEW last,
           last = <<>> \/ last = <<Op("done", c, 0)>>
    PROVE  LET s == ApiEvent(c, 1) \o <<Op("post", c, End)>> \o last
           IN  /\ Ordered(s) /\ EventsPlaced(s)
               /\ last = <<>> => NoAnswer(s)
  <1> DEFINE a == ApiEvent(c, 1)  b == <<Op("post", c, End)>>
  <1>0. c \in Netconns /\ End \in Int
    BY DEF Netconns, End
  <1>1. Ordered(a) /\ NoAnswer(a) /\ EventsPlaced(a)
    BY <1>0, EventOrdered
  <1>2. Ordered(b) /\ NoEvents(b) /\ EventsPlaced(b) /\ NoAnswer(b)
    BY <1>0, OneOrdered
  <1>3. Ordered(last) /\ NoEvents(last) /\ EventsPlaced(last) /\ (last = <<>> => ToSet(last) = {})
    BY <1>0, OneOrdered, OrderedEmpty DEF NoEvents, EventsPlaced
  <1> HIDE DEF a, b
  <1>4. Ordered(a \o b) /\ EventsPlaced(a \o b) /\ NoAnswer(a \o b)
    BY <1>1, <1>2, OrderedConcat, PlacedConcat DEF NoAnswer
  <1>5. /\ Ordered((a \o b) \o last) /\ EventsPlaced((a \o b) \o last)
        /\ last = <<>> => NoAnswer((a \o b) \o last)
    BY <1>3, <1>4, OrderedConcat, PlacedConcat DEF NoAnswer
  <1> QED
    BY <1>5 DEF a, b

-----------------------------------------------------------------------------
(* The invariant                                                           *)

\* While the task runs and holds nothing, no event is on its way.
LEMMA WaitingShape ==
    ASSUME Ordered(todo), Waits, held = {}
    PROVE  NoEvents(todo)
  <1>1. CASE Idle
    BY <1>1, OrderedEmpty DEF Idle, NoEvents
  <1>2. CASE First("post")
    <2>1. todo # <<>> /\ ~Early(Head(todo))
      BY <1>2 DEF First, Early
    <2> QED
      BY <2>1, OrderedTail
  <1> QED
    BY <1>1, <1>2 DEF Waits

LEMMA InitInvariant == Init => IInv
  <1> SUFFICES ASSUME Init PROVE IInv
    OBVIOUS
  <1>1. 0 \in Indices /\ Listener \in Netconns /\ None \notin Netconns /\ Conns \subseteq Netconns
    <2>1. Cardinality(Conns) \in Nat
      BY SocketsAssumption, FS_CardinalityType
    <2> QED
      BY <2>1, SocketsAssumption DEF Indices, Netconns
  <1>2. SocketTypes
    <2>1. mbox \in [Netconns -> Seq(Int \cup Conns)] /\ mbox[Listener] \in Seq(Conns)
      BY <1>1 DEF Init
    <2> QED
      BY <1>1, <2>1 DEF Init, SocketTypes
  <1>3. TaskTypes /\ TaskInv /\ SleepInv
    BY <1>1 DEF Init, Start, TaskTypes, TaskInv, SleepInv, Going, Selecting, Working, SelectHeld,
                SocketHeld, Answered
  <1>4. AnswerInv /\ Ordered(todo) /\ EventsPlaced(todo)
    BY OrderedEmpty DEF Init, AnswerInv, NoAnswer, EventsPlaced
  <1> QED
    BY <1>2, <1>3, <1>4 DEF IInv

\* Steps of the thread leave the task where it is.
LEMMA TaskUnmoved ==
    ASSUME IInv, UNCHANGED <<conn, held, ftp, ready>>
    PROVE  TaskTypes' /\ TaskInv'
  <1>1. TaskTypes'
    BY DEF IInv, TaskTypes
  <1>2. TaskInv'
    BY DEF IInv, TaskInv, Going
  <1> QED
    BY <1>1, <1>2

\* As long as the scans to come are kept, with their sockets, they will signal.
LEMMA SignalKept ==
    ASSUME UNCHANGED rcvevent, WillSignal,
           \A o \in ToSet(todo) : o.op = "scan" => o \in ToSet(todo') /\ socket'[o.c] = socket[o.c]
    PROVE  WillSignal'
  <1>1. PICK o \in ToSet(todo) : o.op = "scan" /\ rcvevent[socket[o.c]] > 0
    BY DEF WillSignal
  <1>2. o \in ToSet(todo') /\ rcvevent'[socket'[o.c]] > 0
    BY <1>1
  <1> QED
    BY <1>1, <1>2 DEF WillSignal

LEMMA SleepUndisturbed ==
    ASSUME SleepInv, WillSignal => WillSignal', UNCHANGED <<conn, rcvevent, lastdata, scb>>,
           ftp'.pc = ftp.pc \/ ftp'.pc \notin {"list", "sleep"}
    PROVE  SleepInv'
  <1>1. Readable' = Readable
    BY DEF Readable
  <1> QED
    BY <1>1 DEF SleepInv

\* Where no events are about, none will signal.
LEMMA NothingSignals ==
    ASSUME NoEvents(todo)
    PROVE  ~WillSignal
  BY DEF WillSignal, NoEvents, Event

LEMMA ConnNetconn == Conns \subseteq Netconns /\ Listener \in Netconns /\ End \in Int
  BY DEF Netconns, End

LEMMA IndicesType == Indices \subseteq Int /\ 0 \in Indices
  <1>1. Cardinality(Conns) \in Nat
    BY SocketsAssumption, FS_CardinalityType
  <1> QED
    BY <1>1 DEF Indices

LEMMA NoNegativeIndex == \A i \in Indices : ~(i < 0)
  <1>1. Cardinality(Conns) \in Nat
    BY SocketsAssumption, FS_CardinalityType
  <1> QED
    BY <1>1 DEF Indices

\* Refused data is told of before anything else.
LEMMA OfferInvariant ==
    ASSUME IInv, NEW c \in Conns, NEW then \in {"clear", "rearm"}, Offer(c, then),
           then = "rearm" \/ NoEvents(todo)
    PROVE  IInv'
  <1>1. UNCHANGED <<conn, rcvevent, lastdata, socket, held, ftp, ready, scb, api, sent, closing>>
    BY DEF Offer, sockets, task
  <1>2. TaskTypes' /\ TaskInv'
    BY <1>1, TaskUnmoved
  <1>3. SocketTypes /\ AnswerInv /\ c \in Netconns /\ c # Listener /\ Ordered(todo) /\ EventsPlaced(todo)
    BY ConnNetconn, SocketsAssumption DEF IInv
  <1>4. CASE refused' = [refused EXCEPT ![c] = 0] /\ UNCHANGED <<mbox, todo>>
    <2>1. SocketTypes'
      BY <1>1, <1>3, <1>4 DEF SocketTypes
    <2>2. AnswerInv' /\ Ordered(todo)' /\ EventsPlaced(todo)'
      BY <1>1, <1>3, <1>4 DEF AnswerInv, EventsPlaced, Placed
    <2>3. SleepInv'
      BY <1>1, <1>4, SignalKept, SleepUndisturbed DEF IInv
    <2> QED
      BY <1>2, <2>1, <2>2, <2>3 DEF IInv
  <1>5. CASE /\ mbox' = [mbox EXCEPT ![c] = Append(@, refused[c])]
             /\ todo' = ApiEvent(c, 1) \o <<Op(then, c, 0)>> \o todo
             /\ UNCHANGED refused
    <2> DEFINE a == ApiEvent(c, 1)  b == <<Op(then, c, 0)>>
    <2>1. Ordered(a) /\ NoAnswer(a) /\ EventsPlaced(a) /\ EarlyOnly(a)
      BY <1>3, EventOrdered
    <2>2. Ordered(b) /\ NoEvents(b) /\ EventsPlaced(b) /\ NoAnswer(b) /\ ToSet(b) = {Op(then, c, 0)}
      BY <1>3, OneOrdered
    <2>3. then = "rearm" => EarlyOnly(b)
      BY <2>2 DEF EarlyOnly, Early, Op
    <2> HIDE DEF a, b
    <2>4. /\ Ordered(a \o b) /\ EventsPlaced(a \o b) /\ NoAnswer(a \o b)
          /\ then = "rearm" => EarlyOnly(a \o b)
      BY <2>1, <2>2, <2>3, OrderedConcat, PlacedConcat DEF NoAnswer, EarlyOnly
    <2>5. todo' = (a \o b) \o todo
      BY <1>5 DEF a, b
    <2>6. Ordered(todo') /\ EventsPlaced(todo') /\ ToSet(todo') = ToSet(a \o b) \cup ToSet(todo)
      BY <1>3, <2>4, <2>5, OrderedConcat, PlacedConcat
    <2>7. Ordered(todo)' /\ EventsPlaced(todo)'
      BY <1>1, <2>6 DEF EventsPlaced, Placed
    <2>8. AnswerInv'
      <3>1. NoAnswer(todo) => NoAnswer(todo')
        BY <2>4, <2>6 DEF NoAnswer
      <3> QED
        BY <1>1, <1>3, <3>1 DEF AnswerInv
    <2>9. SleepInv'
      BY <1>1, <2>6, SignalKept, SleepUndisturbed DEF IInv
    <2>10. SocketTypes'
      <3>1. mbox[c] \in Seq(Int \cup Conns) /\ refused[c] \in Int \cup Conns
        BY <1>3 DEF SocketTypes
      <3>2. Append(mbox[c], refused[c]) \in Seq(Int \cup Conns)
        BY <3>1
      <3>3. mbox' \in [Netconns -> Seq(Int \cup Conns)] /\ mbox'[Listener] \in Seq(Conns)
        BY <1>3, <1>5, <3>2, ConnNetconn DEF SocketTypes
      <3> QED
        BY <1>1, <1>3, <1>5, <3>3 DEF SocketTypes
    <2> QED
      BY <1>2, <2>7, <2>8, <2>9, <2>10 DEF IInv
  <1> QED
    BY <1>4, <1>5 DEF Offer

LEMMA NetworkInvariant ==
    ASSUME IInv, Network
    PROVE  IInv'
  <1>0. PICK c \in Conns :
           \/ Connected(c) \/ LastAck(c) \/ Reset(c) \/ CloseAgain(c)
           \/ OfferAgain(c) \/ NestedOffer(c)
           \/ \E data, end \in BOOLEAN : Segment(c, data, end)
    BY DEF Network
  <1>11. CASE OfferAgain(c) \/ NestedOffer(c)
    <2>1. PICK then \in {"clear", "rearm"} : Offer(c, then) /\ (then = "rearm" \/ Idle)
      BY <1>11 DEF OfferAgain, NestedOffer
    <2>2. then = "rearm" \/ NoEvents(todo)
      BY <2>1, OrderedEmpty DEF Idle, NoEvents
    <2> QED
      BY <2>1, <2>2, OfferInvariant
  <1> SUFFICES ASSUME \/ Connected(c) \/ LastAck(c) \/ Reset(c) \/ CloseAgain(c)
                      \/ \E data, end \in BOOLEAN : Segment(c, data, end)
               PROVE  IInv'
    BY <1>0, <1>11
  <1>2. /\ todo = <<>> /\ api = None
        /\ UNCHANGED <<conn, rcvevent, lastdata, held, ftp, ready, scb, api>>
    BY DEF Connected, LastAck, Reset, CloseAgain, CloseDone, Segment, Idle, sockets, netconns,
           ghosts, tcpip, task
  <1>3. TaskTypes' /\ TaskInv'
    BY <1>2, TaskUnmoved
  <1>4. SleepInv'
    <2>1. NoEvents(todo)
      BY <1>2, OrderedEmpty DEF NoEvents
    <2> QED
      BY <1>2, <2>1, NothingSignals, SleepUndisturbed DEF IInv
  <1>5. SocketTypes /\ AnswerInv /\ c \in Netconns /\ Listener \in Netconns /\ End \in Int
    BY ConnNetconn DEF IInv
  <1>6. ASSUME Connected(c)
        PROVE  SocketTypes' /\ AnswerInv' /\ Ordered(todo)' /\ EventsPlaced(todo)'
    <2>1. /\ c # Listener
          /\ Ordered(todo') /\ NoAnswer(todo') /\ EventsPlaced(todo')
          /\ \A o \in ToSet(todo') : o.c = Listener
      BY <1>5, <1>6, EventOrdered, SocketsAssumption DEF Connected
    <2>2. socket' = [socket EXCEPT ![c] = -1] /\ mbox' = [mbox EXCEPT ![Listener] = Append(@, c)]
          /\ UNCHANGED <<closing, refused, sent>>
      BY <1>6 DEF Connected, ghosts
    <2>3. SocketTypes'
      <3>1. mbox' \in [Netconns -> Seq(Int \cup Conns)] /\ mbox'[Listener] \in Seq(Conns)
        BY <1>5, <2>2 DEF SocketTypes
      <3>2. socket' \in [Netconns -> Int] /\ \A d \in Netconns : socket'[d] < 0 \/ socket'[d] \in Indices
        BY <1>5, <2>2 DEF SocketTypes
      <3> QED
        BY <1>2, <1>5, <2>2, <3>1, <3>2 DEF SocketTypes
    <2>4. AnswerInv'
      BY <1>2, <1>5, <2>1, <2>2 DEF AnswerInv
    <2>5. \A o \in ToSet(todo') : Event(o) => socket'[o.c] = socket[o.c]
      BY <1>5, <2>1, <2>2 DEF SocketTypes
    <2>6. EventsPlaced(todo)'
      BY <1>2, <2>1, <2>5 DEF EventsPlaced, Placed
    <2> QED
      BY <2>1, <2>3, <2>4, <2>6
  <1>7. ASSUME UNCHANGED <<socket, mbox>>, Ordered(todo'), EventsPlaced(todo'),
               refused' \in [Conns -> Int], sent' \in [Conns -> Int]
        PROVE  SocketTypes' /\ Ordered(todo)' /\ EventsPlaced(todo)'
    BY <1>2, <1>5, <1>7 DEF SocketTypes, EventsPlaced, Placed
  <1>8. CASE Connected(c)
    BY <1>3, <1>4, <1>6, <1>8 DEF IInv
  <1>9. CASE LastAck(c)
    <2>1. UNCHANGED <<socket, mbox, refused, sent, closing, todo>>
      BY <1>9 DEF LastAck, ghosts, tcpip
    <2>2. SocketTypes' /\ Ordered(todo)' /\ EventsPlaced(todo)'
      BY <1>5, <1>7, <2>1 DEF IInv, SocketTypes
    <2>3. AnswerInv'
      BY <1>2, <1>5, <2>1 DEF AnswerInv
    <2> QED
      BY <1>3, <1>4, <2>2, <2>3 DEF IInv
  <1>10. CASE Reset(c)
    <2> DEFINE last == IF c \in closing THEN <<Op("done", c, 0)>> ELSE <<>>
    <2>1. /\ UNCHANGED <<socket, mbox, sent>> /\ closing' = closing \ {c}
          /\ todo' = ApiEvent(c, 1) \o <<Op("post", c, End)>> \o last
          /\ refused' = [refused EXCEPT ![c] = 0]
      BY <1>10 DEF Reset, ghosts
    <2>2. last = <<>> \/ last = <<Op("done", c, 0)>>
      OBVIOUS
    <2>3. c \in closing \/ last = <<>>
      OBVIOUS
    <2> HIDE DEF last
    <2>4. Ordered(todo') /\ EventsPlaced(todo') /\ (last = <<>> => NoAnswer(todo'))
      BY <1>5, <2>1, <2>2, ResetOrdered
    <2>5. AnswerInv'
      BY <1>2, <1>5, <2>1, <2>3, <2>4 DEF AnswerInv
    <2>6. SocketTypes' /\ Ordered(todo)' /\ EventsPlaced(todo)'
      BY <1>5, <1>7, <2>1, <2>4 DEF SocketTypes
    <2> QED
      BY <1>3, <1>4, <2>5, <2>6 DEF IInv
  <1>12. CASE CloseAgain(c)
    <2>1. /\ UNCHANGED <<socket, mbox, sent>> /\ c \in closing /\ closing' = closing \ {c}
          /\ todo' = ApiEvent(c, 1) \o ApiEvent(c, 0) \o <<Op("done", c, 0)>>
          /\ refused' = [refused EXCEPT ![c] = 0]
      BY <1>12 DEF CloseAgain, CloseDone, ghosts
    <2>2. Ordered(todo') /\ EventsPlaced(todo')
      BY <1>5, <2>1, CloseOrdered
    <2>3. AnswerInv'
      BY <1>2, <1>5, <2>1 DEF AnswerInv
    <2>4. SocketTypes' /\ Ordered(todo)' /\ EventsPlaced(todo)'
      BY <1>5, <1>7, <2>1, <2>2 DEF SocketTypes
    <2> QED
      BY <1>3, <1>4, <2>3, <2>4 DEF IInv
  <1>13. CASE \E data, end \in BOOLEAN : Segment(c, data, end)
    <2>1. PICK data \in BOOLEAN, end \in BOOLEAN : Segment(c, data, end)
      BY <1>13
    <2> DEFINE a == IF data THEN <<Op("deliver", c, sent[c] + 1)>> ELSE <<>>
               b == IF end THEN <<Op("deliver", c, End)>> ELSE <<>>
    <2>2. /\ UNCHANGED <<socket, mbox, refused, closing>>
          /\ todo' = a \o b \/ todo' = todo
          /\ sent' = [sent EXCEPT ![c] = IF data THEN @ + 1 ELSE @]
      BY <2>1 DEF Segment
    <2>3. sent[c] + 1 \in Int /\ sent' \in [Conns -> Int]
      BY <1>5, <2>2 DEF SocketTypes
    <2>4. Ordered(a) /\ NoEvents(a) /\ EventsPlaced(a) /\ NoAnswer(a)
      BY <1>5, <2>3, OneOrdered, OrderedEmpty DEF EventsPlaced, NoAnswer, NoEvents
    <2>5. Ordered(b) /\ NoEvents(b) /\ EventsPlaced(b) /\ NoAnswer(b)
      BY <1>5, OneOrdered, OrderedEmpty DEF EventsPlaced, NoAnswer, NoEvents
    <2> HIDE DEF a, b
    <2>6. Ordered(a \o b) /\ EventsPlaced(a \o b) /\ NoAnswer(a \o b)
      BY <2>4, <2>5, OrderedConcat, PlacedConcat DEF NoAnswer
    <2>7. Ordered(todo) /\ EventsPlaced(todo) /\ NoAnswer(todo)
      BY <1>2, OrderedEmpty DEF EventsPlaced, NoAnswer
    <2>8. Ordered(todo') /\ EventsPlaced(todo') /\ NoAnswer(todo')
      BY <2>2, <2>6, <2>7
    <2>9. AnswerInv'
      BY <1>2, <1>5, <2>2, <2>8 DEF AnswerInv
    <2>10. SocketTypes' /\ Ordered(todo)' /\ EventsPlaced(todo)'
      BY <1>5, <1>7, <2>2, <2>3, <2>8 DEF SocketTypes
    <2> QED
      BY <1>3, <1>4, <2>9, <2>10 DEF IInv
  <1> QED
    BY <1>8, <1>9, <1>10, <1>12, <1>13

\* The thread takes the message of the task.
LEMMA ApiCallInvariant ==
    ASSUME IInv, ApiCall
    PROVE  IInv'
  <1> DEFINE c == api.c
  <1>1. /\ todo = <<>> /\ api # None /\ api' = None
        /\ UNCHANGED <<conn, rcvevent, lastdata, held, ftp, ready, scb, sent, socket, mbox>>
    BY DEF ApiCall, CloseDone, CloseFailed, sockets, netconns, ghosts, task
  <1>2. SocketTypes /\ AnswerInv /\ c \in Netconns /\ ftp.pc = "asked" /\ closing = {}
    BY <1>1 DEF IInv, SocketTypes, AnswerInv
  <1>3. TaskTypes' /\ TaskInv'
    BY <1>1, TaskUnmoved
  <1>4. SleepInv'
    <2>1. NoEvents(todo)
      BY <1>1, OrderedEmpty DEF NoEvents
    <2> QED
      BY <1>1, <2>1, NothingSignals, SleepUndisturbed DEF IInv
  <1>5. \/ /\ todo' = <<Op("done", c, 0)>>
           /\ UNCHANGED <<refused, closing>>
        \/ /\ todo' = ApiEvent(c, 1) \o ApiEvent(c, 0) \o <<Op("done", c, 0)>>
           /\ refused' = [refused EXCEPT ![c] = 0] \/ refused' = refused
           /\ closing' = closing \ {c} \/ closing' = closing
        \/ /\ todo' = <<>> /\ closing' = closing \cup {c}
           /\ refused' = refused
    BY DEF ApiCall, CloseDone, CloseFailed, netconns
  <1>6. Ordered(todo') /\ EventsPlaced(todo')
    <2>1. Ordered(<<>>) /\ EventsPlaced(<<>>)
      BY OrderedEmpty DEF EventsPlaced
    <2>2. Ordered(<<Op("done", c, 0)>>) /\ EventsPlaced(<<Op("done", c, 0)>>)
      BY <1>2, OneOrdered
    <2>3. LET s == ApiEvent(c, 1) \o ApiEvent(c, 0) \o <<Op("done", c, 0)>>
          IN  Ordered(s) /\ EventsPlaced(s)
      BY <1>2, CloseOrdered
    <2> QED
      BY <1>5, <2>1, <2>2, <2>3
  <1>7. refused' \in [Conns -> Int]
    BY <1>2, <1>5 DEF SocketTypes
  <1>8. SocketTypes' /\ EventsPlaced(todo)'
    BY <1>1, <1>2, <1>6, <1>7 DEF SocketTypes, EventsPlaced, Placed
  <1>9. AnswerInv'
    <2>1. closing' \subseteq {c} /\ (closing' # {} => todo' = <<>>)
      BY <1>2, <1>5
    <2>2. NoAnswer(<<>>)
      BY OrderedEmpty DEF NoAnswer
    <2> QED
      BY <1>1, <1>2, <2>1, <2>2 DEF AnswerInv
  <1> QED
    BY <1>3, <1>4, <1>6, <1>8, <1>9 DEF IInv

\* What the head of todo is, and what is left when it is done.
LEMMA ThreadRest ==
    ASSUME IInv, todo # <<>>
    PROVE  /\ Head(todo) \in Ops /\ C \in Netconns /\ X \in Int
           /\ Ordered(Tail(todo)) /\ EventsPlaced(Tail(todo))
           /\ ToSet(todo) = {Head(todo)} \cup ToSet(Tail(todo))
           /\ ~Early(Head(todo)) => NoEvents(todo) /\ NoEvents(Tail(todo))
           /\ Head(todo).op \in {"add", "count"} => X >= 0
           /\ Head(todo).op \in {"deliver", "post", "clear", "rearm"} => C \in Conns
  BY OrderedTail DEF IInv, Ops, C, X, Fitting, EventsPlaced, NoEvents

\* recv_tcp, sys_mbox_post, event_callback up to its first lock and what clears
\* refused data: they leave the sockets alone.
LEMMA PreparingInvariant ==
    ASSUME IInv, Deliver \/ Post \/ Count \/ Clear
    PROVE  IInv'
  <1>1. /\ todo # <<>> /\ Head(todo).op \in {"deliver", "post", "count", "clear", "rearm"}
        /\ UNCHANGED <<conn, rcvevent, lastdata, held, ftp, ready, scb, sent, closing, api>>
    BY DEF Deliver, Post, Count, Clear, First, sockets, ghosts, task
  <1>2. /\ Ordered(Tail(todo)) /\ EventsPlaced(Tail(todo)) /\ C \in Netconns /\ X \in Int
        /\ ToSet(todo) = {Head(todo)} \cup ToSet(Tail(todo))
    BY <1>1, ThreadRest
  <1>3. SocketTypes /\ AnswerInv /\ Ordered(todo)
    BY DEF IInv
  <1>4. TaskTypes' /\ TaskInv'
    BY <1>1, TaskUnmoved
  <1>6. \/ /\ todo' = Tail(todo)
           /\ \A d \in Netconns : socket'[d] = socket[d] \/ socket[d] < 0
           /\ \A d \in Netconns : socket'[d] = socket[d] \/ socket'[d] < 0
        \/ /\ todo' = ApiEvent(C, 1) \o Tail(todo)
           /\ socket' = socket
        \/ /\ todo' = Callback(C, X) \o Tail(todo) /\ X >= 0 /\ socket[C] >= 0
           /\ socket' = socket
    <2>1. CASE Deliver \/ Post \/ Clear
      BY <2>1 DEF Deliver, Post, Clear
    <2>2. CASE Count
      <3>1. X >= 0 /\ Head(todo).op = "count"
        BY <1>1, <2>2, ThreadRest DEF Count, First
      <3>2. CASE socket[C] < 0 /\ socket' = [socket EXCEPT ![C] = @ - X] /\ todo' = Tail(todo)
        BY <1>2, <1>3, <3>1, <3>2 DEF SocketTypes
      <3> QED
        BY <2>2, <3>1, <3>2 DEF Count
    <2> QED
      BY <2>1, <2>2
  <1>7. SocketTypes'
    <2>1. CASE Deliver
      <3>1. C \in Conns /\ socket' = socket
        BY <2>1, ThreadRest DEF Deliver, First
      <3>2. \/ mbox' = [mbox EXCEPT ![C] = Append(@, X)]
            \/ mbox' = mbox
        BY <2>1 DEF Deliver
      <3>3. refused' = refused \/ refused' = [refused EXCEPT ![C] = X]
        BY <2>1 DEF Deliver
      <3>4. C # Listener
        BY <3>1, SocketsAssumption
      <3>5. mbox' \in [Netconns -> Seq(Int \cup Conns)] /\ mbox'[Listener] \in Seq(Conns)
        <4>1. mbox[C] \in Seq(Int \cup Conns) /\ X \in Int \cup Conns
          BY <1>2, <1>3 DEF SocketTypes
        <4>2. Append(mbox[C], X) \in Seq(Int \cup Conns)
          BY <4>1
        <4> QED
          BY <1>2, <1>3, <3>2, <3>4, <4>2, ConnNetconn DEF SocketTypes
      <3>6. refused' \in [Conns -> Int]
        BY <1>2, <1>3, <3>3 DEF SocketTypes
      <3> QED
        BY <1>1, <1>3, <3>1, <3>5, <3>6 DEF SocketTypes
    <2>2. CASE Post
      <3>1. C \in Conns /\ UNCHANGED <<socket, refused>>
        BY <2>2, ThreadRest DEF Post, First
      <3>2. mbox' = [mbox EXCEPT ![C] = Append(@, End)]
        BY <2>2 DEF Post
      <3>3. C # Listener
        BY <3>1, SocketsAssumption
      <3>4. mbox' \in [Netconns -> Seq(Int \cup Conns)] /\ mbox'[Listener] \in Seq(Conns)
        BY <1>2, <1>3, <3>2, <3>3, ConnNetconn DEF SocketTypes
      <3> QED
        BY <1>1, <1>3, <3>1, <3>4 DEF SocketTypes
    <2>3. CASE Count
      <3>1. UNCHANGED <<mbox, refused>>
        BY <2>3 DEF Count
      <3>2. socket' = [socket EXCEPT ![C] = @ - X] \/ socket' = socket
        BY <2>3 DEF Count
      <3>3. socket' \in [Netconns -> Int]
        BY <1>2, <1>3, <3>2 DEF SocketTypes
      <3>4. \A d \in Netconns : socket'[d] < 0 \/ socket'[d] \in Indices
        BY <1>3, <1>6 DEF SocketTypes
      <3> QED
        BY <1>1, <1>3, <3>1, <3>3, <3>4 DEF SocketTypes
    <2>4. CASE Clear
      <3>1. C \in Conns /\ UNCHANGED <<socket, mbox>>
        BY <2>4, ThreadRest DEF Clear, First
      <3>2. refused' \in [Conns -> Int]
        BY <1>3, <2>4, <3>1 DEF Clear, SocketTypes
      <3> QED
        BY <1>1, <1>3, <3>1, <3>2 DEF SocketTypes
    <2> QED
      BY <2>1, <2>2, <2>3, <2>4
  <1>8. CASE /\ todo' = Tail(todo)
             /\ \A d \in Netconns : socket'[d] = socket[d] \/ socket[d] < 0
    <2>1. \A o \in ToSet(Tail(todo)) : Event(o) => Placed(o.c) /\ socket'[o.c] = socket[o.c]
      <3> SUFFICES ASSUME NEW o \in ToSet(Tail(todo)), Event(o)
                   PROVE  Placed(o.c) /\ socket'[o.c] = socket[o.c]
        OBVIOUS
      <3>1. Placed(o.c) /\ o.c \in Netconns
        <4>1. Tail(todo) \in Seq(Ops)
          BY <1>2 DEF Ordered
        <4>2. o \in Ops
          BY <4>1, ElementsInSet
        <4> QED
          BY <1>2, <4>2 DEF EventsPlaced, Ops
      <3>2. socket[o.c] \in Indices /\ ~(socket[o.c] < 0)
        BY <3>1, NoNegativeIndex DEF Placed
      <3> QED
        BY <1>8, <3>1, <3>2
    <2>3. Ordered(todo)' /\ EventsPlaced(todo)'
      BY <1>1, <1>2, <1>8, <2>1 DEF EventsPlaced, Placed
    <2>4. SleepInv'
      <3>1. \A o \in ToSet(todo) : o.op = "scan" => o \in ToSet(todo') /\ socket'[o.c] = socket[o.c]
        BY <1>1, <1>2, <1>8, <2>1 DEF Event
      <3> QED
        BY <1>1, <3>1, SignalKept, SleepUndisturbed DEF IInv
    <2>2. AnswerInv'
      BY <1>1, <1>2, <1>3, <1>8 DEF AnswerInv, NoAnswer
    <2> QED
      BY <1>4, <1>7, <2>2, <2>3, <2>4 DEF IInv
  <1>9. ASSUME NEW a, todo' = a \o Tail(todo), socket' = socket,
               Ordered(a), NoAnswer(a), EventsPlaced(a), EarlyOnly(a)
        PROVE  IInv'
    <2>1. Ordered(todo') /\ EventsPlaced(todo') /\ ToSet(todo') = ToSet(a) \cup ToSet(Tail(todo))
      BY <1>2, <1>9, OrderedConcat, PlacedConcat
    <2>2. Ordered(todo)' /\ EventsPlaced(todo)'
      BY <1>1, <1>9, <2>1 DEF EventsPlaced, Placed
    <2>3. NoAnswer(todo) => NoAnswer(todo')
      BY <1>2, <1>9, <2>1 DEF NoAnswer
    <2>4. AnswerInv'
      BY <1>1, <1>3, <2>3 DEF AnswerInv
    <2>5. SleepInv'
      <3>1. \A o \in ToSet(todo) : o.op = "scan" => o \in ToSet(todo')
        BY <1>1, <1>2, <2>1
      <3> QED
        BY <1>1, <1>9, <3>1, SignalKept, SleepUndisturbed DEF IInv
    <2> QED
      BY <1>4, <1>7, <2>2, <2>4, <2>5 DEF IInv
  <1>10. CASE todo' = ApiEvent(C, 1) \o Tail(todo) /\ socket' = socket
    <2>1. 1 \in Int /\ 1 >= 0
      OBVIOUS
    <2>2. /\ Ordered(ApiEvent(C, 1)) /\ NoAnswer(ApiEvent(C, 1)) /\ EventsPlaced(ApiEvent(C, 1))
          /\ EarlyOnly(ApiEvent(C, 1))
      BY <1>2, <1>3, <2>1, EventOrdered
    <2> QED
      BY <1>9, <1>10, <2>2
  <1>11. CASE /\ todo' = Callback(C, X) \o Tail(todo) /\ X >= 0 /\ socket[C] >= 0
              /\ socket' = socket
    BY <1>2, <1>3, <1>9, <1>11, EventOrdered
  <1> QED
    BY <1>6, <1>8, <1>10, <1>11

\* An event is added and looked for: the heart of it.
LEMMA SignallingInvariant ==
    ASSUME IInv, Add \/ Scan
    PROVE  IInv'
  <1>1. /\ todo # <<>> /\ todo' = Tail(todo) /\ "selectsem" \notin held
        /\ Head(todo).op \in {"add", "scan"} /\ Event(Head(todo))
        /\ UNCHANGED <<conn, lastdata, socket, mbox, refused, sent, closing, api, held, ftp, ready>>
    BY DEF Add, Scan, First, Event, sockets, netconns, ghosts, task
  <1>2. /\ Ordered(Tail(todo)) /\ EventsPlaced(Tail(todo)) /\ C \in Netconns /\ X \in Int
        /\ ToSet(todo) = {Head(todo)} \cup ToSet(Tail(todo))
        /\ Head(todo).op = "add" => X >= 0
    BY <1>1, ThreadRest
  <1>3. SocketTypes /\ AnswerInv /\ Ordered(todo) /\ EventsPlaced(todo) /\ SleepInv
    BY DEF IInv
  <1>4. TaskTypes' /\ TaskInv'
    BY <1>1, TaskUnmoved
  <1>5. socket[C] \in Indices /\ conn[socket[C]] # None
    BY <1>1, <1>2, <1>3 DEF EventsPlaced, Placed, C
  <1>6. Ordered(todo)' /\ EventsPlaced(todo)' /\ AnswerInv'
    BY <1>1, <1>2, <1>3 DEF EventsPlaced, Placed, AnswerInv, NoAnswer
  <1>7. ftp.pc # "list"
    BY <1>1 DEF IInv, TaskTypes, SelectHeld
  <1>8. CASE Add
    <2>1. UNCHANGED scb /\ rcvevent' = [rcvevent EXCEPT ![socket[C]] = @ + X]
          /\ X >= 0 /\ Head(todo).op = "add"
      BY <1>1, <1>2, <1>8 DEF Add, First, task
    <2>2. /\ rcvevent' \in [Indices -> Int]
          /\ \A i \in Indices : rcvevent'[i] >= rcvevent[i]
          /\ \A i \in Indices : rcvevent'[i] # rcvevent[i] => i = socket[C]
      BY <1>2, <1>3, <1>5, <2>1 DEF SocketTypes
    <2>3. SocketTypes'
      BY <1>1, <1>3, <2>1, <2>2 DEF SocketTypes
    <2>4. Readable \subseteq Readable'
      BY <1>1, <1>3, <2>2 DEF Readable, SocketTypes
    <2>5. WillSignal => WillSignal'
      <3> SUFFICES ASSUME WillSignal PROVE WillSignal'
        OBVIOUS
      <3>1. PICK o \in ToSet(todo) : o.op = "scan" /\ rcvevent[socket[o.c]] > 0
        BY DEF WillSignal
      <3>2. o \in ToSet(todo') /\ socket[o.c] \in Indices
        BY <1>1, <1>2, <1>3, <2>1, <3>1 DEF EventsPlaced, Placed, Event
      <3>3. rcvevent'[socket[o.c]] > 0
        BY <1>3, <2>2, <3>1, <3>2 DEF SocketTypes
      <3> QED
        BY <1>1, <3>1, <3>2, <3>3 DEF WillSignal
    <2>6. Readable' # {} => Readable # {} \/ WillSignal'
      <3> SUFFICES ASSUME NEW i \in Readable', Readable = {} PROVE WillSignal'
        OBVIOUS
      <3>1. i \in Indices /\ i = socket[C] /\ rcvevent'[i] > 0
        <4>1. i \in Indices /\ i \notin Readable /\ conn[i] # None /\ ~lastdata[i] /\ rcvevent'[i] > 0
          BY <1>1 DEF Readable
        <4> QED
          BY <2>2, <4>1 DEF Readable
      <3>2. Op("scan", C, 0) \in ToSet(todo')
        BY <1>1, <1>3, <2>1, OrderedTail DEF C
      <3>3. Op("scan", C, 0).op = "scan" /\ Op("scan", C, 0).c = C
        BY DEF Op
      <3> QED
        BY <1>1, <3>1, <3>2, <3>3 DEF WillSignal
    <2>7. SleepInv'
      BY <1>1, <1>3, <1>7, <2>1, <2>4, <2>5, <2>6 DEF SleepInv
    <2> QED
      BY <1>4, <1>6, <2>3, <2>7 DEF IInv
  <1>9. CASE Scan
    <2>1. /\ Head(todo).op = "scan" /\ UNCHANGED rcvevent
          /\ scb' = IF scb.listed /\ ~scb.signalled /\ rcvevent[socket[C]] > 0
                    THEN [scb EXCEPT !.signalled = TRUE, !.sem = TRUE] ELSE scb
      BY <1>9 DEF Scan, First, sockets
    <2>2. SocketTypes'
      BY <1>1, <1>3, <2>1 DEF SocketTypes
    <2>3. Readable' = Readable
      BY <1>1, <2>1 DEF Readable
    <2>4. ASSUME ftp.pc = "sleep"
          PROVE  /\ scb'.listed /\ scb'.signalled = scb'.sem
                 /\ scb'.sem => Readable # {}
                 /\ Readable # {} => scb'.sem \/ WillSignal'
      <3>1. CASE ~scb.signalled /\ rcvevent[socket[C]] > 0
        <4>1. scb'.listed /\ scb'.signalled /\ scb'.sem
          BY <1>3, <2>1, <2>4, <3>1 DEF SleepInv, SocketTypes
        <4>2. socket[C] \in Readable
          BY <1>5, <3>1 DEF Readable
        <4> QED
          BY <4>1, <4>2
      <3>2. CASE ~(~scb.signalled /\ rcvevent[socket[C]] > 0)
        <4>1. scb' = scb
          BY <2>1, <3>2
        <4>2. WillSignal /\ ~scb.signalled => WillSignal'
          <5> SUFFICES ASSUME WillSignal, ~scb.signalled PROVE WillSignal'
            OBVIOUS
          <5>1. PICK o \in ToSet(todo) : o.op = "scan" /\ rcvevent[socket[o.c]] > 0
            BY DEF WillSignal
          <5>2. o # Head(todo)
            BY <3>2, <5>1 DEF C
          <5> QED
            BY <1>1, <1>2, <2>1, <5>1, <5>2 DEF WillSignal
        <4> QED
          BY <1>3, <2>4, <4>1, <4>2 DEF SleepInv
      <3> QED
        BY <3>1, <3>2
    <2>5. SleepInv'
      BY <1>1, <1>7, <2>3, <2>4 DEF SleepInv
    <2> QED
      BY <1>4, <1>6, <2>2, <2>5 DEF IInv
  <1> QED
    BY <1>8, <1>9

\* The task goes on; no other answer was on its way.
LEMMA DoneInvariant ==
    ASSUME IInv, Done
    PROVE  IInv'
  <1>1. /\ todo # <<>> /\ Head(todo).op = "done" /\ todo' = Tail(todo)
        /\ ftp' = [ftp EXCEPT !.pc = ftp.then, !.then = None]
        /\ UNCHANGED <<conn, rcvevent, lastdata, socket, mbox, refused, sent, closing, api, held,
                       scb, ready>>
    BY DEF Done, First, sockets, netconns, ghosts
  <1>2. todo' = <<>> /\ Head(todo) \in ToSet(todo) /\ NoEvents(todo)
    BY <1>1, OrderedTail DEF IInv, Early
  <1>3. ftp.pc = "asked" /\ api = None /\ closing = {}
    BY <1>1, <1>2 DEF IInv, AnswerInv, NoAnswer
  <1>4. ftp.then \in Answered /\ held = {}
    BY <1>3 DEF IInv, TaskTypes, TaskInv, SelectHeld, SocketHeld
  <1>5. /\ ftp'.pc = ftp.then /\ ftp'.then = None
        /\ UNCHANGED <<ftp.i, ftp.c, ftp.some, ftp.m>>
    BY <1>1 DEF IInv, TaskTypes
  <1>6. TaskTypes'
    <2>1. ftp' \in [pc : Selecting \cup Working, then : Answered \cup {None}, i : Indices,
                    c : Netconns \cup {None}, some : BOOLEAN, m : Int \cup Netconns \cup {None}]
      BY <1>1, <1>4 DEF IInv, TaskTypes, Answered, Working
    <2>2. ftp'.pc \notin SelectHeld \cup SocketHeld
      BY <1>4, <1>5 DEF Answered, SelectHeld, SocketHeld
    <2> QED
      BY <1>1, <1>4, <2>1, <2>2 DEF IInv, TaskTypes
  <1>7. TaskInv'
    <2>1. ftp'.pc \in Answered /\ ftp.pc \in Working
      BY <1>3, <1>4, <1>5 DEF Working
    <2>2. ftp.c \in Netconns /\ ftp.i \notin ready
      BY <2>1 DEF IInv, TaskInv
    <2>3. \A pc \in {"peer", "alloc", "copy"} : Going(pc)' => Going(pc)
      BY <1>3, <1>4, <1>5 DEF Going, Answered
    <2> QED
      BY <1>1, <1>5, <2>1, <2>2, <2>3 DEF IInv, TaskInv, Answered, Going
  <1>8. SleepInv'
    BY <1>1, <1>2, <1>4, <1>5, NothingSignals, SleepUndisturbed DEF IInv, Answered
  <1>9. Ordered(todo)' /\ EventsPlaced(todo)' /\ AnswerInv'
    BY <1>1, <1>2, <1>3, OrderedEmpty DEF EventsPlaced, AnswerInv, NoAnswer
  <1>10. SocketTypes'
    BY <1>1 DEF IInv, SocketTypes
  <1> QED
    BY <1>6, <1>7, <1>8, <1>9, <1>10 DEF IInv

LEMMA ThreadInvariant ==
    ASSUME IInv, Thread
    PROVE  IInv'
  BY ApiCallInvariant, PreparingInvariant, SignallingInvariant, DoneInvariant DEF Thread

-----------------------------------------------------------------------------
(* Steps of the task                                                       *)

TaskRecord == [pc : Selecting \cup Working, then : Answered \cup {None}, i : Indices,
               c : Netconns \cup {None}, some : BOOLEAN, m : Int \cup Netconns \cup {None}]
HeldAt(pc) == IF pc \in SelectHeld THEN {"selectsem"}
              ELSE IF pc \in SocketHeld THEN {"socksem"} ELSE {}

\* What the task does not touch: the thread has nothing of its own to say when
\* it runs, and events are only about while it holds a semaphore.
LEMMA TaskFrame ==
    ASSUME IInv, Waits, ftp.pc # "asked",
           UNCHANGED <<todo, closing>>,
           ftp'.pc # "asked" => UNCHANGED api,
           UNCHANGED <<conn, socket>> \/ held = {} \/ EventsPlaced(todo)'
    PROVE  Ordered(todo)' /\ EventsPlaced(todo)' /\ AnswerInv'
  <1>1. AnswerInv /\ Ordered(todo) /\ EventsPlaced(todo)
    BY DEF IInv
  <1>2. EventsPlaced(todo)'
    <2>1. CASE UNCHANGED <<conn, socket>>
      BY <1>1, <2>1 DEF EventsPlaced, Placed
    <2>2. CASE held = {}
      <3>1. NoEvents(todo)
        BY <1>1, <2>2, WaitingShape
      <3> QED
        BY <3>1 DEF EventsPlaced, NoEvents
    <2> QED
      BY <2>1, <2>2
  <1>3. AnswerInv'
    BY <1>1 DEF AnswerInv
  <1> QED
    BY <1>1, <1>2, <1>3

LEMMA TaskTypesUnfold ==
    TaskTypes <=> /\ ftp \in TaskRecord /\ ready \subseteq Indices
                  /\ \A i \in ready : conn[i] # None
                  /\ held = HeldAt(ftp.pc)
  BY DEF TaskTypes, TaskRecord, HeldAt

LEMMA GotoFields ==
    ASSUME ftp \in TaskRecord, NEW pc \in Selecting \cup Working, Goto(pc)
    PROVE  /\ ftp' \in TaskRecord
           /\ ftp'.pc = pc
           /\ UNCHANGED <<ftp.then, ftp.i, ftp.c, ftp.some, ftp.m>>
  BY DEF TaskRecord, Goto

LEMMA StartFields ==
    Start \in TaskRecord /\ Start.pc = "serve"
  <1>1. Cardinality(Conns) \in Nat
    BY SocketsAssumption, FS_CardinalityType
  <1> QED
    BY <1>1 DEF TaskRecord, Start, Selecting, Indices

\* In select() the task has nothing in its hands.
LEMMA SelectingHolds ==
    ASSUME ftp'.pc \in Selecting
    PROVE  TaskInv'
  BY DEF TaskInv, Going, Selecting, Working

\* lwip_select.  The list is entered under the lock of the scan.
LEMMA SelectInvariant ==
    ASSUME IInv,
           \/ SelectLock \/ SelectScan \/ SelectList \/ SelectWake \/ SelectRelock
           \/ SelectUnlink \/ SelectRescan
    PROVE  IInv'
  <1>1. /\ Waits /\ ftp.pc \in Selecting
        /\ UNCHANGED <<sockets, netconns, ghosts, tcpip>>
    BY DEF SelectLock, SelectScan, SelectList, SelectWake, SelectRelock, SelectUnlink, SelectRescan,
           At, Selecting
  <1>2. UNCHANGED <<conn, rcvevent, lastdata, socket, mbox, refused, sent, closing, todo, api>>
    BY <1>1 DEF sockets, netconns, ghosts, tcpip
  <1>3. ftp \in TaskRecord /\ held = HeldAt(ftp.pc) /\ ready \subseteq Indices
        /\ \A i \in ready : conn[i] # None
    BY TaskTypesUnfold DEF IInv
  <1>4. /\ ftp' \in TaskRecord /\ ftp'.pc \in Selecting /\ held' = HeldAt(ftp'.pc)
        /\ ready' = ready \/ ready' = Readable
        /\ scb' \in [listed : BOOLEAN, signalled : BOOLEAN, sem : BOOLEAN]
        /\ ftp'.pc = "list" => Readable = {}
        /\ ftp'.pc = "sleep" => scb' = [listed |-> TRUE, signalled |-> FALSE, sem |-> FALSE]
                                /\ Readable = {}
    <2>1. CASE SelectLock
      <3>1. ftp.pc = "select" /\ Goto("scan") /\ UNCHANGED <<ready, scb>> /\ held' = held \cup {"selectsem"}
        BY <2>1 DEF SelectLock, At, Take
      <3>2. ftp' \in TaskRecord /\ ftp'.pc = "scan"
        BY <1>3, <3>1, GotoFields DEF Selecting
      <3> QED
        BY <1>3, <3>1, <3>2 DEF HeldAt, SelectHeld, SocketHeld, Selecting, IInv, SocketTypes
    <2>2. CASE SelectScan
      <3>1. ftp.pc = "scan" /\ UNCHANGED scb
        BY <2>2 DEF SelectScan, At
      <3>2. CASE ready' = Readable /\ Return /\ Give("selectsem")
        <4>1. ftp' \in TaskRecord /\ ftp'.pc = "serve" /\ held' = held \ {"selectsem"}
          BY <3>2, StartFields DEF Return, Give
        <4> QED
          BY <1>3, <3>1, <3>2, <4>1 DEF HeldAt, SelectHeld, SocketHeld, Selecting, IInv, SocketTypes
      <3>3. CASE Readable = {} /\ Goto("list") /\ UNCHANGED <<ready, held>>
        <4>1. ftp' \in TaskRecord /\ ftp'.pc = "list"
          BY <1>3, <3>3, GotoFields DEF Selecting
        <4> QED
          BY <1>3, <3>1, <3>3, <4>1 DEF HeldAt, SelectHeld, SocketHeld, Selecting, IInv, SocketTypes
      <3> QED
        BY <2>2, <3>2, <3>3 DEF SelectScan
    <2>3. CASE SelectList
      <3>1. /\ ftp.pc = "list" /\ Goto("sleep") /\ UNCHANGED ready /\ held' = held \ {"selectsem"}
            /\ scb' = [listed |-> TRUE, signalled |-> FALSE, sem |-> FALSE]
        BY <2>3 DEF SelectList, At, Give
      <3>2. ftp' \in TaskRecord /\ ftp'.pc = "sleep"
        BY <1>3, <3>1, GotoFields DEF Selecting
      <3>3. Readable = {}
        BY <3>1 DEF IInv, SleepInv
      <3> QED
        BY <1>3, <3>1, <3>2, <3>3 DEF HeldAt, SelectHeld, SocketHeld, Selecting
    <2>4. CASE SelectWake
      <3>1. /\ ftp.pc = "sleep" /\ Goto("unlist") /\ UNCHANGED <<ready, held>>
            /\ scb' = [scb EXCEPT !.sem = FALSE]
        BY <2>4 DEF SelectWake, At
      <3>2. ftp' \in TaskRecord /\ ftp'.pc = "unlist"
        BY <1>3, <3>1, GotoFields DEF Selecting
      <3> QED
        BY <1>3, <3>1, <3>2 DEF HeldAt, SelectHeld, SocketHeld, Selecting, IInv, SocketTypes
    <2>5. CASE SelectRelock
      <3>1. ftp.pc = "unlist" /\ Goto("unlink") /\ UNCHANGED <<ready, scb>> /\ held' = held \cup {"selectsem"}
        BY <2>5 DEF SelectRelock, At, Take
      <3>2. ftp' \in TaskRecord /\ ftp'.pc = "unlink"
        BY <1>3, <3>1, GotoFields DEF Selecting
      <3> QED
        BY <1>3, <3>1, <3>2 DEF HeldAt, SelectHeld, SocketHeld, Selecting, IInv, SocketTypes
    <2>6. CASE SelectUnlink
      <3>1. /\ ftp.pc = "unlink" /\ Goto("rescan") /\ UNCHANGED ready /\ held' = held \ {"selectsem"}
            /\ scb' = [scb EXCEPT !.listed = FALSE, !.signalled = FALSE]
        BY <2>6 DEF SelectUnlink, At, Give
      <3>2. ftp' \in TaskRecord /\ ftp'.pc = "rescan"
        BY <1>3, <3>1, GotoFields DEF Selecting
      <3> QED
        BY <1>3, <3>1, <3>2 DEF HeldAt, SelectHeld, SocketHeld, Selecting, IInv, SocketTypes
    <2>7. CASE SelectRescan
      <3>1. ftp.pc = "rescan" /\ Return /\ UNCHANGED <<scb, held>> /\ ready' = Readable
        BY <2>7 DEF SelectRescan, At
      <3>2. ftp' \in TaskRecord /\ ftp'.pc = "serve"
        BY <3>1, StartFields DEF Return
      <3> QED
        BY <1>3, <3>1, <3>2 DEF HeldAt, SelectHeld, SocketHeld, Selecting, IInv, SocketTypes
    <2> QED
      BY <2>1, <2>2, <2>3, <2>4, <2>5, <2>6, <2>7
  <1>5. TaskTypes'
    <2>1. ready' \subseteq Indices /\ \A i \in ready' : conn'[i] # None
      BY <1>2, <1>3, <1>4 DEF Readable
    <2>2. held' = HeldAt(ftp'.pc) /\ ftp' \in TaskRecord
      BY <1>4
    <2> QED
      BY <2>1, <2>2 DEF TaskTypes, TaskRecord, HeldAt
  <1>6. TaskInv'
    BY <1>4, SelectingHolds
  <1>7. SleepInv'
    <2>1. Readable' = Readable
      BY <1>2 DEF Readable
    <2> QED
      BY <1>4, <2>1 DEF SleepInv
  <1>8. SocketTypes'
    BY <1>2, <1>4 DEF IInv, SocketTypes
  <1>9. Ordered(todo)' /\ EventsPlaced(todo)' /\ AnswerInv'
    <2>1. ftp.pc # "asked"
      BY <1>1 DEF Selecting
    <2> QED
      BY <1>1, <1>2, <2>1, TaskFrame
  <1> QED
    BY <1>5, <1>6, <1>7, <1>8, <1>9 DEF IInv

\* Any other step of the task: what is left to show of it.
LEMMA WorkStep ==
    ASSUME IInv, Waits, ftp.pc # "asked",
           UNCHANGED <<todo, closing>>,
           ftp'.pc # "asked" => UNCHANGED api,
           UNCHANGED <<conn, socket>> \/ held = {} \/ EventsPlaced(todo)',
           ftp'.pc \notin {"list", "sleep"}, ftp' \in TaskRecord,
           ready' \subseteq Indices, \A i \in ready' : conn'[i] # None,
           held' = HeldAt(ftp'.pc),
           TaskInv', SocketTypes'
    PROVE  IInv'
  <1>1. Ordered(todo)' /\ EventsPlaced(todo)' /\ AnswerInv'
    BY TaskFrame
  <1>2. TaskTypes'
    BY DEF TaskTypes, TaskRecord, HeldAt
  <1>3. SleepInv'
    BY DEF SleepInv
  <1> QED
    BY <1>1, <1>2, <1>3 DEF IInv

LEMMA SocketFrame ==
    ASSUME SocketTypes, UNCHANGED <<conn, rcvevent, socket, mbox, sent, refused, api, scb>>
    PROVE  SocketTypes'
  BY DEF SocketTypes

LEMMA ReturnHolds ==
    ASSUME Return
    PROVE  /\ ftp'.pc = "serve" /\ ftp' \in TaskRecord /\ TaskInv'
           /\ HeldAt(ftp'.pc) = {}
  <1>1. ftp'.pc = "serve" /\ ftp' \in TaskRecord
    BY StartFields DEF Return
  <1>2. TaskInv'
    BY <1>1, SelectingHolds DEF Selecting
  <1> QED
    BY <1>1, <1>2 DEF HeldAt, SelectHeld, SocketHeld

\* Locks taken, with nothing else.
LEMMA LockInvariant ==
    ASSUME IInv, MinusLock \/ AllocLock \/ AcceptLock \/ CloseLock
    PROVE  IInv'
  <1>1. /\ Waits /\ UNCHANGED <<conn, rcvevent, socket, mbox, sent, refused, closing, api, todo, scb, ready>>
        /\ ftp.pc \in {"minus", "alloc", "accept", "close"}
    BY DEF MinusLock, AllocLock, AcceptLock, CloseLock, At, sockets, netconns, ghosts, tcpip
  <1>2. ftp \in TaskRecord /\ held = {} /\ ready \subseteq Indices /\ \A i \in ready : conn[i] # None
    BY <1>1, TaskTypesUnfold DEF IInv, HeldAt, SelectHeld, SocketHeld
  <1>3. \/ ftp.pc = "minus" /\ Goto("less") /\ held' = held \cup {"selectsem"}
        \/ ftp.pc = "alloc" /\ Goto("slot") /\ held' = held \cup {"socksem"}
        \/ ftp.pc = "accept" /\ Goto("hand over") /\ held' = held \cup {"socksem"}
        \/ ftp.pc = "close" /\ Goto("closed") /\ held' = held \cup {"socksem"}
    BY DEF MinusLock, AllocLock, AcceptLock, CloseLock, At, Take
  <1>4. /\ ftp' \in TaskRecord /\ UNCHANGED <<ftp.then, ftp.i, ftp.c, ftp.some, ftp.m>>
        /\ \/ ftp.pc = "minus" /\ ftp'.pc = "less"
           \/ ftp.pc = "alloc" /\ ftp'.pc = "slot"
           \/ ftp.pc = "accept" /\ ftp'.pc = "hand over"
           \/ ftp.pc = "close" /\ ftp'.pc = "closed"
        /\ held' = HeldAt(ftp'.pc)
    <2>1. \A pc \in {"less", "slot", "hand over", "closed"} : pc \in Selecting \cup Working
      BY DEF Working
    <2> QED
      BY <1>2, <1>3, <2>1, GotoFields DEF HeldAt, SelectHeld, SocketHeld
  <1>5. TaskInv'
    BY <1>1, <1>4 DEF IInv, TaskInv, Going, Working
  <1>6. SocketTypes'
    BY <1>1, SocketFrame DEF IInv
  <1> QED
    BY <1>1, <1>2, <1>4, <1>5, <1>6, WorkStep

\* The server turns to a socket that select() reported.
LEMMA ServeInvariant ==
    ASSUME IInv, Serve
    PROVE  IInv'
  <1>1. /\ Waits /\ UNCHANGED <<conn, rcvevent, socket, mbox, sent, refused, closing, api, todo, scb, held>>
        /\ ftp.pc = "serve"
    BY DEF Serve, At, sockets, netconns, ghosts, tcpip
  <1>2. ftp \in TaskRecord /\ held = {} /\ ready \subseteq Indices /\ \A i \in ready : conn[i] # None
    BY <1>1, TaskTypesUnfold DEF IInv, HeldAt, SelectHeld, SocketHeld
  <1>3. SocketTypes'
    BY <1>1, SocketFrame DEF IInv
  <1>4. CASE Goto("select") /\ UNCHANGED ready
    <2>1. ftp' \in TaskRecord /\ ftp'.pc = "select"
      BY <1>2, <1>4, GotoFields DEF Selecting
    <2>2. TaskInv' /\ held' = HeldAt(ftp'.pc)
      BY <1>1, <1>2, <2>1, SelectingHolds DEF Selecting, HeldAt, SelectHeld, SocketHeld
    <2> QED
      BY <1>1, <1>2, <1>3, <1>4, <2>1, <2>2, WorkStep
  <1>5. ASSUME NEW i \in ready, ready' = ready \ {i},
               ftp' = [ftp EXCEPT !.pc = IF i = 0 THEN "fetch" ELSE "receive",
                                  !.i = i, !.c = conn[i], !.some = FALSE]
        PROVE  IInv'
    <2>1. conn[i] \in Netconns /\ (i = 0 => conn[i] = Listener)
      BY <1>2, <1>5 DEF IInv, SocketTypes
    <2>2. /\ ftp'.pc = IF i = 0 THEN "fetch" ELSE "receive"
          /\ ftp'.i = i /\ ftp'.c = conn[i]
          /\ ftp' \in TaskRecord
      BY <1>2, <1>5, <2>1 DEF TaskRecord, Working
    <2>3. TaskInv'
      BY <1>5, <2>1, <2>2 DEF TaskInv, Going, Working
    <2>4. held' = HeldAt(ftp'.pc)
      BY <1>1, <1>2, <2>2 DEF HeldAt, SelectHeld, SocketHeld
    <2> QED
      BY <1>1, <1>2, <1>3, <1>5, <2>2, <2>3, <2>4, WorkStep
  <1> QED
    BY <1>4, <1>5 DEF Serve

\* A message is taken out of the mailbox.
LEMMA FetchInvariant ==
    ASSUME IInv, Fetch
    PROVE  IInv'
  <1>1. /\ Waits /\ UNCHANGED <<conn, rcvevent, socket, sent, refused, closing, api, todo, scb, held, ready>>
        /\ ftp.pc = "fetch" /\ mbox[ftp.c] # <<>>
        /\ mbox' = [mbox EXCEPT ![ftp.c] = Tail(@)]
        /\ ftp' = [ftp EXCEPT !.pc = "minus", !.m = Head(mbox[ftp.c])]
    BY DEF Fetch, At, sockets, tcpip
  <1>2. ftp \in TaskRecord /\ held = {} /\ ready \subseteq Indices /\ \A i \in ready : conn[i] # None
    BY <1>1, TaskTypesUnfold DEF IInv, HeldAt, SelectHeld, SocketHeld
  <1>3. ftp.c \in Netconns /\ ftp.i \notin ready /\ (ftp.i = 0 => ftp.c = Listener)
    BY <1>1 DEF IInv, TaskInv, Working
  <1>4. /\ mbox \in [Netconns -> Seq(Int \cup Conns)] /\ mbox[Listener] \in Seq(Conns)
        /\ mbox[ftp.c] \in Seq(Int \cup Conns)
    BY <1>3 DEF IInv, SocketTypes
  <1>5. Head(mbox[ftp.c]) \in Int \cup Conns /\ Tail(mbox[ftp.c]) \in Seq(Int \cup Conns)
    BY <1>1, <1>4
  <1>6. ftp.c = Listener => Head(mbox[ftp.c]) \in Conns /\ Tail(mbox[ftp.c]) \in Seq(Conns)
    BY <1>1, <1>4
  <1>7. SocketTypes'
    <2>1. mbox' \in [Netconns -> Seq(Int \cup Conns)]
      BY <1>1, <1>4, <1>5
    <2>2. mbox'[Listener] \in Seq(Conns)
      BY <1>1, <1>4, <1>6, ConnNetconn
    <2> QED
      BY <1>1, <2>1, <2>2 DEF IInv, SocketTypes
  <1>8. /\ ftp'.pc = "minus" /\ ftp'.m = Head(mbox[ftp.c])
        /\ UNCHANGED <<ftp.then, ftp.i, ftp.c, ftp.some>>
        /\ ftp' \in TaskRecord
    BY <1>1, <1>2, <1>5, ConnNetconn DEF TaskRecord, Working
  <1>9. TaskInv'
    BY <1>1, <1>3, <1>6, <1>8 DEF TaskInv, Going
  <1>10. held' = HeldAt(ftp'.pc)
    BY <1>1, <1>2, <1>8 DEF HeldAt, SelectHeld, SocketHeld
  <1> QED
    BY <1>1, <1>2, <1>7, <1>8, <1>9, <1>10, WorkStep

LEMMA MinusInvariant ==
    ASSUME IInv, Minus
    PROVE  IInv'
  <1> DEFINE next == IF ftp.i = 0 \/ ftp.m # End THEN "taken" ELSE "ended"
  <1>1. /\ Waits /\ UNCHANGED <<conn, socket, mbox, sent, refused, closing, api, todo, scb, ready>>
        /\ ftp.pc = "less" /\ Goto(next) /\ held' = held \ {"selectsem"}
        /\ rcvevent' = [rcvevent EXCEPT ![ftp.i] = @ - 1]
    BY DEF Minus, At, Give, netconns, ghosts, tcpip
  <1>2. /\ ftp \in TaskRecord /\ held = {"selectsem"} /\ ready \subseteq Indices
        /\ \A i \in ready : conn[i] # None
    BY <1>1, TaskTypesUnfold DEF IInv, HeldAt, SelectHeld, SocketHeld
  <1>3. next \in {"taken", "ended"} /\ (next = "ended" => ftp.i # 0)
    OBVIOUS
  <1>4. /\ ftp' \in TaskRecord /\ ftp'.pc = next
        /\ UNCHANGED <<ftp.then, ftp.i, ftp.c, ftp.some, ftp.m>>
    <2>1. next \in Working
      BY DEF Working
    <2> HIDE DEF next
    <2> QED
      BY <1>1, <1>2, <2>1, GotoFields
  <1> HIDE DEF next
  <1>5. TaskInv'
    BY <1>1, <1>3, <1>4 DEF IInv, TaskInv, Going, Working
  <1>6. held' = HeldAt(ftp'.pc) /\ ftp'.pc \notin {"asked", "list", "sleep"}
    BY <1>1, <1>2, <1>3, <1>4 DEF HeldAt, SelectHeld, SocketHeld
  <1>7. SocketTypes'
    <2>1. rcvevent \in [Indices -> Int] /\ ftp.i \in Indices
      BY <1>2 DEF IInv, SocketTypes, TaskRecord
    <2>2. rcvevent' \in [Indices -> Int]
      BY <1>1, <2>1
    <2> QED
      BY <1>1, <2>2 DEF IInv, SocketTypes
  <1> QED
    BY <1>1, <1>2, <1>4, <1>5, <1>6, <1>7, WorkStep

\* Once around the loop of lwip_recvfrom: it returns, goes on, or the server
\* is told of the end.
LEMMA ReceiveInvariant ==
    ASSUME IInv, Receive \/ Ended \/ \E more \in BOOLEAN : Copy(more)
    PROVE  IInv'
  <1>1. /\ Waits
        /\ UNCHANGED <<conn, rcvevent, socket, mbox, sent, refused, closing, api, todo, scb, held, ready>>
        /\ ftp.pc \in {"receive", "ended", "copy"}
    BY DEF Receive, Ended, Copy, At, sockets, netconns, ghosts, tcpip
  <1>2. ftp \in TaskRecord /\ held = {} /\ ready \subseteq Indices /\ \A i \in ready : conn[i] # None
    BY <1>1, TaskTypesUnfold DEF IInv, HeldAt, SelectHeld, SocketHeld
  <1>3. SocketTypes'
    BY <1>1, SocketFrame DEF IInv
  <1>4. /\ ftp.c \in Netconns /\ ftp.i \notin ready
        /\ ftp.pc # "ended" => ftp.i # 0
    BY <1>1 DEF IInv, TaskInv, Going, Working
  <1>5. CASE Return
    <2>1. held' = HeldAt(ftp'.pc)
      BY <1>1, <1>2, <1>5, ReturnHolds
    <2> QED
      BY <1>1, <1>2, <1>3, <1>5, <2>1, ReturnHolds, WorkStep
  <1>6. ASSUME NEW pc \in {"fetch", "copy", "receive", "delete"},
               ftp' \in TaskRecord, ftp'.pc = pc, UNCHANGED <<ftp.i, ftp.c>>,
               ftp.i # 0 \/ pc = "delete"
        PROVE  IInv'
    <2>1. TaskInv'
      BY <1>1, <1>4, <1>6 DEF TaskInv, Going
    <2>2. held' = HeldAt(ftp'.pc)
      BY <1>1, <1>2, <1>6 DEF HeldAt, SelectHeld, SocketHeld
    <2> QED
      BY <1>1, <1>2, <1>3, <1>6, <2>1, <2>2, WorkStep
  <1>7. CASE ftp' = [ftp EXCEPT !.pc = "delete", !.m = None]
    <2>1. ftp' \in TaskRecord /\ ftp'.pc = "delete" /\ UNCHANGED <<ftp.i, ftp.c>>
      BY <1>2, <1>7 DEF TaskRecord, Working
    <2> QED
      BY <1>6, <2>1
  <1>8. CASE Receive
    <2>1. ftp.i # 0
      BY <1>4, <1>8 DEF Receive, At
    <2>2. ASSUME NEW pc \in {"copy", "fetch"}, Goto(pc)
          PROVE  IInv'
      <3>1. ftp' \in TaskRecord /\ ftp'.pc = pc /\ UNCHANGED <<ftp.i, ftp.c>>
        BY <1>2, <2>2, GotoFields DEF Working
      <3> QED
        BY <1>6, <2>1, <3>1
    <2> QED
      BY <1>5, <1>7, <1>8, <2>2 DEF Receive, Told
  <1>9. CASE Ended
    BY <1>5, <1>7, <1>9 DEF Ended, Told
  <1>10. CASE \E more \in BOOLEAN : Copy(more)
    <2>1. ftp.i # 0
      BY <1>4, <1>10 DEF Copy, At
    <2>2. ASSUME NEW pc \in {"delete", "receive"}, ftp' = [ftp EXCEPT !.pc = pc, !.some = TRUE]
          PROVE  IInv'
      <3>1. ftp' \in TaskRecord /\ ftp'.pc = pc /\ UNCHANGED <<ftp.i, ftp.c>>
        BY <1>2, <2>2 DEF TaskRecord, Working
      <3> QED
        BY <1>6, <2>1, <3>1
    <2> QED
      BY <1>5, <1>10, <2>2 DEF Copy, Quit
  <1> QED
    BY <1>8, <1>9, <1>10

\* The task asks the thread, or has it close.
LEMMA AskInvariant ==
    ASSUME IInv, Taken \/ Peer \/ Delete
    PROVE  IInv'
  <1>1. /\ Waits
        /\ UNCHANGED <<conn, rcvevent, socket, mbox, sent, refused, closing, todo, scb, held, ready>>
        /\ ftp.pc \in {"taken", "peer", "delete"}
    BY DEF Taken, Peer, Delete, At, sockets, netconns, ghosts
  <1>2. ftp \in TaskRecord /\ held = {} /\ ready \subseteq Indices /\ \A i \in ready : conn[i] # None
    BY <1>1, TaskTypesUnfold DEF IInv, HeldAt, SelectHeld, SocketHeld
  <1>3. /\ ftp.c \in Netconns /\ ftp.i \notin ready
        /\ ftp.pc = "peer" => ftp.i = 0
        /\ ftp.pc \in {"taken", "peer"} => (ftp.i = 0 => ftp.m \in Conns)
    BY <1>1 DEF IInv, TaskInv, Going, Working
  <1>4. ASSUME NEW fn \in {"ask", "delete"}, NEW c \in Netconns, api' = [fn |-> fn, c |-> c],
               ftp'.pc = "asked", ftp'.then \in Answered, ftp'.c \in Netconns, ftp'.i = ftp.i,
               ftp' \in TaskRecord,
               ftp'.then \in {"peer", "alloc"} => ftp.i = 0,
               ftp'.then = "peer" => ftp'.m \in Conns,
               ftp'.then = "copy" => ftp.i # 0
        PROVE  IInv'
    <2>1. TaskInv'
      BY <1>1, <1>3, <1>4 DEF TaskInv, Going
    <2>2. SocketTypes'
      BY <1>1, <1>4 DEF IInv, SocketTypes
    <2>3. held' = HeldAt(ftp'.pc)
      BY <1>1, <1>2, <1>4 DEF HeldAt, SelectHeld, SocketHeld
    <2> QED
      BY <1>1, <1>2, <1>4, <2>1, <2>2, <2>3, WorkStep
  <1>5. CASE Taken
    <2>1. /\ ftp.pc = "taken" /\ api' = [fn |-> "ask", c |-> ftp.c]
          /\ ftp' = IF ftp.i = 0 THEN [ftp EXCEPT !.pc = "asked", !.then = "peer"]
                    ELSE [ftp EXCEPT !.pc = "asked", !.then = "copy", !.m = None]
      BY <1>5 DEF Taken, At
    <2>2. CASE ftp.i = 0
      <3>1. /\ ftp'.pc = "asked" /\ ftp'.then = "peer" /\ UNCHANGED <<ftp.i, ftp.c, ftp.m>>
            /\ ftp' \in TaskRecord
        BY <1>2, <2>1, <2>2 DEF TaskRecord, Working, Answered
      <3> QED
        BY <1>3, <1>4, <2>1, <2>2, <3>1 DEF Answered
    <2>3. CASE ftp.i # 0
      <3>1. /\ ftp'.pc = "asked" /\ ftp'.then = "copy" /\ UNCHANGED <<ftp.i, ftp.c>>
            /\ ftp' \in TaskRecord
        BY <1>2, <2>1, <2>3 DEF TaskRecord, Working, Answered
      <3> QED
        BY <1>3, <1>4, <2>1, <2>3, <3>1 DEF Answered
    <2> QED
      BY <2>2, <2>3
  <1>6. CASE Peer
    <2>1. ftp.m \in Conns /\ ftp.m \in Netconns /\ ftp.i = 0
      BY <1>3, <1>6, ConnNetconn DEF Peer, At
    <2>2. /\ api' = [fn |-> "ask", c |-> ftp.m]
          /\ ftp' = [ftp EXCEPT !.pc = "asked", !.c = ftp.m, !.m = None,
                        !.then = IF pcb[ftp.m] = "none" THEN "delete" ELSE "alloc"]
      BY <1>6 DEF Peer
    <2>3. /\ ftp'.pc = "asked" /\ ftp'.then \in {"delete", "alloc"} /\ ftp'.i = ftp.i
          /\ ftp'.c = ftp.m /\ ftp' \in TaskRecord
      BY <1>2, <2>1, <2>2 DEF TaskRecord, Working, Answered
    <2> QED
      BY <1>4, <2>1, <2>2, <2>3 DEF Answered
  <1>7. CASE Delete
    <2>1. /\ api' = [fn |-> "delete", c |-> ftp.c]
          /\ ftp' = [ftp EXCEPT !.pc = "asked", !.then = "free"]
      BY <1>7 DEF Delete
    <2>2. /\ ftp'.pc = "asked" /\ ftp'.then = "free" /\ UNCHANGED <<ftp.i, ftp.c>>
          /\ ftp' \in TaskRecord
      BY <1>2, <2>1 DEF TaskRecord, Working, Answered
    <2> QED
      BY <1>3, <1>4, <2>1, <2>2 DEF Answered
  <1> QED
    BY <1>5, <1>6, <1>7

\* The socket of a new connection, entered with the lowest index.
LEMMA AllocInvariant ==
    ASSUME IInv, Alloc
    PROVE  IInv'
  <1>1. /\ Waits
        /\ UNCHANGED <<socket, mbox, sent, refused, closing, todo, api, scb, ready>>
        /\ ftp.pc = "slot" /\ held' = held \ {"socksem"}
    BY DEF Alloc, At, Give, netconns, ghosts, tcpip
  <1>2. /\ ftp \in TaskRecord /\ held = {"socksem"} /\ ready \subseteq Indices
        /\ \A i \in ready : conn[i] # None
    BY <1>1, TaskTypesUnfold DEF IInv, HeldAt, SelectHeld, SocketHeld
  <1>3. /\ ftp.c \in Netconns /\ ftp.i \notin ready
        /\ None \notin Netconns
    BY <1>1, SocketsAssumption DEF IInv, TaskInv, Working, Netconns
  <1>4. held' = {}
    BY <1>1, <1>2
  <1>5. CASE Goto("delete") /\ UNCHANGED sockets
    <2>1. ftp' \in TaskRecord /\ ftp'.pc = "delete" /\ UNCHANGED <<ftp.i, ftp.c>>
      BY <1>2, <1>5, GotoFields DEF Working
    <2>2. UNCHANGED <<conn, rcvevent>>
      BY <1>5 DEF sockets
    <2>3. TaskInv'
      BY <1>1, <1>3, <2>1 DEF TaskInv, Going
    <2>4. held' = HeldAt(ftp'.pc)
      BY <1>4, <2>1 DEF HeldAt, SelectHeld, SocketHeld
    <2>5. SocketTypes'
      BY <1>1, <2>2, SocketFrame DEF IInv
    <2> QED
      BY <1>1, <1>2, <2>1, <2>2, <2>3, <2>4, <2>5, WorkStep
  <1>6. ASSUME NEW i \in FreeIndices, conn' = [conn EXCEPT ![i] = ftp.c],
               rcvevent' = [rcvevent EXCEPT ![i] = 0],
               ftp' = [ftp EXCEPT !.pc = "accept", !.i = i]
        PROVE  IInv'
    <2>1. i \in Indices /\ conn[i] = None /\ i \notin ready
      BY <1>2 DEF FreeIndices
    <2>2. conn \in [Indices -> Netconns \cup {None}] /\ conn[0] = Listener /\ i # 0
      BY <1>3, <2>1, ConnNetconn DEF IInv, SocketTypes
    <2>3. conn' \in [Indices -> Netconns \cup {None}] /\ conn'[0] = Listener
      BY <1>3, <1>6, <2>1, <2>2
    <2>4. SocketTypes'
      BY <1>1, <1>6, <2>3 DEF IInv, SocketTypes
    <2>5. \A j \in ready' : conn'[j] # None
      BY <1>1, <1>2, <1>6, <2>1, <2>2
    <2>6. ftp' \in TaskRecord /\ ftp'.pc = "accept" /\ ftp'.i = i /\ ftp'.c = ftp.c
      BY <1>2, <1>6, <2>1 DEF TaskRecord, Working
    <2>7. TaskInv'
      BY <1>1, <1>3, <2>1, <2>6 DEF TaskInv, Going
    <2>8. held' = HeldAt(ftp'.pc)
      BY <1>4, <2>6 DEF HeldAt, SelectHeld, SocketHeld
    <2>9. EventsPlaced(todo)'
      <3>1. \A o \in ToSet(todo) : Placed(o.c) => Placed(o.c)'
        BY <1>1, <1>3, <1>6, <2>1, <2>2 DEF Placed
      <3> QED
        BY <1>1, <3>1 DEF IInv, EventsPlaced
    <2> QED
      BY <1>1, <1>2, <2>4, <2>5, <2>6, <2>7, <2>8, <2>9, WorkStep
  <1> QED
    BY <1>5, <1>6 DEF Alloc

LEMMA EventsHere ==
    ASSUME IInv
    PROVE  \A o \in ToSet(todo) : Event(o) => o.c \in Netconns /\ Placed(o.c)
  <1>1. ToSet(todo) \subseteq Ops
    BY ElementsInSet DEF IInv, Ordered
  <1> QED
    BY <1>1 DEF IInv, EventsPlaced, Ops

\* What frees a netconn or a socket, or joins them.
LEMMA AcceptInvariant ==
    ASSUME IInv, HandInv, Accept
    PROVE  IInv'
  <1>1. /\ Waits
        /\ UNCHANGED <<conn, mbox, sent, refused, closing, todo, api, scb, ready>>
        /\ ftp.pc = "hand over" /\ held' = held \ {"socksem"} /\ Return
        /\ rcvevent' = [rcvevent EXCEPT ![ftp.i] = @ - 1 - socket[ftp.c]]
        /\ socket' = [socket EXCEPT ![ftp.c] = ftp.i]
    BY DEF Accept, At, Give, ghosts, tcpip
  <1>2. /\ ftp \in TaskRecord /\ held = {"socksem"} /\ ready \subseteq Indices
        /\ \A i \in ready : conn[i] # None
    BY <1>1, TaskTypesUnfold DEF IInv, HeldAt, SelectHeld, SocketHeld
  <1>3. ftp.c \in Netconns /\ ftp.i \in Indices /\ ftp.i \in Int
    <2>1. ftp.i \in Indices
      BY <1>2 DEF TaskRecord
    <2> QED
      BY <1>1, <2>1, IndicesType DEF IInv, TaskInv, Working
  <1>4. SocketTypes'
    <2>1. rcvevent' \in [Indices -> Int] /\ socket' \in [Netconns -> Int]
      <3>1. rcvevent \in [Indices -> Int] /\ socket \in [Netconns -> Int]
        BY DEF IInv, SocketTypes
      <3>2. rcvevent[ftp.i] - 1 - socket[ftp.c] \in Int
        BY <1>3, <3>1
      <3> QED
        BY <1>1, <1>3, <3>1, <3>2
    <2>2. \A c \in Netconns : socket'[c] < 0 \/ socket'[c] \in Indices
      BY <1>1, <1>3 DEF IInv, SocketTypes
    <2> QED
      BY <1>1, <2>1, <2>2 DEF IInv, SocketTypes
  <1>5. held' = HeldAt(ftp'.pc)
    BY <1>1, <1>2, ReturnHolds
  <1>6. EventsPlaced(todo)'
    <2>1. conn[ftp.i] # None
      BY <1>1, <1>3, SocketsAssumption DEF HandInv, Working, Netconns
    <2>2. \A o \in ToSet(todo) : Event(o) => o.c \in Netconns /\ Placed(o.c)
      BY EventsHere
    <2>3. ASSUME NEW c \in Netconns, Placed(c)
          PROVE  Placed(c)'
      <3>1. socket'[c] = socket[c] \/ socket'[c] = ftp.i
        BY <1>1, <1>3 DEF IInv, SocketTypes
      <3> QED
        BY <1>1, <1>3, <2>1, <2>3, <3>1 DEF Placed
    <2> QED
      BY <1>1, <2>2, <2>3 DEF EventsPlaced
  <1> QED
    BY <1>1, <1>2, <1>3, <1>4, <1>5, <1>6, ReturnHolds, WorkStep

LEMMA FreeInvariant ==
    ASSUME IInv, Free
    PROVE  IInv'
  <1>1. /\ Waits
        /\ UNCHANGED <<conn, rcvevent, refused, closing, todo, api, scb, held, ready>>
        /\ ftp.pc = "free"
        /\ (ftp.i # 0 /\ Goto("close")) \/ Return
        /\ socket' = [socket EXCEPT ![ftp.c] = -1]
        /\ mbox' = [mbox EXCEPT ![ftp.c] = <<>>]
        /\ sent' = [sent EXCEPT ![ftp.c] = 0]
    BY DEF Free, At, sockets, tcpip
  <1>2. ftp \in TaskRecord /\ held = {} /\ ready \subseteq Indices /\ \A i \in ready : conn[i] # None
    BY <1>1, TaskTypesUnfold DEF IInv, HeldAt, SelectHeld, SocketHeld
  <1>3. ftp.c \in Netconns /\ ftp.i \notin ready
    BY <1>1 DEF IInv, TaskInv, Working
  <1>4. SocketTypes'
    <2>1. mbox' \in [Netconns -> Seq(Int \cup Conns)] /\ mbox'[Listener] \in Seq(Conns)
      BY <1>1, <1>3, ConnNetconn DEF IInv, SocketTypes
    <2>2. socket' \in [Netconns -> Int] /\ \A c \in Netconns : socket'[c] < 0 \/ socket'[c] \in Indices
      BY <1>1, <1>3 DEF IInv, SocketTypes
    <2>3. sent' \in [Conns -> Int]
      <3>1. sent \in [Conns -> Int]
        BY DEF IInv, SocketTypes
      <3>2. PICK c : sent' = [sent EXCEPT ![c] = 0]
        BY <1>1
      <3>3. sent' = [d \in Conns |-> IF d = c THEN 0 ELSE sent[d]]
        BY <3>1, <3>2
      <3>4. \A d \in Conns : (IF d = c THEN 0 ELSE sent[d]) \in Int
        BY <3>1
      <3> QED
        BY <3>3, <3>4
    <2> QED
      BY <1>1, <2>1, <2>2, <2>3 DEF IInv, SocketTypes
  <1>5. CASE Return
    <2>1. held' = HeldAt(ftp'.pc)
      BY <1>1, <1>2, <1>5, ReturnHolds
    <2> QED
      BY <1>1, <1>2, <1>3, <1>4, <1>5, <2>1, ReturnHolds, WorkStep
  <1>6. CASE ftp.i # 0 /\ Goto("close")
    <2>1. ftp' \in TaskRecord /\ ftp'.pc = "close" /\ UNCHANGED <<ftp.i, ftp.c>>
      BY <1>2, <1>6, GotoFields DEF Working
    <2>2. TaskInv'
      BY <1>1, <1>3, <1>6, <2>1 DEF TaskInv, Going
    <2>3. held' = HeldAt(ftp'.pc)
      BY <1>1, <1>2, <2>1 DEF HeldAt, SelectHeld, SocketHeld
    <2> QED
      BY <1>1, <1>2, <1>3, <1>4, <2>1, <2>2, <2>3, WorkStep
  <1> QED
    BY <1>1, <1>5, <1>6

LEMMA ClosedInvariant ==
    ASSUME IInv, HandInv, Closed
    PROVE  IInv'
  <1>1. /\ Waits
        /\ UNCHANGED <<socket, mbox, sent, refused, closing, todo, api, scb, ready>>
        /\ ftp.pc = "closed" /\ held' = held \ {"socksem"} /\ Return
        /\ conn' = [conn EXCEPT ![ftp.i] = None]
        /\ rcvevent' = [rcvevent EXCEPT ![ftp.i] = 0]
    BY DEF Closed, At, Give, netconns, ghosts, tcpip
  <1>2. /\ ftp \in TaskRecord /\ held = {"socksem"} /\ ready \subseteq Indices
        /\ \A i \in ready : conn[i] # None
    BY <1>1, TaskTypesUnfold DEF IInv, HeldAt, SelectHeld, SocketHeld
  <1>3. ftp.i \notin ready /\ ftp.i # 0 /\ ftp.c \in Netconns
    BY <1>1 DEF IInv, TaskInv, Working
  <1>4. SocketTypes'
    <2>1. conn' \in [Indices -> Netconns \cup {None}] /\ conn'[0] = Listener
      <3>1. conn \in [Indices -> Netconns \cup {None}] /\ conn[0] = Listener
        BY DEF IInv, SocketTypes
      <3> QED
        BY <1>1, <1>3, <3>1, IndicesType
    <2>2. rcvevent' \in [Indices -> Int]
      <3>1. rcvevent \in [Indices -> Int]
        BY DEF IInv, SocketTypes
      <3>2. ftp.i \in Indices
        BY <1>2 DEF TaskRecord
      <3> QED
        BY <1>1, <3>1, <3>2
    <2> QED
      BY <1>1, <2>1, <2>2 DEF IInv, SocketTypes
  <1>5. \A i \in ready' : conn'[i] # None
    BY <1>1, <1>2, <1>3 DEF IInv, SocketTypes
  <1>6. held' = HeldAt(ftp'.pc)
    BY <1>1, <1>2, ReturnHolds
  <1>7. EventsPlaced(todo)'
    <2>1. \A o \in ToSet(todo) : Event(o) => o.c \in Netconns /\ Placed(o.c)
      BY EventsHere
    <2>2. ASSUME NEW c \in Netconns, Placed(c)
          PROVE  Placed(c)'
      <3>1. socket[c] \in Indices /\ ~(socket[c] < 0) /\ conn[socket[c]] # None
        BY <2>2, NoNegativeIndex DEF Placed
      <3>2. conn[socket[c]] = c
        BY <3>1 DEF HandInv
      <3>3. socket[c] # ftp.i
        <4>1. conn[ftp.i] = ftp.c /\ socket[ftp.c] < 0
          BY <1>1, <1>3 DEF HandInv, Working
        <4> QED
          BY <3>1, <3>2, <4>1
      <3>4. conn'[socket[c]] = conn[socket[c]]
        BY <1>1, <3>1, <3>3 DEF IInv, SocketTypes
      <3> QED
        BY <1>1, <3>1, <3>4 DEF Placed
    <2> QED
      BY <1>1, <2>1, <2>2 DEF EventsPlaced
  <1> QED
    BY <1>1, <1>2, <1>3, <1>4, <1>5, <1>6, <1>7, ReturnHolds, WorkStep

LEMMA TaskInvariant ==
    ASSUME IInv, HandInv, Task
    PROVE  IInv'
  BY SelectInvariant, ServeInvariant, FetchInvariant, LockInvariant, MinusInvariant,
     ReceiveInvariant, AskInvariant, AllocInvariant, AcceptInvariant, FreeInvariant, ClosedInvariant
  DEF Task

-----------------------------------------------------------------------------
(* What the task has in its hands                                          *)

LEMMA HandFrame ==
    ASSUME IInv, HandInv, UNCHANGED conn,
           \A c \in Netconns : socket'[c] = socket[c] \/ socket'[c] < 0,
           \/ UNCHANGED ftp
           \/ /\ ftp'.pc \in Working => ftp.pc \in Working /\ UNCHANGED <<ftp.i, ftp.c>>
              /\ ftp'.pc \notin {"accept", "hand over", "close", "closed"}
    PROVE  HandInv'
  <1>2. ftp.pc \in {"close", "closed"} => ftp.c \in Netconns /\ socket'[ftp.c] < 0
    BY DEF IInv, TaskInv, HandInv, Working
  <1> QED
    BY <1>2 DEF HandInv

\* The thread leaves the sockets that netconns have alone.
LEMMA ThreadSockets ==
    ASSUME IInv, Network \/ Thread
    PROVE  UNCHANGED conn /\ \A c \in Netconns : socket'[c] = socket[c] \/ socket'[c] < 0
  <1>1. SocketTypes
    BY DEF IInv
  <1>2. CASE Network
    <2>1. PICK c \in Conns :
             \/ Connected(c) \/ LastAck(c) \/ Reset(c) \/ CloseAgain(c)
             \/ OfferAgain(c) \/ NestedOffer(c)
             \/ \E data, end \in BOOLEAN : Segment(c, data, end)
      BY <1>2 DEF Network
    <2>2. UNCHANGED conn /\ (UNCHANGED socket \/ socket' = [socket EXCEPT ![c] = -1])
      BY <2>1 DEF Connected, LastAck, Reset, CloseAgain, CloseDone, OfferAgain, NestedOffer, Offer, Segment,
              sockets
    <2> QED
      BY <1>1, <2>2 DEF SocketTypes
  <1>3. CASE Thread
    <2>1. UNCHANGED conn
      BY <1>3 DEF Thread, ApiCall, Deliver, Post, Count, Add, Scan, Clear, Done, sockets
    <2>2. UNCHANGED socket \/ (Count /\ socket[C] < 0 /\ socket' = [socket EXCEPT ![C] = @ - X])
      BY <1>3 DEF Thread, ApiCall, CloseDone, CloseFailed, Deliver, Post, Count, Add, Scan, Clear, Done,
              netconns
    <2>3. Count => X \in Nat /\ C \in Netconns
      BY ThreadRest DEF Count, First
    <2> QED
      BY <1>1, <2>1, <2>2, <2>3 DEF SocketTypes
  <1> QED
    BY <1>2, <1>3

LEMMA HandNetwork ==
    ASSUME IInv, HandInv, Network \/ Thread
    PROVE  HandInv'
  <1>1. UNCHANGED ftp \/ Done
    BY DEF Network, Connected, LastAck, Reset, CloseAgain, OfferAgain, NestedOffer, Offer, Segment,
           Thread, ApiCall, Deliver, Post, Count, Add, Scan, Clear, task
  <1>2. CASE Done
    <2>1. ftp.pc = "asked" /\ ftp.then \in Answered
      <3>1. Head(todo).op = "done" /\ Head(todo) \in ToSet(todo)
        BY <1>2, OrderedTail DEF Done, First, IInv
      <3> QED
        BY <3>1 DEF IInv, AnswerInv, NoAnswer, TaskInv
    <2>2. /\ ftp'.pc = ftp.then
          /\ UNCHANGED <<ftp.i, ftp.c>>
      BY <1>2 DEF Done, IInv, TaskTypes
    <2> QED
      BY <2>1, <2>2, HandFrame, ThreadSockets DEF Answered, Working
  <1> QED
    BY <1>1, <1>2, HandFrame, ThreadSockets

LEMMA HandTask ==
    ASSUME IInv, HandInv, Task
    PROVE  HandInv'
  <1>1. ftp \in TaskRecord
    BY TaskTypesUnfold DEF IInv
  <1>2. CASE UNCHANGED <<conn, socket>> /\ ftp'.pc \in Selecting
    BY <1>2, HandFrame DEF Selecting, Working
  <1>3. CASE Return /\ UNCHANGED <<conn, socket>>
    BY <1>2, <1>3, ReturnHolds DEF Selecting
  <1>4. ASSUME UNCHANGED <<conn, socket>>, ftp.pc \in Working, UNCHANGED <<ftp.i, ftp.c>>,
               ftp'.pc \notin {"accept", "hand over", "close", "closed"}
        PROVE  HandInv'
    BY <1>4, HandFrame
  <1>5. CASE SelectLock \/ SelectScan \/ SelectList \/ SelectWake \/ SelectRelock \/ SelectUnlink
             \/ SelectRescan
    <2>1. UNCHANGED <<conn, socket>>
      BY <1>5 DEF SelectLock, SelectScan, SelectList, SelectWake, SelectRelock, SelectUnlink, SelectRescan,
              sockets, netconns
    <2>2. \/ Return
          \/ \E pc \in Selecting : Goto(pc)
      BY <1>5 DEF SelectLock, SelectScan, SelectList, SelectWake, SelectRelock, SelectUnlink, SelectRescan,
              Selecting
    <2>3. ASSUME NEW pc \in Selecting, Goto(pc)
          PROVE  HandInv'
      BY <1>1, <1>2, <2>1, <2>3, GotoFields
    <2> QED
      BY <1>3, <2>1, <2>2, <2>3
  <1>6. CASE Serve
    <2>1. UNCHANGED <<conn, socket>>
      BY <1>6 DEF Serve, sockets, netconns
    <2>2. CASE Goto("select")
      BY <1>1, <1>2, <2>1, <2>2, GotoFields DEF Selecting
    <2>3. ASSUME NEW i, ftp' = [ftp EXCEPT !.pc = IF i = 0 THEN "fetch" ELSE "receive",
                                           !.i = i, !.c = conn[i], !.some = FALSE]
          PROVE  HandInv'
      <3>1. /\ ftp'.pc \in {"fetch", "receive"} /\ ftp'.i = i /\ ftp'.c = conn[i]
        BY <1>1, <2>3 DEF TaskRecord
      <3> QED
        BY <2>1, <3>1 DEF HandInv
    <2> QED
      BY <1>6, <2>2, <2>3 DEF Serve
  <1>7. CASE Fetch \/ Taken \/ Ended \/ Receive \/ Delete \/ (\E more \in BOOLEAN : Copy(more))
    <2>1. UNCHANGED <<conn, socket>> /\ ftp.pc \in Working
      BY <1>7 DEF Fetch, Taken, Ended, Receive, Delete, Copy, At, Working, sockets, netconns
    <2>2. \/ Return
          \/ /\ UNCHANGED <<ftp.i, ftp.c>>
             /\ ftp'.pc \in {"minus", "asked", "delete", "copy", "fetch", "receive"}
      BY <1>1, <1>7 DEF Fetch, Taken, Ended, Receive, Delete, Copy, Told, Quit, Goto, TaskRecord
    <2> QED
      BY <1>3, <1>4, <2>1, <2>2
  <1>8. CASE Minus
    <2>1. UNCHANGED <<conn, socket>> /\ ftp.pc \in Working /\ Goto(IF ftp.i = 0 \/ ftp.m # End THEN "taken" ELSE "ended")
      BY <1>8 DEF Minus, At, Working, netconns
    <2>2. UNCHANGED <<ftp.i, ftp.c>> /\ ftp'.pc \in {"taken", "ended"}
      BY <1>1, <2>1 DEF Goto, TaskRecord
    <2> QED
      BY <1>4, <2>1, <2>2
  <1>9. CASE Peer
    <2>1. UNCHANGED <<conn, socket>> /\ ftp.pc = "peer" /\ ftp'.pc = "asked" /\ ftp'.i = ftp.i
      BY <1>1, <1>9 DEF Peer, At, TaskRecord, sockets, netconns
    <2>2. ftp.i = 0
      BY <2>1 DEF IInv, TaskInv, Going
    <2> QED
      BY <2>1, <2>2 DEF HandInv
  <1>10. CASE MinusLock \/ AllocLock \/ AcceptLock \/ CloseLock
    <2>1. /\ UNCHANGED <<conn, socket>> /\ ftp.pc \in Working
          /\ \/ Goto("less")
             \/ Goto("slot")
             \/ ftp.pc = "accept" /\ Goto("hand over")
             \/ ftp.pc = "close" /\ Goto("closed")
      BY <1>10 DEF MinusLock, AllocLock, AcceptLock, CloseLock, At, Working, sockets, netconns
    <2>2. /\ UNCHANGED <<ftp.i, ftp.c>>
          /\ \/ ftp'.pc \in {"less", "slot"}
             \/ ftp.pc = "accept" /\ ftp'.pc = "hand over"
             \/ ftp.pc = "close" /\ ftp'.pc = "closed"
      BY <1>1, <2>1 DEF Goto, TaskRecord
    <2> QED
      BY <2>1, <2>2 DEF HandInv
  <1>11. CASE Alloc
    <2>1. UNCHANGED socket /\ ftp.pc = "slot"
      BY <1>11 DEF Alloc, At, netconns
    <2>2. CASE Goto("delete") /\ UNCHANGED sockets
      <3>1. UNCHANGED <<ftp.i, ftp.c>> /\ ftp'.pc = "delete"
        BY <1>1, <2>2 DEF Goto, TaskRecord
      <3> QED
        BY <1>4, <2>1, <2>2, <3>1 DEF sockets, Working
    <2>3. ASSUME NEW i \in FreeIndices, conn' = [conn EXCEPT ![i] = ftp.c],
                 ftp' = [ftp EXCEPT !.pc = "accept", !.i = i]
          PROVE  HandInv'
      <3>1. i \in Indices /\ conn[i] = None /\ i # 0 /\ None \notin Netconns
        BY SocketsAssumption DEF FreeIndices, IInv, SocketTypes, Netconns
      <3>2. ftp'.pc = "accept" /\ ftp'.i = i /\ ftp'.c = ftp.c
        BY <1>1, <2>3 DEF TaskRecord
      <3>3. conn'[i] = ftp.c /\ \A j \in Indices \ {i} : conn'[j] = conn[j]
        BY <2>3, <3>1 DEF IInv, SocketTypes
      <3>4. ASSUME NEW c \in Netconns, ~(socket[c] < 0)
            PROVE  conn'[socket[c]] = c
        <4>1. socket[c] \in Indices /\ conn[socket[c]] = c
          BY <3>4 DEF HandInv, IInv, SocketTypes
        <4> QED
          BY <3>1, <3>3, <4>1
      <3> QED
        BY <2>1, <3>1, <3>2, <3>3, <3>4 DEF HandInv
    <2> QED
      BY <1>11, <2>2, <2>3 DEF Alloc
  <1>12. CASE Accept
    <2>1. UNCHANGED conn /\ ftp.pc = "hand over" /\ socket' = [socket EXCEPT ![ftp.c] = ftp.i]
          /\ ftp'.pc = "serve"
      BY <1>12, ReturnHolds DEF Accept, At
    <2>2. \A c \in Netconns : socket'[c] < 0 \/ conn[socket'[c]] = c
      BY <2>1 DEF HandInv, IInv, SocketTypes, Working
    <2> QED
      BY <2>1, <2>2 DEF HandInv, Working
  <1>13. CASE Free
    <2>1. /\ UNCHANGED conn /\ ftp.pc = "free" /\ socket' = [socket EXCEPT ![ftp.c] = -1]
          /\ (ftp'.pc = "close" /\ UNCHANGED <<ftp.i, ftp.c>>) \/ Return
      BY <1>1, <1>13 DEF Free, At, Goto, TaskRecord, sockets
    <2>2. /\ \A c \in Netconns : socket'[c] = socket[c] \/ socket'[c] < 0
          /\ socket'[ftp.c] < 0
      <3>1. ftp.c \in Netconns /\ socket \in [Netconns -> Int]
        BY <2>1 DEF IInv, SocketTypes, TaskInv, Working
      <3>2. -1 < 0
        OBVIOUS
      <3> QED
        BY <2>1, <3>1, <3>2
    <2>3. CASE Return
      <3>1. ftp'.pc = "serve"
        BY <2>3, ReturnHolds
      <3> QED
        BY <2>1, <2>2, <3>1, HandFrame DEF Working
    <2>4. CASE ftp'.pc = "close" /\ UNCHANGED <<ftp.i, ftp.c>>
      <3>1. \A c \in Netconns : socket'[c] < 0 \/ conn[socket'[c]] = c
        BY <2>2 DEF HandInv
      <3> QED
        BY <2>1, <2>2, <2>4, <3>1 DEF HandInv, Working
    <2> QED
      BY <2>1, <2>3, <2>4
  <1>14. CASE Closed
    <2>1. UNCHANGED socket /\ ftp.pc = "closed" /\ conn' = [conn EXCEPT ![ftp.i] = None]
          /\ ftp'.pc = "serve"
      BY <1>14, ReturnHolds DEF Closed, At, netconns
    <2>2. ftp.i # 0 /\ conn[ftp.i] = ftp.c /\ socket[ftp.c] < 0
      BY <2>1 DEF HandInv, IInv, TaskInv, Working
    <2>3. ASSUME NEW c \in Netconns, ~(socket[c] < 0)
          PROVE  conn'[socket[c]] = c
      <3>1. socket[c] \in Indices /\ conn[socket[c]] = c
        BY <2>3 DEF HandInv, IInv, SocketTypes
      <3>2. socket[c] # ftp.i
        BY <2>2, <2>3, <3>1
      <3> QED
        BY <2>1, <3>1, <3>2 DEF IInv, SocketTypes
    <2> QED
      BY <2>1, <2>3 DEF HandInv, Working
  <1> QED
    BY <1>5, <1>6, <1>7, <1>8, <1>9, <1>10, <1>11, <1>12, <1>13, <1>14 DEF Task

LEMMA InitHand == Init => HandInv
  <1>1. Listener \in Netconns /\ 0 \in Indices /\ -1 < 0
    BY IndicesType, ConnNetconn
  <1> QED
    BY <1>1 DEF Init, Start, HandInv, Working

-----------------------------------------------------------------------------
(* Theorems                                                                *)

\* What IInv says of sockets, task, thread and select() holds throughout
\* (sockets.c, api_lib.c, api_msg.c).
THEOREM Invariance == Spec => []IInv
  <1>1. IInv /\ HandInv /\ [Next]_vars => IInv' /\ HandInv'
    <2> SUFFICES ASSUME IInv, HandInv, [Next]_vars PROVE IInv' /\ HandInv'
      OBVIOUS
    <2>1. CASE Next
      BY <2>1, NetworkInvariant, ThreadInvariant, TaskInvariant, HandNetwork, HandTask DEF Next
    <2>2. CASE UNCHANGED vars
      <3>1. UNCHANGED <<conn, rcvevent, lastdata, socket, mbox, sent, refused, closing, todo, api,
                       held, scb, ftp, ready>>
        BY <2>2 DEF vars, sockets, netconns, ghosts, tcpip, task
      <3>2. SocketTypes' /\ TaskTypes' /\ TaskInv'
        BY <3>1, SocketFrame, TaskUnmoved DEF IInv
      <3>3. AnswerInv' /\ Ordered(todo)' /\ EventsPlaced(todo)'
        BY <3>1 DEF IInv, AnswerInv, EventsPlaced, Placed
      <3>4. WillSignal' = WillSignal /\ Readable' = Readable
        BY <3>1 DEF WillSignal, Readable
      <3>5. SleepInv'
        BY <3>1, <3>4 DEF IInv, SleepInv
      <3>6. HandInv'
        BY <3>1, HandFrame
      <3> QED
        BY <3>2, <3>3, <3>5, <3>6 DEF IInv
    <2> QED
      BY <2>1, <2>2
  <1> QED
    BY <1>1, InitInvariant, InitHand, PTL DEF Spec

\* lwip_select sleeps exactly as long as nothing is readable, whatever the
\* thread does in between its steps (sockets.c:910-1016, 1081-1128).
THEOREM NoWakeupLost == Spec => []SleepsWhileNothingReadable
  <1>1. IInv => SleepsWhileNothingReadable
    <2> SUFFICES ASSUME IInv, ftp.pc = "sleep", Waits
                 PROVE  scb.sem <=> Readable # {}
      BY DEF SleepsWhileNothingReadable
    <2>1. held = {}
      BY DEF IInv, TaskTypes, SelectHeld, SocketHeld
    <2>2. NoEvents(todo)
      BY <2>1, WaitingShape DEF IInv
    <2>3. ~WillSignal
      BY <2>2 DEF WillSignal, NoEvents, Event
    <2> QED
      BY <2>3 DEF IInv, SleepInv, SocketTypes
  <1> QED
    BY <1>1, Invariance, PTL

-----------------------------------------------------------------------------
(* What belongs to whom, and how events are counted                        *)

\* A netconn on its way out, a socket being made, a socket being given back.
Returning == Going("delete") \/ Going("free")
Opening == ftp.pc \in {"accept", "hand over"}
Closing(i) == ftp.pc \in {"close", "closed"} /\ ftp.i = i
HasSocket == \/ ftp.pc \in {"fetch", "minus", "less", "taken", "receive", "ended"}
             \/ Going("copy") \/ (Returning /\ ftp.i # 0)

\* The netconn between the listener's mailbox and its socket.
Accepted ==
    IF ftp.i = 0 /\ (ftp.pc \in {"minus", "less", "taken"} \/ Going("peer")) THEN {ftp.m}
    ELSE IF Going("alloc") \/ ftp.pc = "slot" \/ Opening \/ (Returning /\ ftp.i = 0) THEN {ftp.c}
    ELSE {}

\* Netconns and sockets point to each other.
SocketInv ==
    /\ socket[Listener] = 0
    /\ \A i \in Indices : conn[i] = Listener <=> i = 0
    /\ \A c \in live : socket[c] >= 0 => conn[socket[c]] = c /\ ~Closing(socket[c])
    /\ \A i \in Indices \ {0} : conn[i] # None =>
          \/ conn[i] \in live /\ socket[conn[i]] = i
          \/ Opening /\ ftp.i = i
          \/ Closing(i)
    /\ HasSocket => /\ conn[ftp.i] = ftp.c /\ socket[ftp.c] = ftp.i
                    /\ ftp.i # 0 => ftp.c \in live
    /\ Opening => ftp.i # 0 /\ conn[ftp.i] = ftp.c

\* The listener's mailbox and what has been taken from it have no socket yet.
AcceptInv ==
    /\ live \subseteq Conns
    /\ IsInjective(mbox[Listener]) /\ ToSet(mbox[Listener]) \subseteq live
    /\ Accepted \subseteq live \ ToSet(mbox[Listener])
    /\ \A c \in ToSet(mbox[Listener]) \cup Accepted : socket[c] < 0

\* There is something to read where the task is about to read.
ReadyInv ==
    /\ rcvevent \in [Indices -> Nat] /\ lastdata \in [Indices -> BOOLEAN]
    /\ ftp.pc \in {"fetch", "minus", "less"} => rcvevent[ftp.i] >= 1
    /\ ftp.pc = "receive" => lastdata[ftp.i] \/ rcvevent[ftp.i] >= 1
    /\ \A i \in ready : lastdata[i] \/ rcvevent[i] >= 1
    /\ ~lastdata[0]
    /\ Opening => rcvevent[ftp.i] = 0

\* What the thread is about to do is for netconns that are there.
PcbInv ==
    /\ pcb \in [Conns -> {"none", "open", "ended", "lastack", "freed"}]
    /\ fatal \in [Conns -> BOOLEAN]
    /\ closing \subseteq live
    /\ \A c \in Conns : refused[c] # 0 => pcb[c] # "none"
    /\ \A c \in Conns \ live : mbox[c] = <<>> /\ pcb[c] = "none"
    /\ api # None => api.c \in live \cup {Listener}
    /\ \A o \in ToSet(todo) :
          /\ o.c \in live \cup {Listener}
          /\ o.op \in {"count", "add"} => o.x = 1 \/ Deleting(o.c)
          /\ o.op = "deliver" => pcb[o.c] # "none"

\* A netconn is given back when its pcb is gone.
CloseInv ==
    /\ ftp.pc = "free" => \A o \in ToSet(todo) : o.c # ftp.c
    /\ Going("free") /\ api = None /\ closing = {} => pcb[ftp.c] = "none"
    /\ \A c \in closing : c = ftp.c /\ ftp.pc = "asked" /\ ftp.then = "free"
    /\ api # None => /\ api.fn = "delete" <=> ftp.then = "free"
                     /\ api.fn = "delete" => api.c = ftp.c

\* The events for c among what is to be done, less the ends to be posted.
Counts(c) == {o \in Ops : o.op \in {"count", "add"} /\ o.c = c}
Posts(c) == {o \in Ops : o.op = "post" /\ o.c = c}
Owed(c, s) == Occurrences(s, Counts(c)) - Occurrences(s, Posts(c))
Weight(c, o) == IF o.c # c THEN 0
                ELSE IF o.op \in {"count", "add"} THEN 1 ELSE IF o.op = "post" THEN -1 ELSE 0
InHand(c) == IF ftp.c = c /\ ftp.pc \in {"minus", "less"} THEN 1 ELSE 0

CountInv ==
    \A c \in live \cup {Listener} : ~Deleting(c) =>
        Counted(c) + Owed(c, todo) = Len(mbox[c]) + InHand(c)

AccInv == SocketInv /\ AcceptInv /\ ReadyInv /\ PcbInv /\ CloseInv /\ CountInv

-----------------------------------------------------------------------------
(* Events counted along todo                                               *)

LEMMA WeightOne ==
    ASSUME NEW o \in Ops, NEW c
    PROVE  Owed(c, <<o>>) = Weight(c, o)
  <1>1. Occurrences(<<o>>, Counts(c)) = IF o.c = c /\ o.op \in {"count", "add"} THEN 1 ELSE 0
    BY OccurrencesFew DEF Counts
  <1>2. Occurrences(<<o>>, Posts(c)) = IF o.c = c /\ o.op = "post" THEN 1 ELSE 0
    BY OccurrencesFew DEF Posts
  <1> QED
    BY <1>1, <1>2 DEF Owed, Weight

LEMMA OwedEmpty == \A c : Owed(c, <<>>) = 0
  <1> TAKE c
  <1>1. \A S : S # {} => \A T : Occurrences(<<>>, T) = 0
    BY OccurrencesFew
  <1>2. \A T : Occurrences(<<>>, T) = 0
    BY <1>1
  <1> QED
    BY <1>2 DEF Owed

LEMMA OwedConcat ==
    ASSUME NEW c, NEW s \in Seq(Ops), NEW t \in Seq(Ops)
    PROVE  /\ Owed(c, s) \in Int
           /\ Owed(c, s \o t) = Owed(c, s) + Owed(c, t)
  <1>1. ASSUME NEW T
        PROVE  /\ Occurrences(s, T) \in Int /\ Occurrences(t, T) \in Int
               /\ Occurrences(s \o t, T) = Occurrences(s, T) + Occurrences(t, T)
    <2>1. Occurrences(s, T) \in Nat /\ Occurrences(t, T) \in Nat
      BY OccurrencesType
    <2>2. Occurrences(s \o t, T) = Occurrences(s, T) + Occurrences(t, T)
      BY OccurrencesConcat
    <2> QED
      BY <2>1, <2>2
  <1>2. PICK P, Q : P = Counts(c) /\ Q = Posts(c)
    OBVIOUS
  <1>3. /\ Occurrences(s, P) \in Int /\ Occurrences(t, P) \in Int
        /\ Occurrences(s \o t, P) = Occurrences(s, P) + Occurrences(t, P)
    BY <1>1
  <1>4. /\ Occurrences(s, Q) \in Int /\ Occurrences(t, Q) \in Int
        /\ Occurrences(s \o t, Q) = Occurrences(s, Q) + Occurrences(t, Q)
    BY <1>1
  <1> QED
    BY <1>2, <1>3, <1>4 DEF Owed

LEMMA OwedTail ==
    ASSUME NEW c, NEW s \in Seq(Ops), s # <<>>
    PROVE  /\ Owed(c, s) \in Int /\ Owed(c, Tail(s)) \in Int
           /\ Owed(c, s) = Owed(c, Tail(s)) + Weight(c, Head(s))
  <1>0. Head(s) \in Ops /\ Tail(s) \in Seq(Ops) /\ <<Head(s)>> \in Seq(Ops) /\ s = <<Head(s)>> \o Tail(s)
    OBVIOUS
  <1>1. PICK h \in Ops, t \in Seq(Ops) : h = Head(s) /\ t = Tail(s) /\ s = <<h>> \o t /\ <<h>> \in Seq(Ops)
    BY <1>0
  <1>2. Owed(c, <<h>>) = Weight(c, h)
    BY WeightOne
  <1>3. /\ Owed(c, <<h>>) \in Int /\ Owed(c, t) \in Int /\ Owed(c, s) \in Int
        /\ Owed(c, s) = Owed(c, <<h>>) + Owed(c, t)
    BY <1>1, OwedConcat
  <1> QED
    BY <1>1, <1>2, <1>3

\* What is not about c does not count.
LEMMA OwedNothing ==
    ASSUME NEW c, NEW s \in Seq(Ops),
           \A o \in ToSet(s) : o.c # c \/ o.op \notin {"count", "add", "post"}
    PROVE  Owed(c, s) = 0
  <1>1. \A k \in 1 .. Len(s) : s[k] \notin Counts(c) /\ s[k] \notin Posts(c)
    BY DEF Counts, Posts, ToSet
  <1>2. Occurrences(s, Counts(c)) = 0 /\ Occurrences(s, Posts(c)) = 0
    BY <1>1, OccurrencesType
  <1> QED
    BY <1>2 DEF Owed

LEMMA OpFields ==
    ASSUME NEW op \in {"deliver", "post", "count", "add", "scan", "clear", "rearm", "done"},
           NEW c \in Netconns, NEW x \in Int
    PROVE  /\ Op(op, c, x) \in Ops
           /\ Op(op, c, x).op = op /\ Op(op, c, x).c = c /\ Op(op, c, x).x = x
  BY DEF Op, Ops

LEMMA OneOwed ==
    ASSUME NEW op \in {"deliver", "post", "count", "add", "scan", "clear", "rearm", "done"},
           NEW c \in Netconns, NEW x \in Int
    PROVE  /\ <<Op(op, c, x)>> \in Seq(Ops)
           /\ ToSet(<<Op(op, c, x)>>) = {Op(op, c, x)}
           /\ \A d : Owed(d, <<Op(op, c, x)>>) =
                 IF d # c THEN 0
                 ELSE IF op \in {"count", "add"} THEN 1 ELSE IF op = "post" THEN -1 ELSE 0
  <1> DEFINE o == Op(op, c, x)
  <1>1. o \in Ops /\ o.op = op /\ o.c = c
    BY OpFields
  <1> HIDE DEF o
  <1>2. /\ <<o>> \in Seq(Ops) /\ ToSet(<<o>>) = {o}
        /\ \A d : Owed(d, <<o>>) = Weight(d, o)
    BY <1>1, SingleElements, WeightOne
  <1>3. \A d : Weight(d, o) = IF d # c THEN 0
                       ELSE IF op \in {"count", "add"} THEN 1 ELSE IF op = "post" THEN -1 ELSE 0
    BY <1>1 DEF Weight
  <1> QED
    BY <1>2, <1>3 DEF o

\* An event is counted once, wherever it is for.
LEMMA EventOwed ==
    ASSUME SocketTypes, NEW c \in Netconns, NEW x \in Int
    PROVE  /\ Callback(c, x) \in Seq(Ops) /\ ApiEvent(c, x) \in Seq(Ops)
           /\ \A o \in ToSet(Callback(c, x)) :
                 o.c = c /\ o.op \in {"count", "add", "scan"} /\ (o.op # "scan" => o.x = x)
           /\ \A o \in ToSet(ApiEvent(c, x)) :
                 o.c = c /\ o.op \in {"count", "add", "scan"} /\ (o.op # "scan" => o.x = x)
           /\ \A d : Owed(d, Callback(c, x)) = IF d = c /\ conn[socket[c]] # None THEN 1 ELSE 0
           /\ \A d : Owed(d, ApiEvent(c, x)) =
                 IF d = c /\ (socket[c] < 0 \/ conn[socket[c]] # None) THEN 1 ELSE 0
  <1> DEFINE a == Op("add", c, x)  s == Op("scan", c, 0)  n == Op("count", c, x)
  <1>1. /\ a \in Ops /\ s \in Ops /\ n \in Ops
        /\ a.op = "add" /\ s.op = "scan" /\ n.op = "count"
        /\ a.c = c /\ s.c = c /\ n.c = c /\ a.x = x /\ n.x = x
    BY OpFields
  <1> HIDE DEF a, s, n
  <1>2. /\ <<a>> \in Seq(Ops) /\ <<s>> \in Seq(Ops) /\ <<n>> \in Seq(Ops)
        /\ \A d : /\ Owed(d, <<a>>) = Weight(d, a) /\ Owed(d, <<s>>) = Weight(d, s)
                  /\ Owed(d, <<n>>) = Weight(d, n)
    BY <1>1, WeightOne
  <1>3. \A d :
        /\ Weight(d, a) = (IF d = c THEN 1 ELSE 0) /\ Weight(d, s) = 0
        /\ Weight(d, n) = IF d = c THEN 1 ELSE 0
    BY <1>1 DEF Weight
  <1>4. <<a>> \o <<s>> = <<a, s>>
    <2> SUFFICES ASSUME NEW S, NEW b \in S, NEW t \in S
                 PROVE  <<b>> \o <<t>> = <<b, t>>
      BY <1>1
    <2>1. <<b>> \in Seq(S) /\ <<t>> \in Seq(S) /\ <<b, t>> \in Seq(S) /\ Len(<<b, t>>) = 2
      OBVIOUS
    <2>2. /\ <<b>> \o <<t>> \in Seq(S) /\ Len(<<b>> \o <<t>>) = 2
          /\ (<<b>> \o <<t>>)[1] = b /\ (<<b>> \o <<t>>)[2] = t
      BY <2>1, ConcatProperties
    <2>3. \A i \in 1 .. 2 : i = 1 \/ i = 2
      OBVIOUS
    <2>4. <<b, t>>[1] = b /\ <<b, t>>[2] = t
      OBVIOUS
    <2>5. \A i \in 1 .. 2 : (<<b>> \o <<t>>)[i] = <<b, t>>[i]
      BY <2>2, <2>3, <2>4
    <2>6. PICK r \in Seq(S), q \in Seq(S) : r = <<b>> \o <<t>> /\ q = <<b, t>>
      BY <2>1, <2>2
    <2>7. Len(r) = 2 /\ Len(q) = 2 /\ \A i \in 1 .. 2 : r[i] = q[i]
      BY <2>1, <2>2, <2>5, <2>6
    <2>8. r = q
      BY <2>7, SeqEqual
    <2> QED
      BY <2>6, <2>8
  <1>5. \A d : Owed(d, <<a, s>>) = IF d = c THEN 1 ELSE 0
    <2> TAKE d
    <2>1. Owed(d, <<a>> \o <<s>>) = Owed(d, <<a>>) + Owed(d, <<s>>)
      BY <1>2, OwedConcat
    <2>2. Owed(d, <<a>>) + Owed(d, <<s>>) = IF d = c THEN 1 ELSE 0
      BY <1>2, <1>3
    <2> QED
      BY <1>4, <2>1, <2>2
  <1>6. <<a, s>> \in Seq(Ops) /\ ToSet(<<a, s>>) = {a, s} /\ ToSet(<<n>>) = {n}
    <2>1. a \in Ops /\ s \in Ops /\ n \in Ops
      BY <1>1
    <2>2. <<a, s>> \in Seq(Ops) /\ ToSet(<<a, s>>) = {a, s}
      BY <2>1, SingleElements
    <2>3. ToSet(<<n>>) = {n}
      BY <2>1, SingleElements
    <2> QED
      BY <2>2, <2>3
  <1>7. Callback(c, x) = (IF conn[socket[c]] = None THEN <<>> ELSE <<a, s>>)
    BY DEF Callback, a, s
  <1>8. ApiEvent(c, x) = (IF socket[c] < 0 THEN <<n>> ELSE Callback(c, x))
    BY DEF ApiEvent, n
  <1>9. /\ Callback(c, x) \in Seq(Ops)
        /\ \A o \in ToSet(Callback(c, x)) :
              o.c = c /\ o.op \in {"count", "add", "scan"} /\ (o.op # "scan" => o.x = x)
        /\ \A d : Owed(d, Callback(c, x)) = IF d = c /\ conn[socket[c]] # None THEN 1 ELSE 0
    <2>1. CASE conn[socket[c]] = None
      <3>1. Callback(c, x) = <<>>
        BY <1>7, <2>1
      <3> QED
        BY <2>1, <3>1, OwedEmpty, OrderedEmpty
    <2>2. CASE conn[socket[c]] # None
      <3>1. Callback(c, x) = <<a, s>>
        BY <1>7, <2>2
      <3> HIDE DEF Callback
      <3> QED
        BY <1>1, <1>5, <1>6, <2>2, <3>1
    <2> QED
      BY <2>1, <2>2
  <1>10. CASE socket[c] < 0
    <2>1. ApiEvent(c, x) = <<n>>
      BY <1>8, <1>10
    <2> QED
      BY <1>1, <1>2, <1>3, <1>6, <1>9, <1>10, <2>1
  <1>11. CASE ~(socket[c] < 0)
    <2>1. ApiEvent(c, x) = Callback(c, x)
      BY <1>8, <1>11
    <2> QED
      BY <1>9, <1>11, <2>1
  <1> QED
    BY <1>10, <1>11

\* Counting along todo is what the property says.
LEMMA ComingOwed ==
    ASSUME IInv
    PROVE  /\ \A c \in Netconns : Coming(c, {"count", "add"}) - Coming(c, {"post"}) = Owed(c, todo)
           /\ \A c \in Netconns : Coming(c, {"count", "add"}) \in Nat /\ Coming(c, {"post"}) \in Nat
  <1>1. todo \in Seq(Ops)
    BY DEF IInv, Ordered
  <1>2. ASSUME NEW c \in Netconns
        PROVE  /\ Coming(c, {"count", "add"}) = Occurrences(todo, Counts(c))
               /\ Coming(c, {"post"}) = Occurrences(todo, Posts(c))
    <2>1. \A k \in 1 .. Len(todo) : todo[k] \in Ops
      BY <1>1
    <2>2. {k \in 1 .. Len(todo) : todo[k].op \in {"count", "add"} /\ todo[k].c = c}
             = {k \in 1 .. Len(todo) : todo[k] \in Counts(c)}
      BY <2>1 DEF Counts
    <2>3. {k \in 1 .. Len(todo) : todo[k].op \in {"post"} /\ todo[k].c = c}
             = {k \in 1 .. Len(todo) : todo[k] \in Posts(c)}
      BY <2>1 DEF Posts
    <2> QED
      BY <2>2, <2>3 DEF Coming, Occurrences
  <1>3. ASSUME NEW c \in Netconns
        PROVE  Occurrences(todo, Counts(c)) \in Nat /\ Occurrences(todo, Posts(c)) \in Nat
    BY <1>1, OccurrencesType
  <1> QED
    BY <1>2, <1>3 DEF Owed

-----------------------------------------------------------------------------
(* Accounts: steps of the network and of the thread                        *)

\* Whose netconn the task holds.
LEMMA TaskConn ==
    ASSUME IInv, SocketInv, AcceptInv
    PROVE  /\ Returning => ftp.c \in live
           /\ Opening => ftp.c \in live /\ socket[ftp.c] < 0
           /\ HasSocket => ftp.c \in live \cup {Listener} /\ (ftp.i = 0 => ftp.c = Listener)
  <1>1. Returning /\ ftp.i = 0 => ftp.c \in Accepted
    BY DEF Accepted, Returning, Going, Opening
  <1>2. Opening => ftp.c \in Accepted
    BY DEF Accepted, Opening, Going
  <1>3. Returning /\ ftp.i # 0 => HasSocket
    BY DEF HasSocket
  <1>4. conn[0] = Listener
    BY DEF IInv, SocketTypes
  <1> QED
    BY <1>1, <1>2, <1>3, <1>4 DEF SocketInv, AcceptInv

LEMMA ThreadFrame ==
    ASSUME SocketInv, AcceptInv, ReadyInv,
           UNCHANGED <<conn, rcvevent, lastdata, socket, live, ftp, ready>>,
           mbox'[Listener] = mbox[Listener]
    PROVE  SocketInv' /\ AcceptInv' /\ ReadyInv'
  <1>1. SocketInv'
    BY DEF SocketInv, HasSocket, Opening, Closing, Returning, Going
  <1>2. AcceptInv'
    BY DEF AcceptInv, Accepted, Opening, Returning, Going
  <1>3. ReadyInv'
    BY DEF ReadyInv, Opening
  <1> QED
    BY <1>1, <1>2, <1>3

LEMMA CountFrame ==
    ASSUME CountInv, UNCHANGED <<rcvevent, socket, live, ftp, mbox>>,
           \A c \in live \cup {Listener} : ~Deleting(c) => Owed(c, todo') = Owed(c, todo)
    PROVE  CountInv'
  <1>1. \A c : /\ Counted(c)' = Counted(c) /\ InHand(c)' = InHand(c)
               /\ Deleting(c)' <=> Deleting(c)
    BY DEF Counted, InHand, Deleting
  <1> QED
    BY <1>1 DEF CountInv

LEMMA ConnectedAcc ==
    ASSUME IInv, AccInv, NEW c \in Conns, Connected(c)
    PROVE  AccInv'
  <1>1. /\ todo = <<>> /\ api = None /\ c \notin live
        /\ live' = live \cup {c}
        /\ socket' = [socket EXCEPT ![c] = -1]
        /\ fatal' = [fatal EXCEPT ![c] = FALSE]
        /\ pcb' = [pcb EXCEPT ![c] = "open"]
        /\ mbox' = [mbox EXCEPT ![Listener] = Append(@, c)]
        /\ todo' = ApiEvent(Listener, 1)
        /\ UNCHANGED <<conn, rcvevent, lastdata, refused, closing, api, ftp, ready>>
    BY DEF Connected, Idle, sockets, ghosts, task
  <1>2. /\ SocketTypes /\ SocketInv /\ AcceptInv /\ ReadyInv /\ PcbInv /\ CloseInv /\ CountInv
        /\ conn[0] = Listener
    BY DEF IInv, AccInv, SocketTypes
  <1>3. c # Listener /\ c \in Netconns /\ Listener \in Netconns /\ None # Listener /\ 0 \in Indices
    BY SocketsAssumption, ConnNetconn, IndicesType DEF Netconns
  <1>4. socket'[c] = -1 /\ \A d \in Netconns : d # c => socket'[d] = socket[d]
    BY <1>1, <1>2, <1>3 DEF SocketTypes
  <1>5. /\ mbox'[Listener] = Append(mbox[Listener], c)
        /\ \A d \in Netconns : d # Listener => mbox'[d] = mbox[d]
    BY <1>1, <1>2, <1>3 DEF SocketTypes
  <1>6. /\ todo' \in Seq(Ops)
        /\ \A o \in ToSet(todo') : o.c = Listener /\ o.op \in {"count", "add", "scan"} /\ (o.op # "scan" => o.x = 1)
        /\ \A d : Owed(d, todo') = IF d = Listener THEN 1 ELSE 0
    <2>1. socket[Listener] = 0
      BY <1>2 DEF SocketInv
    <2>2. /\ ApiEvent(Listener, 1) \in Seq(Ops)
          /\ \A o \in ToSet(ApiEvent(Listener, 1)) :
                o.c = Listener /\ o.op \in {"count", "add", "scan"} /\ (o.op # "scan" => o.x = 1)
          /\ \A d : Owed(d, ApiEvent(Listener, 1)) =
                IF d = Listener /\ (socket[Listener] < 0 \/ conn[socket[Listener]] # None) THEN 1 ELSE 0
      <3>1. SocketTypes /\ Listener \in Netconns /\ 1 \in Int
        BY <1>2, <1>3
      <3> QED
        BY <3>1, EventOwed
    <2> QED
      BY <1>1, <1>2, <1>3, <2>1, <2>2
  <1>7. live \subseteq Netconns
    BY <1>2 DEF AcceptInv, Netconns
  <1>8. /\ Returning => ftp.c \in live
        /\ Opening => ftp.c \in live
        /\ HasSocket => ftp.c \in live \cup {Listener}
        /\ HasSocket /\ ftp.i # 0 => ftp.c \in live
    BY <1>2, TaskConn DEF SocketInv
  <1>9. /\ (Returning <=> Returning') /\ (Opening <=> Opening') /\ (HasSocket <=> HasSocket')
        /\ Accepted' = Accepted /\ \A i : Closing(i)' <=> Closing(i)
    BY <1>1 DEF Returning, Going, Opening, HasSocket, Accepted, Closing
  <1>10. SocketInv'
    <2>1. HasSocket => socket'[ftp.c] = socket[ftp.c]
      BY <1>1, <1>3, <1>4, <1>7, <1>8
    <2>2. ASSUME NEW d \in live', socket'[d] >= 0
          PROVE  conn[socket'[d]] = d /\ ~Closing(socket'[d])
      <3>1. d # c
        BY <1>4, <2>2
      <3>2. d \in live /\ socket'[d] = socket[d]
        BY <1>1, <1>4, <1>7, <2>2, <3>1
      <3> QED
        BY <1>2, <2>2, <3>2 DEF SocketInv
    <2>3. ASSUME NEW i \in Indices \ {0}, conn[i] # None
          PROVE  \/ conn[i] \in live' /\ socket'[conn[i]] = i
                 \/ Opening /\ ftp.i = i
                 \/ Closing(i)
      <3>1. conn[i] \in live => conn[i] # c /\ conn[i] \in Netconns
        BY <1>1, <1>7
      <3> QED
        BY <1>1, <1>2, <1>4, <2>3, <3>1 DEF SocketInv
    <2>4. socket'[Listener] = 0
      BY <1>2, <1>3, <1>4 DEF SocketInv
    <2> QED
      BY <1>1, <1>2, <1>9, <2>1, <2>2, <2>3, <2>4 DEF SocketInv
  <1>11. AcceptInv'
    <2>1. mbox[Listener] \in Seq(Conns)
      BY <1>2 DEF SocketTypes
    <2>2. ToSet(mbox[Listener]) \subseteq live /\ IsInjective(mbox[Listener])
          /\ Accepted \subseteq live \ ToSet(mbox[Listener]) /\ live \subseteq Conns
      BY <1>2 DEF AcceptInv
    <2>3. /\ ToSet(mbox'[Listener]) = {c} \cup ToSet(mbox[Listener])
          /\ IsInjective(mbox'[Listener])
      BY <1>1, <1>5, <2>1, <2>2, AppendElements
    <2>4. \A d \in ToSet(mbox'[Listener]) \cup Accepted : socket'[d] < 0
      BY <1>1, <1>2, <1>4, <1>7, <2>2, <2>3 DEF AcceptInv
    <2> QED
      BY <1>1, <1>9, <2>2, <2>3, <2>4 DEF AcceptInv
  <1>12. ReadyInv'
    BY <1>1, <1>2, <1>9 DEF ReadyInv
  <1>13. PcbInv'
    <2>1. \A o \in ToSet(todo') :
          /\ o.c \in live' \cup {Listener}
          /\ o.op \in {"count", "add"} => o.x = 1 \/ Deleting(o.c)'
          /\ o.op = "deliver" => pcb'[o.c] # "none"
      BY <1>6
    <2>2. pcb' \in [Conns -> {"none", "open", "ended", "lastack", "freed"}] /\ fatal' \in [Conns -> BOOLEAN]
      BY <1>1, <1>2 DEF PcbInv
    <2>3. \A d \in Conns : d # c => pcb'[d] = pcb[d] /\ mbox'[d] = mbox[d]
      BY <1>1, <1>2, <1>3, <1>5, SocketsAssumption, ConnNetconn DEF PcbInv
    <2>4. pcb'[c] = "open"
      BY <1>1, <1>2 DEF PcbInv
    <2> QED
      BY <1>1, <1>2, <2>1, <2>2, <2>3, <2>4 DEF PcbInv
  <1>14. CloseInv'
    <2>1. Going("free") => ftp.c \in live /\ ftp.c # Listener /\ ftp.c # c
      BY <1>1, <1>2, <1>8, SocketsAssumption DEF Returning, AcceptInv
    <2>2. Going("free") => pcb'[ftp.c] = pcb[ftp.c]
      BY <1>1, <1>2, <2>1 DEF PcbInv, AcceptInv
    <2> QED
      BY <1>1, <1>2, <1>6, <2>1, <2>2 DEF CloseInv, Going
  <1>15. CountInv'
    <2>1. \A d : InHand(d)' = InHand(d) /\ (Deleting(d)' <=> Deleting(d))
      BY <1>1 DEF InHand, Deleting
    <2>2. \A d : Owed(d, todo) = 0
      BY <1>1, OwedEmpty
    <2>3. ASSUME NEW d \in live, ~Deleting(d)
          PROVE  Counted(d)' + Owed(d, todo') = Len(mbox'[d]) + InHand(d)
      <3>1. d # c /\ d # Listener /\ d \in Netconns
        BY <1>1, <1>2, <1>7, SocketsAssumption DEF AcceptInv
      <3>2. Counted(d)' = Counted(d) /\ mbox'[d] = mbox[d] /\ Owed(d, todo') = 0
        BY <1>1, <1>4, <1>5, <1>6, <3>1 DEF Counted
      <3> QED
        BY <1>2, <2>2, <2>3, <3>2 DEF CountInv
    <2>4. ~Deleting(Listener) => Counted(Listener)' + Owed(Listener, todo') = Len(mbox'[Listener]) + InHand(Listener)
      <3>1. Counted(Listener)' = Counted(Listener) /\ Owed(Listener, todo') = 1
        BY <1>1, <1>3, <1>4, <1>6 DEF Counted
      <3>2. Len(mbox'[Listener]) = Len(mbox[Listener]) + 1 /\ Len(mbox[Listener]) \in Nat
        BY <1>2, <1>5 DEF SocketTypes
      <3>3. InHand(Listener) \in Int
        BY DEF InHand
      <3> SUFFICES ASSUME ~Deleting(Listener) PROVE Counted(Listener)' + Owed(Listener, todo') = Len(mbox'[Listener]) + InHand(Listener)
        OBVIOUS
      <3>4. Counted(Listener) + 0 = Len(mbox[Listener]) + InHand(Listener)
        BY <1>2, <2>2 DEF CountInv
      <3>5. Counted(Listener) \in Int
        BY <1>2, <1>3 DEF Counted, SocketInv, SocketTypes
      <3> QED
        BY <3>1, <3>2, <3>3, <3>4, <3>5
    <2>5. Counted(c)' + Owed(c, todo') = Len(mbox'[c]) + InHand(c)
      <3>1. Counted(c)' = 0
        BY <1>4 DEF Counted
      <3>2. Owed(c, todo') = 0
        BY <1>3, <1>6
      <3>3. mbox'[c] = <<>>
        BY <1>1, <1>2, <1>3, <1>5 DEF PcbInv
      <3>4. InHand(c) = 0
        BY <1>1, <1>3, <1>8 DEF InHand, HasSocket
      <3> QED
        BY <3>1, <3>2, <3>3, <3>4
    <2> QED
      BY <1>1, <2>1, <2>3, <2>4, <2>5 DEF CountInv
  <1> QED
    BY <1>10, <1>11, <1>12, <1>13, <1>14, <1>15 DEF AccInv

\* Steps of the thread with nothing left to do that leave mailboxes and sockets
\* alone: what is left to show of them.
LEMMA IdleStep ==
    ASSUME IInv, AccInv, todo = <<>>, todo' \in Seq(Ops),
           UNCHANGED <<conn, rcvevent, lastdata, socket, mbox, live, ftp, ready>>,
           pcb' \in [Conns -> {"none", "open", "ended", "lastack", "freed"}],
           fatal' \in [Conns -> BOOLEAN],
           closing' \subseteq closing \cup {ftp.c},
           closing' # {} => ftp.pc = "asked" /\ ftp.then = "free",
           \A c \in Conns : refused'[c] # 0 => pcb'[c] # "none",
           \A c \in Conns : pcb[c] = "none" => pcb'[c] = "none",
           Going("free") /\ api' = None /\ closing' = {} => pcb'[ftp.c] = "none",
           api' = api \/ api' = None,
           \A o \in ToSet(todo') :
              /\ o.c \in live \cup {Listener}
              /\ o.op \in {"count", "add"} => o.x = 1 \/ Deleting(o.c)
              /\ o.op = "deliver" => pcb'[o.c] # "none"
              /\ ftp.pc = "free" => o.c # ftp.c,
           \A c \in live \cup {Listener} : ~Deleting(c) => Owed(c, todo') = 0
    PROVE  AccInv'
  <1>1. /\ SocketInv /\ AcceptInv /\ ReadyInv /\ PcbInv /\ CloseInv /\ CountInv
    BY DEF AccInv
  <1>2. SocketInv' /\ AcceptInv' /\ ReadyInv'
    BY <1>1, ThreadFrame
  <1>3. \A c : Deleting(c)' <=> Deleting(c)
    BY DEF Deleting
  <1>4. PcbInv'
    <2>1. closing' \subseteq live
      <3>1. Going("free") => ftp.c \in live
        BY <1>1, TaskConn DEF Returning
      <3>2. closing' # {} => ftp.c \in live
        BY <3>1 DEF Going
      <3>3. closing \subseteq live
        BY <1>1 DEF PcbInv
      <3> QED
        BY <3>2, <3>3
    <2> QED
      BY <1>1, <1>3, <2>1 DEF PcbInv
  <1>5. CloseInv'
    BY <1>1 DEF CloseInv, Going
  <1>6. CountInv'
    <2>1. \A c : Owed(c, todo) = 0
      BY OwedEmpty
    <2> QED
      BY <1>1, <2>1, CountFrame
  <1> QED
    BY <1>2, <1>4, <1>5, <1>6 DEF AccInv

LEMMA CountedType ==
    ASSUME IInv, AccInv, NEW c \in live \cup {Listener}
    PROVE  /\ c \in Netconns /\ Counted(c) \in Int
           /\ socket[c] \in Int /\ (socket[c] >= 0 => socket[c] \in Indices /\ conn[socket[c]] = c)
           /\ mbox[c] \in Seq(Int \cup Conns) /\ Len(mbox[c]) \in Nat /\ InHand(c) \in Int
  <1>1. c \in Netconns
    BY DEF AccInv, AcceptInv, Netconns
  <1>2. /\ socket[c] \in Int /\ mbox[c] \in Seq(Int \cup Conns) /\ conn[0] = Listener
        /\ socket[c] < 0 \/ socket[c] \in Indices
    BY <1>1 DEF IInv, SocketTypes
  <1>3. socket[c] >= 0 => socket[c] \in Indices /\ conn[socket[c]] = c
    BY <1>2 DEF AccInv, SocketInv
  <1>4. Counted(c) \in Int
    BY <1>2, <1>3 DEF Counted, IInv, SocketTypes
  <1> QED
    BY <1>1, <1>2, <1>3, <1>4 DEF InHand

\* The message that was refused is counted before anything else.
LEMMA OfferAcc ==
    ASSUME IInv, AccInv, NEW c \in Conns, NEW then \in {"clear", "rearm"}, Offer(c, then)
    PROVE  AccInv'
  <1>1. /\ refused[c] # 0
        /\ UNCHANGED <<conn, rcvevent, lastdata, socket, pcb, closing, live, api, ftp, ready>>
    BY DEF Offer, sockets, task
  <1>2. /\ SocketTypes /\ SocketInv /\ AcceptInv /\ ReadyInv /\ PcbInv /\ CloseInv /\ CountInv
        /\ AnswerInv /\ todo \in Seq(Ops)
    BY DEF IInv, AccInv, Ordered
  <1>3. /\ pcb[c] # "none" /\ c \in live /\ c \in Netconns /\ c # Listener /\ c # None
        /\ refused[c] \in Int
    BY <1>1, <1>2, ConnNetconn, SocketsAssumption DEF PcbInv, SocketTypes
  <1>4. \A d : Deleting(d)' <=> Deleting(d)
    BY <1>1 DEF Deleting
  <1>5. CASE refused' = [refused EXCEPT ![c] = 0] /\ UNCHANGED <<mbox, fatal, todo>>
    <2>1. SocketInv' /\ AcceptInv' /\ ReadyInv'
      BY <1>1, <1>2, <1>5, ThreadFrame
    <2>2. \A d \in Conns : refused'[d] # 0 => refused[d] # 0
      BY <1>2, <1>5 DEF SocketTypes
    <2>3. PcbInv'
      BY <1>1, <1>2, <1>4, <1>5, <2>2 DEF PcbInv
    <2>4. CloseInv'
      BY <1>1, <1>2, <1>5 DEF CloseInv, Going
    <2>5. CountInv'
      BY <1>1, <1>2, <1>5, CountFrame
    <2> QED
      BY <2>1, <2>3, <2>4, <2>5 DEF AccInv
  <1>6. CASE /\ mbox' = [mbox EXCEPT ![c] = Append(@, refused[c])]
             /\ fatal' = [fatal EXCEPT ![c] = FALSE]
             /\ todo' = ApiEvent(c, 1) \o <<Op(then, c, 0)>> \o todo
             /\ UNCHANGED refused
    <2> DEFINE a == ApiEvent(c, 1)  b == <<Op(then, c, 0)>>
    <2>1. /\ a \in Seq(Ops)
          /\ \A o \in ToSet(a) : o.c = c /\ o.op \in {"count", "add", "scan"} /\ (o.op # "scan" => o.x = 1)
          /\ \A d : Owed(d, a) = IF d = c THEN 1 ELSE 0
      <3>1. /\ a \in Seq(Ops)
            /\ \A o \in ToSet(a) : o.c = c /\ o.op \in {"count", "add", "scan"} /\ (o.op # "scan" => o.x = 1)
            /\ \A d : Owed(d, a) = IF d = c /\ (socket[c] < 0 \/ conn[socket[c]] # None) THEN 1 ELSE 0
        <4>1. SocketTypes /\ c \in Netconns /\ 1 \in Int
          BY <1>2, <1>3
        <4> QED
          BY <4>1, EventOwed
      <3>2. socket[c] < 0 \/ conn[socket[c]] # None
        BY <1>2, <1>3 DEF SocketInv, SocketTypes
      <3> QED
        BY <3>1, <3>2
    <2>2. /\ b \in Seq(Ops) /\ \A o \in ToSet(b) : o.c = c /\ o.op \in {"clear", "rearm"}
          /\ \A d : Owed(d, b) = 0
      <3>1. b \in Seq(Ops) /\ ToSet(b) = {Op(then, c, 0)} /\ \A d : Owed(d, b) = 0
        BY <1>3, OneOwed
      <3>2. Op(then, c, 0).c = c /\ Op(then, c, 0).op = then
        BY <1>3, OpFields
      <3> HIDE DEF b
      <3> QED
        BY <3>1, <3>2
    <2>3. todo' = (a \o b) \o todo
      BY <1>6
    <2> HIDE DEF a, b
    <2>4. /\ a \o b \in Seq(Ops) /\ ToSet(a \o b) = ToSet(a) \cup ToSet(b)
          /\ \A d : Owed(d, a \o b) = IF d = c THEN 1 ELSE 0
      <3>1. a \o b \in Seq(Ops) /\ ToSet(a \o b) = ToSet(a) \cup ToSet(b)
        BY <2>1, <2>2, ConcatElements
      <3>2. \A d : Owed(d, a \o b) = IF d = c THEN 1 ELSE 0
        <4> TAKE d
        <4>1. Owed(d, a \o b) = Owed(d, a) + Owed(d, b)
          BY <2>1, <2>2, OwedConcat
        <4> QED
          BY <2>1, <2>2, <4>1
      <3> QED
        BY <3>1, <3>2
    <2>5. PICK p \in Seq(Ops) : p = a \o b
      BY <2>4
    <2>6. /\ ToSet(todo') = ToSet(p) \cup ToSet(todo)
          /\ \A d : Owed(d, todo) \in Int /\ Owed(d, todo') = Owed(d, todo) + IF d = c THEN 1 ELSE 0
      <3>1. ToSet(p \o todo) = ToSet(p) \cup ToSet(todo)
        BY <1>2, ConcatElements
      <3>2. ASSUME NEW d
            PROVE  Owed(d, todo) \in Int /\ Owed(d, p \o todo) = Owed(d, todo) + IF d = c THEN 1 ELSE 0
        <4>1. Owed(d, p \o todo) = Owed(d, p) + Owed(d, todo)
          BY <1>2, OwedConcat
        <4>2. Owed(d, p) = IF d = c THEN 1 ELSE 0
          BY <2>4, <2>5
        <4>3. Owed(d, todo) \in Int
          BY <1>2, OwedConcat
        <4> QED
          BY <4>1, <4>2, <4>3
      <3> QED
        BY <2>3, <2>5, <3>1, <3>2
    <2>7. \A o \in ToSet(p) : o.c = c /\ (o.op \in {"count", "add"} => o.x = 1) /\ o.op # "deliver"
      BY <2>1, <2>2, <2>4, <2>5
    <2>8. mbox'[Listener] = mbox[Listener] /\ \A d \in Netconns : d # c => mbox'[d] = mbox[d]
      BY <1>2, <1>3, <1>6, ConnNetconn DEF SocketTypes
    <2>9. SocketInv' /\ AcceptInv' /\ ReadyInv'
      BY <1>1, <1>2, <2>8, ThreadFrame
    <2>10. PcbInv'
      <3>1. fatal' \in [Conns -> BOOLEAN]
        BY <1>2, <1>6 DEF PcbInv
      <3>2. \A d \in Conns \ live : mbox'[d] = mbox[d]
        BY <1>3, <2>8, ConnNetconn
      <3>3. \A o \in ToSet(todo') :
              /\ o.c \in live \cup {Listener}
              /\ o.op \in {"count", "add"} => o.x = 1 \/ Deleting(o.c)
              /\ o.op = "deliver" => pcb[o.c] # "none"
        BY <1>2, <1>3, <2>6, <2>7 DEF PcbInv
      <3> QED
        BY <1>1, <1>2, <1>4, <1>6, <3>1, <3>2, <3>3 DEF PcbInv
    <2>11. CloseInv'
      <3>1. ftp.pc = "free" => c # ftp.c
        BY <1>2, <1>3 DEF CloseInv, Going, AnswerInv
      <3>2. ftp.pc = "free" => \A o \in ToSet(todo') : o.c # ftp.c
        BY <1>2, <2>6, <2>7, <3>1 DEF CloseInv
      <3> QED
        BY <1>1, <1>2, <3>2 DEF CloseInv, Going
    <2>12. CountInv'
      <3>1. \A d : /\ Counted(d)' = Counted(d) /\ InHand(d)' = InHand(d)
                   /\ Deleting(d)' <=> Deleting(d)
        BY <1>1 DEF Counted, InHand, Deleting
      <3>2. Len(mbox'[c]) = Len(mbox[c]) + 1
        <4>1. mbox[c] \in Seq(Int \cup Conns) /\ mbox'[c] = Append(mbox[c], refused[c])
          BY <1>2, <1>3, <1>6 DEF SocketTypes
        <4> QED
          BY <1>3, <4>1
      <3>3. ASSUME NEW d \in live \cup {Listener}, ~Deleting(d)
            PROVE  Counted(d) + Owed(d, todo') = Len(mbox'[d]) + InHand(d)
        <4>1. Counted(d) + Owed(d, todo) = Len(mbox[d]) + InHand(d)
          BY <1>2, <3>3 DEF CountInv
        <4>2. Counted(d) \in Int /\ Owed(d, todo) \in Int /\ Len(mbox[d]) \in Int /\ InHand(d) \in Int /\ d \in Netconns
          BY <2>6, CountedType
        <4>3. CASE d = c
          <5>1. Owed(d, todo') = Owed(d, todo) + 1 /\ Len(mbox'[d]) = Len(mbox[d]) + 1
            BY <2>6, <3>2, <4>3
          <5> QED
            BY <4>1, <4>2, <5>1
        <4>4. CASE d # c
          BY <2>6, <2>8, <4>1, <4>2, <4>4
        <4> QED
          BY <4>3, <4>4
      <3> QED
        BY <1>1, <3>1, <3>3 DEF CountInv
    <2> QED
      BY <2>9, <2>10, <2>11, <2>12 DEF AccInv
  <1> QED
    BY <1>5, <1>6 DEF Offer

LEMMA NetworkAcc ==
    ASSUME IInv, AccInv, Network
    PROVE  AccInv'
  <1>1. PICK c \in Conns :
           \/ Connected(c) \/ LastAck(c) \/ Reset(c) \/ CloseAgain(c)
           \/ OfferAgain(c) \/ NestedOffer(c)
           \/ \E data, end \in BOOLEAN : Segment(c, data, end)
    BY DEF Network
  <1>2. CASE Connected(c)
    BY <1>2, ConnectedAcc
  <1>9. CASE OfferAgain(c) \/ NestedOffer(c)
    BY <1>9, OfferAcc DEF OfferAgain, NestedOffer
  <1> SUFFICES ASSUME \/ LastAck(c) \/ Reset(c) \/ CloseAgain(c)
                      \/ \E data, end \in BOOLEAN : Segment(c, data, end)
               PROVE  AccInv'
    BY <1>1, <1>2, <1>9
  <1>3. /\ todo = <<>> /\ api = None
        /\ UNCHANGED <<conn, rcvevent, lastdata, socket, mbox, live, ftp, ready, api>>
    BY DEF LastAck, Reset, CloseAgain, CloseDone, Segment, Idle, sockets, netconns, ghosts, tcpip, task
  <1>4. /\ SocketTypes /\ SocketInv /\ AcceptInv /\ PcbInv /\ CloseInv
        /\ c \in Netconns /\ c # Listener /\ End \in Int
    BY ConnNetconn, SocketsAssumption DEF IInv, AccInv
  <1>5. /\ pcb \in [Conns -> {"none", "open", "ended", "lastack", "freed"}]
        /\ fatal \in [Conns -> BOOLEAN] /\ refused \in [Conns -> Int] /\ sent \in [Conns -> Int]
    BY <1>4 DEF PcbInv, SocketTypes
  <1>6. /\ Going("free") => ftp.c \in live /\ (closing = {} => pcb[ftp.c] = "none")
        /\ closing # {} => ftp.pc = "asked" /\ ftp.then = "free" /\ closing = {ftp.c}
        /\ pcb[c] # "none" => c \in live
        /\ \A d \in Conns : refused[d] # 0 => pcb[d] # "none"
    <2>1. Going("free") => ftp.c \in live
      BY <1>4, TaskConn DEF Returning
    <2> QED
      BY <1>3, <1>4, <2>1 DEF CloseInv, PcbInv
  <1>7. /\ ToSet(<<>>) = {} /\ <<>> \in Seq(Ops) /\ \A d : Owed(d, <<>>) = 0
    BY OwedEmpty, OrderedEmpty
  <1>8. CASE LastAck(c)
    <2>1. /\ pcb[c] = "lastack" /\ pcb' = [pcb EXCEPT ![c] = "freed"]
          /\ UNCHANGED <<fatal, refused, closing, todo>>
      BY <1>8 DEF LastAck, tcpip
    <2>2. pcb' \in [Conns -> {"none", "open", "ended", "lastack", "freed"}]
      BY <1>5, <2>1
    <2>3. \A d \in Conns : pcb'[d] = "none" <=> pcb[d] = "none"
      BY <1>5, <2>1
    <2>4. Going("free") /\ closing' = {} => pcb'[ftp.c] = "none"
      BY <1>4, <1>6, <2>1, <2>3 DEF AcceptInv
    <2> QED
      BY <1>3, <1>5, <1>6, <1>7, <2>1, <2>2, <2>3, <2>4, IdleStep
  <1>10. CASE \E data, end \in BOOLEAN : Segment(c, data, end)
    <2>1. PICK data \in BOOLEAN, end \in BOOLEAN : Segment(c, data, end)
      BY <1>10
    <2> DEFINE a == IF data THEN <<Op("deliver", c, sent[c] + 1)>> ELSE <<>>
               b == IF end THEN <<Op("deliver", c, End)>> ELSE <<>>
    <2>2. /\ pcb[c] = "open" /\ UNCHANGED <<fatal, refused, closing>>
          /\ \E state \in {"open", "ended", "lastack"} : pcb' = [pcb EXCEPT ![c] = state]
          /\ todo' = a \o b \/ todo' = <<>>
      <3>1. /\ pcb[c] = "open" /\ UNCHANGED <<fatal, refused, closing>>
            /\ \/ pcb' = [pcb EXCEPT ![c] = IF end THEN "ended" ELSE @] /\ todo' = a \o b
               \/ (\E state \in IF end THEN {"ended", "lastack"} ELSE {"open"} : pcb' = [pcb EXCEPT ![c] = state]) /\ todo' = todo
        BY <2>1 DEF Segment
      <3> HIDE DEF a, b
      <3> QED
        BY <1>3, <3>1
    <2>3. /\ a \in Seq(Ops) /\ ToSet(a) \subseteq {Op("deliver", c, sent[c] + 1)}
          /\ b \in Seq(Ops) /\ ToSet(b) \subseteq {Op("deliver", c, End)}
      <3>1. sent[c] + 1 \in Int
        BY <1>5
      <3> QED
        BY <1>4, <1>7, <3>1, OneOwed
    <2>4. \A o \in {Op("deliver", c, sent[c] + 1), Op("deliver", c, End)} : o.c = c /\ o.op = "deliver"
      BY DEF Op
    <2> HIDE DEF a, b
    <2>5. a \o b \in Seq(Ops) /\ ToSet(a \o b) = ToSet(a) \cup ToSet(b)
      BY <2>3, ConcatElements
    <2>6. todo' \in Seq(Ops) /\ \A o \in ToSet(todo') : o.c = c /\ o.op = "deliver"
      BY <1>7, <2>2, <2>3, <2>4, <2>5
    <2>7. \A d : Owed(d, todo') = 0
      BY <2>6, OwedNothing
    <2>8. /\ pcb' \in [Conns -> {"none", "open", "ended", "lastack", "freed"}]
          /\ \A d \in Conns : pcb'[d] = "none" <=> pcb[d] = "none"
      BY <1>5, <2>2
    <2>9. c \in live /\ pcb'[c] # "none"
      BY <1>6, <2>2, <2>8
    <2>10. ftp.pc = "free" => c # ftp.c
      BY <1>4, <1>6, <1>3, <2>2 DEF CloseInv, Going, IInv, AnswerInv
    <2>11. Going("free") /\ closing' = {} => pcb'[ftp.c] = "none"
      BY <1>4, <1>6, <2>2, <2>8 DEF AcceptInv
    <2> QED
      BY <1>3, <1>5, <1>6, <2>2, <2>6, <2>7, <2>8, <2>9, <2>10, <2>11, IdleStep
  <1>11. CASE Reset(c)
    <2> DEFINE last == IF c \in closing THEN <<Op("done", c, 0)>> ELSE <<>>
               a == ApiEvent(c, 1)  b == <<Op("post", c, End)>>
    <2>1. /\ pcb[c] # "none"
          /\ pcb' = [pcb EXCEPT ![c] = "none"]
          /\ refused' = [refused EXCEPT ![c] = 0]
          /\ fatal' = [fatal EXCEPT ![c] = TRUE]
          /\ todo' = (a \o b) \o last
          /\ closing' = closing \ {c}
      BY <1>11 DEF Reset
    <2>2. /\ a \in Seq(Ops) /\ b \in Seq(Ops) /\ last \in Seq(Ops)
          /\ \A o \in ToSet(a) \cup ToSet(b) \cup ToSet(last) :
                o.c = c /\ (o.op \in {"count", "add"} => o.x = 1) /\ o.op # "deliver"
          /\ \A d : Owed(d, a) = IF d = c /\ (socket[c] < 0 \/ conn[socket[c]] # None) THEN 1 ELSE 0
          /\ \A d : Owed(d, b) = IF d = c THEN -1 ELSE 0
          /\ \A d : Owed(d, last) = 0
      <3>1. /\ a \in Seq(Ops)
            /\ \A o \in ToSet(a) : o.c = c /\ (o.op \in {"count", "add"} => o.x = 1) /\ o.op # "deliver"
            /\ \A d : Owed(d, a) = IF d = c /\ (socket[c] < 0 \/ conn[socket[c]] # None) THEN 1 ELSE 0
        <4>1. /\ a \in Seq(Ops)
              /\ \A o \in ToSet(a) : o.c = c /\ o.op \in {"count", "add", "scan"} /\ (o.op # "scan" => o.x = 1)
              /\ \A d : Owed(d, a) = IF d = c /\ (socket[c] < 0 \/ conn[socket[c]] # None) THEN 1 ELSE 0
          BY <1>4, EventOwed
        <4> QED
          BY <4>1
      <3>2. /\ b \in Seq(Ops)
            /\ \A o \in ToSet(b) : o.c = c /\ o.op = "post"
            /\ \A d : Owed(d, b) = IF d = c THEN -1 ELSE 0
        BY <1>4, OneOwed, OpFields
      <3>3. /\ last \in Seq(Ops)
            /\ \A o \in ToSet(last) : o.c = c /\ o.op = "done"
            /\ \A d : Owed(d, last) = 0
        BY <1>4, <1>7, OneOwed, OpFields
      <3> HIDE DEF a, b, last
      <3> QED
        BY <3>1, <3>2, <3>3
    <2>3. c \in live
      BY <1>6, <2>1
    <2> HIDE DEF a, b, last
    <2>4. /\ a \o b \in Seq(Ops) /\ ToSet(a \o b) = ToSet(a) \cup ToSet(b)
          /\ todo' \in Seq(Ops) /\ ToSet(todo') = ToSet(a) \cup ToSet(b) \cup ToSet(last)
      <3>1. a \o b \in Seq(Ops) /\ ToSet(a \o b) = ToSet(a) \cup ToSet(b)
        BY <2>2, ConcatElements
      <3>2. PICK t \in Seq(Ops) : t = a \o b
        BY <3>1
      <3>3. t \o last \in Seq(Ops) /\ ToSet(t \o last) = ToSet(t) \cup ToSet(last)
        BY <2>2, ConcatElements
      <3> QED
        BY <2>1, <3>1, <3>2, <3>3
    <2>5. \A d \in live \cup {Listener} : Owed(d, todo') = 0
      <3> TAKE d \in live \cup {Listener}
      <3>1. socket[c] < 0 \/ conn[socket[c]] # None
        <4>1. socket[c] \in Int /\ c # None
          BY <1>4, SocketsAssumption DEF SocketTypes, Netconns
        <4>2. socket[c] >= 0 => conn[socket[c]] = c
          BY <1>4, <2>3 DEF SocketInv
        <4> QED
          BY <4>1, <4>2
      <3>2. Owed(d, todo') = Owed(d, a \o b) + Owed(d, last) /\ Owed(d, a \o b) = Owed(d, a) + Owed(d, b)
        BY <2>1, <2>2, <2>4, OwedConcat
      <3>3. Owed(d, a) + Owed(d, b) = 0 /\ Owed(d, last) = 0
        BY <2>2, <3>1
      <3> QED
        BY <3>2, <3>3
    <2>6. /\ pcb' \in [Conns -> {"none", "open", "ended", "lastack", "freed"}]
          /\ fatal' \in [Conns -> BOOLEAN]
          /\ pcb'[c] = "none" /\ \A d \in Conns : d # c => pcb'[d] = pcb[d]
          /\ refused'[c] = 0 /\ \A d \in Conns : d # c => refused'[d] = refused[d]
      BY <1>5, <2>1
    <2>7. ftp.pc = "free" => c # ftp.c
      BY <1>4, <1>6, <1>3, <2>1 DEF CloseInv, Going, IInv, AnswerInv
    <2>8. Going("free") /\ closing' = {} => pcb'[ftp.c] = "none"
      BY <1>4, <1>6, <2>1, <2>6 DEF AcceptInv
    <2>9. closing' \subseteq closing \cup {ftp.c} /\ (closing' # {} => closing # {})
      BY <2>1
    <2>10. \A o \in ToSet(todo') :
              /\ o.c \in live \cup {Listener}
              /\ o.op \in {"count", "add"} => o.x = 1 \/ Deleting(o.c)
              /\ o.op = "deliver" => pcb'[o.c] # "none"
              /\ ftp.pc = "free" => o.c # ftp.c
      BY <2>2, <2>3, <2>4, <2>7
    <2>11. \A d \in Conns : (refused'[d] # 0 => pcb'[d] # "none") /\ (pcb[d] = "none" => pcb'[d] = "none")
      BY <1>6, <2>6
    <2> QED
      BY <1>3, <1>6, <2>4, <2>5, <2>6, <2>8, <2>9, <2>10, <2>11, IdleStep
  <1>12. CASE CloseAgain(c)
    <2> DEFINE a == ApiEvent(c, 1)  b == ApiEvent(c, 0)  last == <<Op("done", c, 0)>>
    <2>1. /\ c \in closing
          /\ pcb' = [pcb EXCEPT ![c] = "none"]
          /\ refused' = [refused EXCEPT ![c] = 0]
          /\ fatal' = [fatal EXCEPT ![c] = FALSE]
          /\ todo' = (a \o b) \o last
          /\ closing' = closing \ {c}
      BY <1>12 DEF CloseAgain, CloseDone
    <2>2. c = ftp.c /\ ftp.pc = "asked" /\ ftp.then = "free" /\ c \in live /\ Deleting(c)
      BY <1>4, <2>1 DEF CloseInv, PcbInv, Deleting
    <2>3. /\ todo' \in Seq(Ops) /\ \A o \in ToSet(todo') : o.c = c /\ o.op # "deliver"
      <3>1. /\ a \in Seq(Ops) /\ b \in Seq(Ops) /\ \A o \in ToSet(a) \cup ToSet(b) : o.c = c /\ o.op # "deliver"
        <4>1. SocketTypes /\ c \in Netconns /\ 1 \in Int /\ 0 \in Int
          BY <1>4
        <4>2. a \in Seq(Ops) /\ \A o \in ToSet(a) : o.c = c /\ o.op \in {"count", "add", "scan"}
          BY <4>1, EventOwed
        <4>3. b \in Seq(Ops) /\ \A o \in ToSet(b) : o.c = c /\ o.op \in {"count", "add", "scan"}
          BY <4>1, EventOwed
        <4> HIDE DEF a, b
        <4> QED
          BY <4>2, <4>3
      <3>2. last \in Seq(Ops) /\ \A o \in ToSet(last) : o.c = c /\ o.op # "deliver"
        BY <1>4, OneOwed, OpFields
      <3> HIDE DEF a, b, last
      <3>3. a \o b \in Seq(Ops) /\ ToSet(a \o b) = ToSet(a) \cup ToSet(b)
        BY <3>1, ConcatElements
      <3>4. todo' \in Seq(Ops) /\ ToSet(todo') = ToSet(a \o b) \cup ToSet(last)
        <4>1. PICK t \in Seq(Ops) : t = a \o b
          BY <3>3
        <4>2. t \o last \in Seq(Ops) /\ ToSet(t \o last) = ToSet(t) \cup ToSet(last)
          BY <3>2, ConcatElements
        <4> QED
          BY <2>1, <4>1, <4>2
      <3> QED
        BY <3>1, <3>2, <3>3, <3>4
    <2> HIDE DEF a, b, last
    <2>4. \A d \in live \cup {Listener} : ~Deleting(d) => Owed(d, todo') = 0
      BY <2>2, <2>3, OwedNothing
    <2>5. /\ pcb' \in [Conns -> {"none", "open", "ended", "lastack", "freed"}]
          /\ fatal' \in [Conns -> BOOLEAN]
          /\ pcb'[c] = "none" /\ \A d \in Conns : d # c => pcb'[d] = pcb[d]
          /\ refused'[c] = 0 /\ \A d \in Conns : d # c => refused'[d] = refused[d]
      BY <1>5, <2>1
    <2>6. closing' \subseteq closing \cup {ftp.c} /\ (closing' # {} => closing # {})
      BY <2>1
    <2> QED
      BY <1>3, <1>6, <2>2, <2>3, <2>4, <2>5, <2>6, IdleStep
  <1> QED
    BY <1>8, <1>10, <1>11, <1>12

LEMMA ApiCallAcc ==
    ASSUME IInv, AccInv, ApiCall
    PROVE  AccInv'
  <1>0. PICK c : c = api.c
    OBVIOUS
  <1> DEFINE a == ApiEvent(c, 1)  b == ApiEvent(c, 0)  last == <<Op("done", c, 0)>>
  <1>1. /\ todo = <<>> /\ api # None /\ api' = None
        /\ UNCHANGED <<conn, rcvevent, lastdata, socket, mbox, live, ftp, ready>>
    BY DEF ApiCall, CloseDone, CloseFailed, sockets, netconns, task
  <1>2. /\ SocketTypes /\ AcceptInv /\ PcbInv /\ CloseInv /\ SocketInv
        /\ c \in Netconns /\ ftp.pc = "asked" /\ closing = {}
    BY <1>0, <1>1 DEF IInv, AccInv, SocketTypes, AnswerInv
  <1>3. /\ pcb \in [Conns -> {"none", "open", "ended", "lastack", "freed"}]
        /\ fatal \in [Conns -> BOOLEAN] /\ refused \in [Conns -> Int]
        /\ \A d \in Conns : refused[d] # 0 => pcb[d] # "none"
    BY <1>2 DEF PcbInv, SocketTypes
  <1>4. /\ \/ /\ api.fn = "ask" /\ todo' = last
              /\ UNCHANGED <<refused, closing, pcb, fatal>>
           \/ /\ api.fn = "delete" /\ todo' = (a \o b) \o last
              /\ pcb' = [pcb EXCEPT ![c] = "none"]
              /\ refused' = [refused EXCEPT ![c] = 0]
              /\ fatal' = [fatal EXCEPT ![c] = FALSE]
              /\ closing' = closing \ {c}
           \/ /\ api.fn = "delete" /\ todo' = <<>> /\ closing' = closing \cup {c}
              /\ UNCHANGED <<refused, pcb, fatal>>
           \/ /\ api.fn = "delete" /\ todo' = (a \o b) \o last /\ pcb[c] = "none"
              /\ UNCHANGED <<refused, closing, pcb, fatal>>
    BY <1>0 DEF ApiCall, CloseDone, CloseFailed, netconns
  <1>5. /\ last \in Seq(Ops) /\ \A o \in ToSet(last) : o.c = c /\ o.op = "done"
        /\ \A d : Owed(d, last) = 0
    <2>1. last \in Seq(Ops) /\ ToSet(last) = {Op("done", c, 0)} /\ \A d : Owed(d, last) = 0
      BY <1>2, OneOwed
    <2>2. Op("done", c, 0).c = c /\ Op("done", c, 0).op = "done"
      BY <1>2, OpFields
    <2> HIDE DEF last
    <2> QED
      BY <2>1, <2>2
  <1>6. /\ a \in Seq(Ops) /\ \A o \in ToSet(a) : o.c = c /\ o.op # "deliver"
        /\ b \in Seq(Ops) /\ \A o \in ToSet(b) : o.c = c /\ o.op # "deliver"
    <2>1. a \in Seq(Ops) /\ \A o \in ToSet(a) : o.c = c /\ o.op \in {"count", "add", "scan"}
      BY <1>2, EventOwed
    <2>2. b \in Seq(Ops) /\ \A o \in ToSet(b) : o.c = c /\ o.op \in {"count", "add", "scan"}
      BY <1>2, EventOwed
    <2> HIDE DEF a, b
    <2> QED
      BY <2>1, <2>2
  <1>7. ToSet(<<>>) = {} /\ <<>> \in Seq(Ops) /\ \A d : Owed(d, <<>>) = 0
    BY OwedEmpty, OrderedEmpty
  <1> HIDE DEF a, b, last
  <1>8. /\ (a \o b) \o last \in Seq(Ops)
        /\ \A o \in ToSet((a \o b) \o last) : o.c = c /\ o.op # "deliver"
    <2>1. PICK t \in Seq(Ops) : t = a \o b /\ ToSet(t) = ToSet(a) \cup ToSet(b)
      BY <1>6, ConcatElements
    <2>2. t \o last \in Seq(Ops) /\ ToSet(t \o last) = ToSet(t) \cup ToSet(last)
      BY <1>5, ConcatElements
    <2> QED
      BY <1>5, <1>6, <2>1, <2>2
  <1>9. /\ todo' \in Seq(Ops)
        /\ \A o \in ToSet(todo') : o.c = c /\ o.op # "deliver" /\ (api.fn = "ask" => o.op = "done")
    BY <1>4, <1>5, <1>7, <1>8
  <1>10. CASE api.fn = "ask"
    <2>1. todo' = last /\ UNCHANGED <<refused, closing, pcb, fatal>>
      BY <1>4, <1>10
    <2>2. ftp.then # "free"
      BY <1>1, <1>2, <1>10 DEF CloseInv
    <2>3. \A o \in ToSet(todo') : o.c = c /\ o.op = "done"
      BY <1>5, <2>1
    <2>4. \A o \in ToSet(todo') :
              /\ o.c \in live \cup {Listener}
              /\ o.op \in {"count", "add"} => o.x = 1 \/ Deleting(o.c)
              /\ o.op = "deliver" => pcb'[o.c] # "none"
              /\ ftp.pc = "free" => o.c # ftp.c
      BY <1>0, <1>1, <1>2, <2>3 DEF PcbInv
    <2>5. \A d \in live \cup {Listener} : Owed(d, todo') = 0
      BY <1>5, <2>1
    <2> QED
      BY <1>1, <1>2, <1>3, <1>9, <2>1, <2>2, <2>4, <2>5, IdleStep DEF Going
  <1>11. CASE api.fn = "delete"
    <2>1. c = ftp.c /\ ftp.then = "free" /\ Deleting(c) /\ c \in live /\ c \in Conns
      <3>1. c = ftp.c /\ ftp.then = "free"
        BY <1>0, <1>1, <1>2, <1>11 DEF CloseInv
      <3>2. ftp.c \in live
        BY <1>2, <3>1, TaskConn DEF Returning, Going
      <3> QED
        BY <1>2, <3>1, <3>2 DEF Deleting, AcceptInv
    <2>2. \A d \in live \cup {Listener} : ~Deleting(d) => Owed(d, todo') = 0
      BY <1>9, <2>1, OwedNothing
    <2>3. /\ pcb' \in [Conns -> {"none", "open", "ended", "lastack", "freed"}]
          /\ fatal' \in [Conns -> BOOLEAN]
          /\ \A d \in Conns : refused'[d] # 0 => pcb'[d] # "none"
          /\ \A d \in Conns : pcb[d] = "none" => pcb'[d] = "none"
          /\ closing' = {} => pcb'[c] = "none"
          /\ closing' \subseteq {c}
      BY <1>2, <1>3, <1>4, <1>11, <2>1
    <2>4. \A o \in ToSet(todo') :
              /\ o.c \in live \cup {Listener}
              /\ o.op \in {"count", "add"} => o.x = 1 \/ Deleting(o.c)
              /\ o.op = "deliver" => pcb'[o.c] # "none"
              /\ ftp.pc = "free" => o.c # ftp.c
      BY <1>2, <1>9, <2>1
    <2> QED
      BY <1>1, <1>2, <1>9, <2>1, <2>2, <2>3, <2>4, IdleStep
  <1> QED
    BY <1>4, <1>10, <1>11

\* What is to be done goes on, with an event for the same netconn before it.
LEMMA RestInv ==
    ASSUME IInv, AccInv, todo # <<>>,
           \A o \in ToSet(todo') :
              \/ o \in ToSet(Tail(todo))
              \/ /\ o.c = C /\ o.op \in {"count", "add", "scan"}
                 /\ o.op # "scan" => o.x = 1 \/ Deleting(C),
           UNCHANGED <<live, ftp, closing, pcb, api>>,
           fatal' \in [Conns -> BOOLEAN],
           \A c \in Conns : refused'[c] # 0 => refused[c] # 0 \/ pcb[c] # "none",
           \A c \in Conns \ live : mbox'[c] = mbox[c]
    PROVE  PcbInv' /\ CloseInv'
  <1>1. PcbInv /\ CloseInv
    BY DEF AccInv
  <1>2. Head(todo) \in ToSet(todo) /\ ToSet(Tail(todo)) \subseteq ToSet(todo)
    BY OrderedTail DEF IInv
  <1>3. \A c : Deleting(c)' <=> Deleting(c)
    BY DEF Deleting
  <1>4. C \in live \cup {Listener} /\ (ftp.pc = "free" => C # ftp.c)
    BY <1>1, <1>2 DEF C, PcbInv, CloseInv
  <1>5. \A o \in ToSet(todo') :
          /\ o.c \in live \cup {Listener}
          /\ o.op \in {"count", "add"} => o.x = 1 \/ Deleting(o.c)
          /\ o.op = "deliver" => pcb[o.c] # "none"
          /\ ftp.pc = "free" => o.c # ftp.c
    <2> TAKE o \in ToSet(todo')
    <2>1. CASE o \in ToSet(Tail(todo))
      BY <1>1, <1>2, <2>1 DEF PcbInv, CloseInv
    <2>2. CASE /\ o.c = C /\ o.op \in {"count", "add", "scan"}
               /\ o.op # "scan" => o.x = 1 \/ Deleting(C)
      BY <1>4, <2>2
    <2> QED
      BY <2>1, <2>2
  <1>6. PcbInv'
    BY <1>1, <1>3, <1>5 DEF PcbInv
  <1>7. CloseInv'
    BY <1>1, <1>5 DEF CloseInv, Going
  <1> QED
    BY <1>6, <1>7

\* What the head counts for, and where it is for.
LEMMA HeadCounts ==
    ASSUME IInv, AccInv, todo # <<>>
    PROVE  /\ C \in live \cup {Listener} /\ C \in Netconns /\ X \in Int
           /\ C # None /\ (socket[C] >= 0 => conn[socket[C]] = C)
           /\ Head(todo).op \in {"count", "add"} => X = 1 \/ Deleting(C)
           /\ Head(todo).op = "deliver" => pcb[C] # "none"
           /\ Head(todo).op \in {"deliver", "post"} => C \in live /\ C # Listener
           /\ Tail(todo) \in Seq(Ops) /\ todo \in Seq(Ops)
           /\ \A c : /\ Owed(c, todo) = Owed(c, Tail(todo)) + Weight(c, Head(todo))
                     /\ Owed(c, todo) \in Int /\ Owed(c, Tail(todo)) \in Int
  <1>1. /\ Head(todo) \in Ops /\ C \in Netconns /\ X \in Int
        /\ Head(todo) \in ToSet(todo)
        /\ Head(todo).op \in {"deliver", "post"} => C \in Conns
    BY ThreadRest
  <1>2. C \in live \cup {Listener}
        /\ (Head(todo).op \in {"count", "add"} => X = 1 \/ Deleting(C))
        /\ (Head(todo).op = "deliver" => pcb[C] # "none")
    BY <1>1 DEF AccInv, PcbInv, C, X
  <1>3. C # None
    BY <1>1, SocketsAssumption DEF Netconns
  <1>4. socket[C] >= 0 => conn[socket[C]] = C
    BY <1>2 DEF AccInv, SocketInv, IInv, SocketTypes
  <1>5. todo \in Seq(Ops) /\ Tail(todo) \in Seq(Ops)
    BY OrderedTail DEF IInv, Ordered
  <1>6. \A c : /\ Owed(c, todo) = Owed(c, Tail(todo)) + Weight(c, Head(todo))
               /\ Owed(c, todo) \in Int /\ Owed(c, Tail(todo)) \in Int
    BY <1>5, OwedTail
  <1>7. Head(todo).op \in {"deliver", "post"} => C \in live /\ C # Listener
    BY <1>1, <1>2, SocketsAssumption
  <1> QED
    BY <1>1, <1>2, <1>3, <1>4, <1>5, <1>6, <1>7

\* A message comes into the mailbox, and is counted, or the pcb keeps it.
LEMMA DeliverAcc ==
    ASSUME IInv, AccInv, Deliver
    PROVE  AccInv'
  <1>1. /\ todo # <<>> /\ Head(todo).op = "deliver"
        /\ fatal' = [fatal EXCEPT ![C] = FALSE]
        /\ UNCHANGED <<conn, rcvevent, lastdata, socket, pcb, closing, live, api, ftp, ready>>
    BY DEF Deliver, First, sockets, task
  <1>2. /\ \/ /\ mbox' = [mbox EXCEPT ![C] = Append(@, X)]
              /\ todo' = ApiEvent(C, 1) \o Tail(todo)
              /\ refused' = refused
           \/ /\ refused' = refused \/ refused' = [refused EXCEPT ![C] = X]
              /\ todo' = Tail(todo)
              /\ mbox' = mbox
    BY DEF Deliver
  <1>3. /\ SocketTypes /\ SocketInv /\ AcceptInv /\ ReadyInv /\ PcbInv /\ CountInv
    BY DEF IInv, AccInv
  <1>4. /\ C \in live /\ C # Listener /\ C \in Conns /\ C \in Netconns /\ X \in Int /\ C # None
        /\ pcb[C] # "none" /\ (socket[C] >= 0 => conn[socket[C]] = C) /\ socket[C] \in Int
        /\ Tail(todo) \in Seq(Ops)
        /\ \A c : /\ Owed(c, todo) = Owed(c, Tail(todo)) /\ Owed(c, todo) \in Int
    <2>1. \A c : Weight(c, Head(todo)) = 0
      BY <1>1 DEF Weight
    <2>2. \A c : /\ Owed(c, todo) = Owed(c, Tail(todo)) + Weight(c, Head(todo))
                 /\ Owed(c, todo) \in Int /\ Owed(c, Tail(todo)) \in Int
      BY <1>1, HeadCounts
    <2>3. \A c : Owed(c, todo) = Owed(c, Tail(todo)) /\ Owed(c, todo) \in Int
      BY <2>1, <2>2
    <2>4. C \in live /\ C # Listener /\ C \in Netconns /\ X \in Int /\ C # None
          /\ pcb[C] # "none" /\ (socket[C] >= 0 => conn[socket[C]] = C) /\ Tail(todo) \in Seq(Ops)
      BY <1>1, HeadCounts
    <2> QED
      BY <1>3, <2>3, <2>4 DEF SocketTypes, Netconns
  <1>5. /\ ApiEvent(C, 1) \in Seq(Ops)
        /\ \A o \in ToSet(ApiEvent(C, 1)) : o.c = C /\ o.op \in {"count", "add", "scan"} /\ (o.op # "scan" => o.x = 1)
        /\ \A d : Owed(d, ApiEvent(C, 1)) = IF d = C THEN 1 ELSE 0
    <2>1. /\ ApiEvent(C, 1) \in Seq(Ops)
          /\ \A o \in ToSet(ApiEvent(C, 1)) : o.c = C /\ o.op \in {"count", "add", "scan"} /\ (o.op # "scan" => o.x = 1)
          /\ \A d : Owed(d, ApiEvent(C, 1)) =
                IF d = C /\ (socket[C] < 0 \/ conn[socket[C]] # None) THEN 1 ELSE 0
      <3>1. SocketTypes /\ C \in Netconns /\ 1 \in Int
        BY <1>3, <1>4
      <3> QED
        BY <3>1, EventOwed
    <2>2. socket[C] < 0 \/ conn[socket[C]] # None
      BY <1>4
    <2> QED
      BY <2>1, <2>2
  <1>6. mbox'[Listener] = mbox[Listener] /\ \A c \in Netconns : c # C => mbox'[c] = mbox[c]
    BY <1>2, <1>3, <1>4, ConnNetconn DEF SocketTypes
  <1>7. SocketInv' /\ AcceptInv' /\ ReadyInv'
    BY <1>1, <1>3, <1>6, ThreadFrame
  <1>8. PcbInv' /\ CloseInv'
    <2>1. fatal' \in [Conns -> BOOLEAN]
      BY <1>1, <1>3 DEF PcbInv
    <2>2. \A c \in Conns : refused'[c] # 0 => refused[c] # 0 \/ pcb[c] # "none"
      BY <1>2, <1>3, <1>4 DEF SocketTypes
    <2>3. \A c \in Conns \ live : mbox'[c] = mbox[c]
      BY <1>4, <1>6, ConnNetconn
    <2>4. \A o \in ToSet(todo') :
              \/ o \in ToSet(Tail(todo))
              \/ /\ o.c = C /\ o.op \in {"count", "add", "scan"}
                 /\ o.op # "scan" => o.x = 1 \/ Deleting(C)
      <3>1. CASE todo' = ApiEvent(C, 1) \o Tail(todo)
        <4>1. ToSet(todo') = ToSet(ApiEvent(C, 1)) \cup ToSet(Tail(todo))
          <5>1. PICK a \in Seq(Ops), t \in Seq(Ops) : a = ApiEvent(C, 1) /\ t = Tail(todo)
            BY <1>4, <1>5
          <5>2. ToSet(a \o t) = ToSet(a) \cup ToSet(t)
            BY ConcatElements
          <5> QED
            BY <3>1, <5>1, <5>2
        <4> QED
          BY <1>5, <4>1
      <3>2. CASE todo' = Tail(todo)
        BY <3>2
      <3> QED
        BY <1>2, <3>1, <3>2
    <2> QED
      BY <1>1, <2>1, <2>2, <2>3, <2>4, RestInv
  <1>9. CountInv'
    <2>1. CASE mbox' = mbox /\ todo' = Tail(todo)
      BY <1>1, <1>3, <1>4, <2>1, CountFrame
    <2>2. CASE /\ mbox' = [mbox EXCEPT ![C] = Append(@, X)]
               /\ todo' = ApiEvent(C, 1) \o Tail(todo)
      <3>1. \A c : /\ Counted(c)' = Counted(c) /\ InHand(c)' = InHand(c)
                   /\ Deleting(c)' <=> Deleting(c)
        BY <1>1 DEF Counted, InHand, Deleting
      <3>2. \A c : Owed(c, todo') = Owed(c, todo) + IF c = C THEN 1 ELSE 0
        <4> TAKE c
        <4>1. Owed(c, ApiEvent(C, 1) \o Tail(todo)) = Owed(c, ApiEvent(C, 1)) + Owed(c, Tail(todo))
          BY <1>4, <1>5, OwedConcat
        <4>2. Owed(c, ApiEvent(C, 1)) = IF c = C THEN 1 ELSE 0
          BY <1>5
        <4> QED
          BY <1>4, <2>2, <4>1, <4>2
      <3>3. Len(mbox'[C]) = Len(mbox[C]) + 1
        <4>1. mbox[C] \in Seq(Int \cup Conns) /\ mbox'[C] = Append(mbox[C], X)
          BY <1>3, <1>4, <2>2 DEF SocketTypes
        <4> QED
          BY <1>4, <4>1
      <3>4. ASSUME NEW c \in live \cup {Listener}, ~Deleting(c)
            PROVE  Counted(c) + Owed(c, todo') = Len(mbox'[c]) + InHand(c)
        <4>1. Counted(c) + Owed(c, todo) = Len(mbox[c]) + InHand(c)
          BY <1>3, <3>4 DEF CountInv
        <4>2. Counted(c) \in Int /\ Owed(c, todo) \in Int /\ Len(mbox[c]) \in Int /\ InHand(c) \in Int /\ c \in Netconns
          BY <1>4, CountedType
        <4>3. CASE c = C
          BY <3>2, <3>3, <4>1, <4>2, <4>3
        <4>4. CASE c # C
          BY <1>6, <3>2, <4>1, <4>2, <4>4
        <4> QED
          BY <4>3, <4>4
      <3> QED
        BY <1>1, <3>1, <3>4 DEF CountInv
    <2> QED
      BY <1>2, <2>1, <2>2
  <1> QED
    BY <1>7, <1>8, <1>9 DEF AccInv

\* The end is put into the mailbox for an event that was counted before it.
LEMMA PostAcc ==
    ASSUME IInv, AccInv, Post
    PROVE  AccInv'
  <1>1. /\ todo # <<>> /\ Head(todo).op = "post"
        /\ mbox' = [mbox EXCEPT ![C] = Append(@, End)]
        /\ todo' = Tail(todo)
        /\ UNCHANGED <<conn, rcvevent, lastdata, socket, fatal, pcb, refused, closing, live, api, ftp, ready>>
    BY DEF Post, First, sockets, task
  <1>2. /\ SocketTypes /\ SocketInv /\ AcceptInv /\ ReadyInv /\ PcbInv /\ CountInv
    BY DEF IInv, AccInv
  <1>3. /\ C \in live /\ C # Listener /\ C \in Netconns
        /\ \A c : /\ Owed(c, todo) = Owed(c, Tail(todo)) + Weight(c, Head(todo))
                  /\ Owed(c, todo) \in Int /\ Owed(c, Tail(todo)) \in Int
    BY <1>1, HeadCounts
  <1>4. mbox'[Listener] = mbox[Listener] /\ \A c \in Netconns : c # C => mbox'[c] = mbox[c]
    BY <1>1, <1>2, <1>3, ConnNetconn DEF SocketTypes
  <1>5. SocketInv' /\ AcceptInv' /\ ReadyInv'
    BY <1>1, <1>2, <1>4, ThreadFrame
  <1>6. PcbInv' /\ CloseInv'
    <2>1. \A c \in Conns \ live : mbox'[c] = mbox[c]
      BY <1>3, <1>4, ConnNetconn
    <2>2. \A o \in ToSet(todo') : o \in ToSet(Tail(todo))
      BY <1>1
    <2>3. fatal' \in [Conns -> BOOLEAN] /\ refused' = refused
      BY <1>1, <1>2 DEF PcbInv
    <2> QED
      BY <1>1, <2>1, <2>2, <2>3, RestInv
  <1>7. CountInv'
    <2>1. \A c : /\ Counted(c)' = Counted(c) /\ InHand(c)' = InHand(c)
                 /\ Deleting(c)' <=> Deleting(c)
      BY <1>1 DEF Counted, InHand, Deleting
    <2>2. \A c : Weight(c, Head(todo)) = IF c = C THEN -1 ELSE 0
      BY <1>1 DEF Weight, C
    <2>3. Len(mbox'[C]) = Len(mbox[C]) + 1
      <3>1. mbox[C] \in Seq(Int \cup Conns) /\ mbox'[C] = Append(mbox[C], End)
        BY <1>1, <1>2, <1>3 DEF SocketTypes
      <3> QED
        BY <3>1
    <2>4. ASSUME NEW c \in live \cup {Listener}, ~Deleting(c)
          PROVE  Counted(c) + Owed(c, todo') = Len(mbox'[c]) + InHand(c)
      <3>1. Counted(c) + Owed(c, todo) = Len(mbox[c]) + InHand(c)
        BY <1>2, <2>4 DEF CountInv
      <3>2. Counted(c) \in Int /\ Len(mbox[c]) \in Int /\ InHand(c) \in Int /\ c \in Netconns
        BY CountedType
      <3>3. /\ Owed(c, todo) = Owed(c, todo') + (IF c = C THEN -1 ELSE 0)
            /\ Owed(c, todo) \in Int /\ Owed(c, todo') \in Int
        BY <1>1, <1>3, <2>2
      <3>4. CASE c = C
        BY <2>3, <3>1, <3>2, <3>3, <3>4
      <3>5. CASE c # C
        BY <1>4, <3>1, <3>2, <3>3, <3>5
      <3> QED
        BY <3>4, <3>5
    <2> QED
      BY <1>1, <2>1, <2>4 DEF CountInv
  <1> QED
    BY <1>5, <1>6, <1>7 DEF AccInv

\* An event is counted in the netconn as long as there is no socket, or is
\* handed on to the socket that has been made in the meantime.
LEMMA CountAcc ==
    ASSUME IInv, AccInv, Count
    PROVE  AccInv'
  <1>1. /\ todo # <<>> /\ Head(todo).op = "count"
        /\ \/ /\ socket[C] < 0
              /\ socket' = [socket EXCEPT ![C] = @ - X]
              /\ todo' = Tail(todo)
           \/ /\ socket[C] >= 0
              /\ todo' = Callback(C, X) \o Tail(todo)
              /\ socket' = socket
        /\ UNCHANGED <<conn, rcvevent, lastdata, mbox, fatal, pcb, refused, closing, live, api, ftp, ready>>
    BY DEF Count, First, sockets, task
  <1>2. /\ SocketTypes /\ SocketInv /\ AcceptInv /\ ReadyInv /\ PcbInv /\ CountInv
    BY DEF IInv, AccInv
  <1>3. /\ C \in live \cup {Listener} /\ C \in Netconns /\ X \in Int
        /\ C # None /\ (socket[C] >= 0 => conn[socket[C]] = C)
        /\ X = 1 \/ Deleting(C)
        /\ Tail(todo) \in Seq(Ops)
        /\ \A c : /\ Owed(c, todo) = Owed(c, Tail(todo)) + Weight(c, Head(todo))
                  /\ Owed(c, todo) \in Int /\ Owed(c, Tail(todo)) \in Int
    BY <1>1, HeadCounts
  <1>4. X >= 0
    BY <1>1, OrderedTail DEF IInv, Fitting, X
  <1>5. \A c : Weight(c, Head(todo)) = IF c = C THEN 1 ELSE 0
    BY <1>1 DEF Weight, C
  <1>6. \A c : InHand(c)' = InHand(c) /\ (Deleting(c)' <=> Deleting(c))
    BY <1>1 DEF InHand, Deleting
  <1>7. fatal' \in [Conns -> BOOLEAN] /\ refused' = refused
    BY <1>1, <1>2 DEF PcbInv
  <1>8. CASE socket[C] >= 0
    <2>1. socket' = socket /\ todo' = Callback(C, X) \o Tail(todo)
      BY <1>1, <1>2, <1>3, <1>8 DEF SocketTypes
    <2>2. /\ Callback(C, X) \in Seq(Ops)
          /\ \A o \in ToSet(Callback(C, X)) :
                o.c = C /\ o.op \in {"count", "add", "scan"} /\ (o.op # "scan" => o.x = X)
          /\ \A d : Owed(d, Callback(C, X)) = IF d = C THEN 1 ELSE 0
      <3>1. SocketTypes /\ C \in Netconns /\ X \in Int
        BY <1>2, <1>3
      <3>2. /\ Callback(C, X) \in Seq(Ops)
            /\ \A o \in ToSet(Callback(C, X)) :
                  o.c = C /\ o.op \in {"count", "add", "scan"} /\ (o.op # "scan" => o.x = X)
            /\ \A d : Owed(d, Callback(C, X)) = IF d = C /\ conn[socket[C]] # None THEN 1 ELSE 0
        BY <3>1, EventOwed
      <3> QED
        BY <1>3, <1>8, <3>2
    <2>3. /\ ToSet(todo') = ToSet(Callback(C, X)) \cup ToSet(Tail(todo))
          /\ \A c : Owed(c, todo') = Owed(c, Callback(C, X)) + Owed(c, Tail(todo))
      <3>1. PICK a \in Seq(Ops), t \in Seq(Ops) : a = Callback(C, X) /\ t = Tail(todo)
        BY <1>3, <2>2
      <3>2. ToSet(a \o t) = ToSet(a) \cup ToSet(t)
        BY ConcatElements
      <3>3. \A c : Owed(c, a \o t) = Owed(c, a) + Owed(c, t)
        BY OwedConcat
      <3> QED
        BY <2>1, <3>1, <3>2, <3>3
    <2>4. SocketInv' /\ AcceptInv' /\ ReadyInv'
      BY <1>1, <1>2, <2>1, ThreadFrame
    <2>5. PcbInv' /\ CloseInv'
      <3>1. \A o \in ToSet(todo') :
              \/ o \in ToSet(Tail(todo))
              \/ /\ o.c = C /\ o.op \in {"count", "add", "scan"}
                 /\ o.op # "scan" => o.x = 1 \/ Deleting(C)
        BY <1>3, <2>2, <2>3
      <3> QED
        BY <1>1, <1>7, <3>1, RestInv
    <2>6. CountInv'
      <3>1. \A c : Owed(c, todo') = Owed(c, todo)
        BY <1>3, <1>5, <2>2, <2>3
      <3> QED
        BY <1>1, <1>2, <2>1, <3>1, CountFrame
    <2> QED
      BY <2>4, <2>5, <2>6 DEF AccInv
  <1>9. CASE socket[C] < 0
    <2>1. socket' = [socket EXCEPT ![C] = @ - X] /\ todo' = Tail(todo)
      BY <1>1, <1>2, <1>3, <1>9 DEF SocketTypes
    <2>2. /\ socket'[C] = socket[C] - X /\ socket[C] \in Int /\ socket'[C] < 0
          /\ \A c \in Netconns : c # C => socket'[c] = socket[c]
      BY <1>2, <1>3, <1>4, <1>9, <2>1 DEF SocketTypes
    <2>3. /\ live \subseteq Netconns /\ Listener \in Netconns /\ C # Listener
          /\ (HasSocket => ftp.c \in live \cup {Listener} /\ ftp.c # C)
      <3>1. C # Listener
        BY <1>2, <1>9 DEF SocketInv
      <3>2. HasSocket => ftp.c \in live \cup {Listener} /\ ftp.i \in Indices
        BY <1>2, TaskConn DEF IInv, TaskTypes
      <3>3. HasSocket => socket[ftp.c] >= 0
        BY <1>2, <3>2 DEF SocketInv, Indices
      <3>4. HasSocket => ftp.c # C
        <4>1. ftp.c = C => ~(socket[ftp.c] >= 0)
          BY <1>2, <1>3, <1>9 DEF SocketTypes
        <4> QED
          BY <3>3, <4>1
      <3>5. live \subseteq Netconns /\ Listener \in Netconns
        BY <1>2 DEF AcceptInv, Netconns
      <3> QED
        BY <3>1, <3>2, <3>4, <3>5
    <2>4. /\ (Opening' <=> Opening) /\ (HasSocket' <=> HasSocket)
          /\ Accepted' = Accepted /\ \A i : Closing(i)' <=> Closing(i)
      BY <1>1 DEF Returning, Going, Opening, HasSocket, Accepted, Closing
    <2>5. SocketInv'
      <3>1. ASSUME NEW c \in live, socket'[c] >= 0
            PROVE  conn[socket'[c]] = c /\ ~Closing(socket'[c])
        <4>1. c # C
          <5>1. socket'[C] \in Int
            BY <1>3, <2>2
          <5> QED
            BY <2>2, <3>1, <5>1
        <4>2. socket'[c] = socket[c]
          BY <2>2, <2>3, <4>1
        <4> QED
          BY <1>2, <3>1, <4>2 DEF SocketInv
      <3>2. ASSUME NEW i \in Indices \ {0}, conn[i] # None
            PROVE  \/ conn[i] \in live /\ socket'[conn[i]] = i
                   \/ Opening /\ ftp.i = i
                   \/ Closing(i)
        <4>1. conn[i] \in live /\ socket[conn[i]] = i => conn[i] # C
          BY <1>9 DEF Indices
        <4> QED
          BY <1>2, <2>2, <2>3, <3>2, <4>1 DEF SocketInv
      <3>3. HasSocket => socket'[ftp.c] = socket[ftp.c]
        BY <2>2, <2>3
      <3>4. socket'[Listener] = 0
        BY <1>2, <2>2, <2>3 DEF SocketInv
      <3> QED
        BY <1>1, <1>2, <2>4, <3>1, <3>2, <3>3, <3>4 DEF SocketInv
    <2>6. AcceptInv'
      <3>1. \A c \in ToSet(mbox[Listener]) \cup Accepted : socket'[c] < 0
        BY <1>2, <2>2, <2>3 DEF AcceptInv
      <3> QED
        BY <1>1, <1>2, <2>4, <3>1 DEF AcceptInv
    <2>7. ReadyInv'
      BY <1>1, <1>2, <2>4 DEF ReadyInv
    <2>8. PcbInv' /\ CloseInv'
      <3>1. \A o \in ToSet(todo') : o \in ToSet(Tail(todo))
        BY <2>1
      <3> QED
        BY <1>1, <1>7, <3>1, RestInv
    <2>9. CountInv'
      <3>1. ASSUME NEW c \in live \cup {Listener}, ~Deleting(c)
            PROVE  Counted(c)' + Owed(c, todo') = Len(mbox[c]) + InHand(c)
        <4>1. Counted(c) + Owed(c, todo) = Len(mbox[c]) + InHand(c)
          BY <1>2, <3>1 DEF CountInv
        <4>2. Counted(c) \in Int /\ Len(mbox[c]) \in Int /\ InHand(c) \in Int /\ c \in Netconns
          BY CountedType
        <4>3. /\ Owed(c, todo) = Owed(c, todo') + (IF c = C THEN 1 ELSE 0)
              /\ Owed(c, todo) \in Int /\ Owed(c, todo') \in Int
          BY <1>3, <1>5, <2>1
        <4>4. CASE c = C
          <5>1. Counted(c)' = Counted(c) + 1
            BY <1>3, <1>9, <2>2, <3>1, <4>4 DEF Counted
          <5> QED
            BY <4>1, <4>2, <4>3, <4>4, <5>1
        <4>5. CASE c # C
          <5>1. Counted(c)' = Counted(c)
            BY <1>1, <2>2, <4>2, <4>5 DEF Counted
          <5> QED
            BY <4>1, <4>2, <4>3, <4>5, <5>1
        <4> QED
          BY <4>4, <4>5
      <3> QED
        BY <1>1, <1>6, <3>1 DEF CountInv
    <2> QED
      BY <2>5, <2>6, <2>7, <2>8, <2>9 DEF AccInv
  <1> QED
    BY <1>1, <1>8, <1>9

\* An event is counted in the socket.
LEMMA AddAcc ==
    ASSUME IInv, AccInv, Add
    PROVE  AccInv'
  <1>1. /\ todo # <<>> /\ Head(todo).op = "add"
        /\ rcvevent' = [rcvevent EXCEPT ![socket[C]] = @ + X]
        /\ todo' = Tail(todo)
        /\ UNCHANGED <<conn, lastdata, socket, mbox, fatal, pcb, refused, closing, live, api, ftp, ready>>
    BY DEF Add, First, netconns, task
  <1>2. /\ SocketTypes /\ SocketInv /\ AcceptInv /\ ReadyInv /\ PcbInv /\ CountInv
    BY DEF IInv, AccInv
  <1>3. /\ C \in live \cup {Listener} /\ C \in Netconns /\ X \in Int
        /\ C # None /\ (socket[C] >= 0 => conn[socket[C]] = C)
        /\ X = 1 \/ Deleting(C)
        /\ \A c : /\ Owed(c, todo) = Owed(c, Tail(todo)) + Weight(c, Head(todo))
                  /\ Owed(c, todo) \in Int /\ Owed(c, Tail(todo)) \in Int
    BY <1>1, HeadCounts
  <1>4. X >= 0 /\ socket[C] \in Indices
    <2>1. Fitting(Head(todo)) /\ Head(todo) \in ToSet(todo)
      BY <1>1, OrderedTail DEF IInv
    <2> QED
      BY <1>1, <2>1 DEF IInv, Fitting, X, C, EventsPlaced, Event, Placed
  <1>5. \A c : Weight(c, Head(todo)) = IF c = C THEN 1 ELSE 0
    BY <1>1 DEF Weight, C
  <1>6. \A c : InHand(c)' = InHand(c) /\ (Deleting(c)' <=> Deleting(c))
    BY <1>1 DEF InHand, Deleting
  <1>7. /\ rcvevent'[socket[C]] = rcvevent[socket[C]] + X
        /\ \A i \in Indices : i # socket[C] => rcvevent'[i] = rcvevent[i]
        /\ \A i \in Indices : rcvevent[i] \in Nat /\ rcvevent'[i] >= rcvevent[i]
        /\ rcvevent' \in [Indices -> Nat]
    BY <1>1, <1>2, <1>3, <1>4 DEF ReadyInv
  <1>8. Opening => ftp.i # socket[C]
    <2>1. Opening => ftp.c \in live /\ socket[ftp.c] < 0 /\ conn[ftp.i] = ftp.c
      BY <1>2, TaskConn DEF SocketInv
    <2>2. conn[socket[C]] = C /\ ~(socket[C] < 0)
      BY <1>3, <1>4 DEF Indices
    <2> QED
      BY <2>1, <2>2
  <1>9. /\ (Opening' <=> Opening) /\ (HasSocket' <=> HasSocket)
        /\ Accepted' = Accepted /\ \A i : Closing(i)' <=> Closing(i)
    BY <1>1 DEF Returning, Going, Opening, HasSocket, Accepted, Closing
  <1>10. SocketInv'
    BY <1>1, <1>2, <1>9 DEF SocketInv
  <1>11. AcceptInv'
    BY <1>1, <1>2, <1>9 DEF AcceptInv
  <1>12. ReadyInv'
    <2>1. ftp.i \in Indices /\ ready \subseteq Indices
      BY DEF IInv, TaskTypes
    <2>2. \A i \in Indices : rcvevent[i] >= 1 => rcvevent'[i] >= 1
      BY <1>7
    <2>3. Opening => rcvevent'[ftp.i] = rcvevent[ftp.i]
      BY <1>7, <1>8, <2>1
    <2> QED
      BY <1>1, <1>2, <1>7, <1>9, <2>1, <2>2, <2>3 DEF ReadyInv
  <1>13. PcbInv' /\ CloseInv'
    <2>1. \A o \in ToSet(todo') : o \in ToSet(Tail(todo))
      BY <1>1
    <2>2. fatal' \in [Conns -> BOOLEAN] /\ refused' = refused
      BY <1>1, <1>2 DEF PcbInv
    <2> QED
      BY <1>1, <2>1, <2>2, RestInv
  <1>14. CountInv'
    <2>1. ASSUME NEW c \in live \cup {Listener}, ~Deleting(c)
          PROVE  Counted(c)' + Owed(c, todo') = Len(mbox[c]) + InHand(c)
      <3>1. Counted(c) + Owed(c, todo) = Len(mbox[c]) + InHand(c)
        BY <1>2, <2>1 DEF CountInv
      <3>2. /\ Counted(c) \in Int /\ Len(mbox[c]) \in Int /\ InHand(c) \in Int /\ c \in Netconns
            /\ socket[c] \in Int /\ (socket[c] >= 0 => socket[c] \in Indices /\ conn[socket[c]] = c)
        BY CountedType
      <3>3. /\ Owed(c, todo) = Owed(c, todo') + (IF c = C THEN 1 ELSE 0)
            /\ Owed(c, todo) \in Int /\ Owed(c, todo') \in Int
        BY <1>1, <1>3, <1>5
      <3>4. CASE c = C
        <4>1. ~(socket[C] < 0) /\ X = 1
          BY <1>3, <1>4, <2>1, <3>4 DEF Indices
        <4>2. Counted(c)' = Counted(c) + 1
          BY <1>1, <1>7, <3>4, <4>1 DEF Counted
        <4> QED
          BY <3>1, <3>2, <3>3, <3>4, <4>2
      <3>5. CASE c # C
        <4>1. socket[c] >= 0 => socket[c] # socket[C]
          BY <1>3, <3>2, <3>5
        <4>2. Counted(c)' = Counted(c)
          BY <1>1, <1>7, <3>2, <4>1 DEF Counted
        <4> QED
          BY <3>1, <3>2, <3>3, <3>5, <4>2
      <3> QED
        BY <3>4, <3>5
    <2> QED
      BY <1>1, <1>6, <2>1 DEF CountInv
  <1> QED
    BY <1>10, <1>11, <1>12, <1>13, <1>14 DEF AccInv

LEMMA ScanAcc ==
    ASSUME IInv, AccInv, Scan
    PROVE  AccInv'
  <1>1. /\ todo # <<>> /\ Head(todo).op = "scan"
        /\ todo' = Tail(todo)
        /\ UNCHANGED <<conn, rcvevent, lastdata, socket, mbox, fatal, pcb, refused, closing, live, api, ftp, ready>>
    BY DEF Scan, First, sockets, netconns
  <1>2. /\ SocketInv /\ AcceptInv /\ ReadyInv /\ PcbInv /\ CountInv
    BY DEF AccInv
  <1>3. SocketInv' /\ AcceptInv' /\ ReadyInv'
    BY <1>1, <1>2, ThreadFrame
  <1>4. PcbInv' /\ CloseInv'
    <2>1. \A o \in ToSet(todo') : o \in ToSet(Tail(todo))
      BY <1>1
    <2>2. fatal' \in [Conns -> BOOLEAN] /\ refused' = refused
      BY <1>1, <1>2 DEF PcbInv
    <2> QED
      BY <1>1, <2>1, <2>2, RestInv
  <1>5. CountInv'
    <2>1. \A c : Weight(c, Head(todo)) = 0
      BY <1>1 DEF Weight
    <2>2. \A c : /\ Owed(c, todo) = Owed(c, Tail(todo)) + Weight(c, Head(todo))
                 /\ Owed(c, todo) \in Int /\ Owed(c, Tail(todo)) \in Int
      BY <1>1, HeadCounts
    <2>3. \A c : Owed(c, todo') = Owed(c, todo)
      BY <1>1, <2>1, <2>2
    <2> QED
      BY <1>1, <1>2, <2>3, CountFrame
  <1> QED
    BY <1>3, <1>4, <1>5 DEF AccInv

LEMMA ClearAcc ==
    ASSUME IInv, AccInv, Clear
    PROVE  AccInv'
  <1>1. /\ todo # <<>> /\ Head(todo).op \in {"clear", "rearm"}
        /\ todo' = Tail(todo) /\ refused' = [refused EXCEPT ![C] = 0]
        /\ UNCHANGED <<conn, rcvevent, lastdata, socket, mbox, fatal, pcb, closing, live, api, ftp, ready>>
    BY DEF Clear, First, sockets, task
  <1>2. /\ SocketInv /\ AcceptInv /\ ReadyInv /\ PcbInv /\ CountInv
    BY DEF AccInv
  <1>3. SocketInv' /\ AcceptInv' /\ ReadyInv'
    BY <1>1, <1>2, ThreadFrame
  <1>4. PcbInv' /\ CloseInv'
    <2>1. \A o \in ToSet(todo') : o \in ToSet(Tail(todo))
      BY <1>1
    <2>2. fatal' \in [Conns -> BOOLEAN]
      BY <1>1, <1>2 DEF PcbInv
    <2>3. \A c \in Conns : refused'[c] # 0 => refused[c] # 0
      BY <1>1 DEF IInv, SocketTypes
    <2> QED
      BY <1>1, <2>1, <2>2, <2>3, RestInv
  <1>5. CountInv'
    <2>1. \A c : Weight(c, Head(todo)) = 0
      BY <1>1 DEF Weight
    <2>2. \A c : /\ Owed(c, todo) = Owed(c, Tail(todo)) + Weight(c, Head(todo))
                 /\ Owed(c, todo) \in Int /\ Owed(c, Tail(todo)) \in Int
      BY <1>1, HeadCounts
    <2>3. \A c : Owed(c, todo') = Owed(c, todo)
      BY <1>1, <2>1, <2>2
    <2> QED
      BY <1>1, <1>2, <2>3, CountFrame
  <1> QED
    BY <1>3, <1>4, <1>5 DEF AccInv

\* The thread has answered, and has nothing left to do.
LEMMA DoneAcc ==
    ASSUME IInv, AccInv, Done
    PROVE  AccInv'
  <1>1. /\ todo # <<>> /\ Head(todo).op = "done"
        /\ ftp' = [ftp EXCEPT !.pc = ftp.then, !.then = None]
        /\ todo' = Tail(todo)
        /\ UNCHANGED <<conn, rcvevent, lastdata, socket, mbox, fatal, pcb, refused, closing, live, api, ready>>
    BY DEF Done, First, sockets, netconns, ghosts
  <1>2. /\ SocketInv /\ AcceptInv /\ ReadyInv /\ PcbInv /\ CountInv /\ CloseInv
    BY DEF AccInv
  <1>3. todo' = <<>> /\ Head(todo) \in ToSet(todo)
    BY <1>1, OrderedTail DEF IInv
  <1>4. /\ ftp.pc = "asked" /\ ftp.then \in Answered /\ api = None /\ closing = {}
    BY <1>1, <1>3 DEF IInv, TaskInv, AnswerInv, NoAnswer
  <1>5. ftp'.pc = ftp.then /\ ftp'.then = None /\ ftp'.i = ftp.i /\ ftp'.c = ftp.c /\ ftp'.m = ftp.m
    BY <1>1 DEF IInv, TaskTypes
  <1>6. /\ ~Opening /\ ~Opening' /\ \A i : ~Closing(i) /\ ~Closing(i)'
        /\ \A p \in Answered : Going(p)' <=> Going(p)
        /\ ftp.pc \notin {"fetch", "minus", "less", "taken", "receive", "ended", "slot"}
        /\ ftp'.pc \notin {"fetch", "minus", "less", "taken", "receive", "ended", "slot"}
    BY <1>4, <1>5 DEF Opening, Closing, Going, Answered
  <1>7. /\ (Returning' <=> Returning) /\ (HasSocket' <=> HasSocket) /\ Accepted' = Accepted
        /\ \A c : (Deleting(c) => Deleting(c)') /\ InHand(c)' = InHand(c)
    <2>1. Returning' <=> Returning
      BY <1>6 DEF Returning, Answered
    <2>2. HasSocket' <=> HasSocket
      BY <1>5, <1>6, <2>1 DEF HasSocket, Answered
    <2>3. Accepted' = Accepted
      BY <1>5, <1>6, <2>1 DEF Accepted, Answered
    <2>4. ASSUME NEW c
          PROVE  (Deleting(c) => Deleting(c)') /\ InHand(c)' = InHand(c)
      BY <1>4, <1>5, <1>6 DEF Deleting, InHand, Answered
    <2> QED
      BY <2>1, <2>2, <2>3, <2>4
  <1>8. SocketInv'
    BY <1>1, <1>2, <1>5, <1>6, <1>7 DEF SocketInv
  <1>9. AcceptInv'
    BY <1>1, <1>2, <1>7 DEF AcceptInv
  <1>10. ReadyInv'
    BY <1>1, <1>2, <1>5, <1>6 DEF ReadyInv
  <1>11. ToSet(todo') = {}
    BY <1>3, OrderedEmpty
  <1>12. PcbInv'
    BY <1>1, <1>2, <1>11 DEF PcbInv
  <1>13. CloseInv'
    <2>1. Going("free")' <=> Going("free")
      BY <1>6 DEF Answered
    <2> QED
      BY <1>1, <1>2, <1>4, <1>5, <1>11, <2>1 DEF CloseInv
  <1>14. CountInv'
    <2>1. ASSUME NEW c \in live \cup {Listener}, ~Deleting(c)
          PROVE  Counted(c)' + Owed(c, todo') = Len(mbox[c]) + InHand(c)
      <3>1. Counted(c) + Owed(c, todo) = Len(mbox[c]) + InHand(c)
        BY <1>2, <2>1 DEF CountInv
      <3>2. Owed(c, todo) = Owed(c, Tail(todo)) + Weight(c, Head(todo))
            /\ Owed(c, Tail(todo)) \in Int
        BY <1>1, HeadCounts
      <3>3. Weight(c, Head(todo)) = 0
        BY <1>1 DEF Weight
      <3>4. Counted(c)' = Counted(c)
        BY <1>1 DEF Counted
      <3> QED
        BY <1>1, <3>1, <3>2, <3>3, <3>4
    <2> QED
      BY <1>1, <1>7, <2>1 DEF CountInv
  <1> QED
    BY <1>8, <1>9, <1>10, <1>12, <1>13, <1>14 DEF AccInv

-----------------------------------------------------------------------------
(* Accounts: steps of the task                                             *)

\* In select() and at the top of its loop the task has nothing in its hands.
LEMMA AtRest ==
    /\ ftp.pc \in Selecting =>
          /\ ~HasSocket /\ ~Opening /\ ~Returning /\ Accepted = {} /\ ~Going("free")
          /\ \A i : ~Closing(i)
          /\ \A c : ~Deleting(c) /\ InHand(c) = 0
    /\ ftp'.pc \in Selecting =>
          /\ ~HasSocket' /\ ~Opening' /\ ~Returning' /\ Accepted' = {} /\ ~Going("free")'
          /\ \A i : ~Closing(i)'
          /\ \A c : ~Deleting(c)' /\ InHand(c)' = 0
  <1>1. ASSUME ftp.pc \in Selecting
        PROVE  /\ ~HasSocket /\ ~Opening /\ ~Returning /\ Accepted = {} /\ ~Going("free")
               /\ \A i : ~Closing(i)
               /\ \A c : ~Deleting(c) /\ InHand(c) = 0
    BY <1>1 DEF Selecting, HasSocket, Opening, Returning, Going, Accepted, Closing, Deleting, InHand
  <1>2. ASSUME ftp'.pc \in Selecting
        PROVE  /\ ~HasSocket' /\ ~Opening' /\ ~Returning' /\ Accepted' = {} /\ ~Going("free")'
               /\ \A i : ~Closing(i)'
               /\ \A c : ~Deleting(c)' /\ InHand(c)' = 0
    BY <1>2 DEF Selecting, HasSocket, Opening, Returning, Going, Accepted, Closing, Deleting, InHand
  <1> QED
    BY <1>1, <1>2

\* Steps of the task that leave sockets and netconns alone.
LEMMA TaskStep ==
    ASSUME IInv, AccInv, ftp.pc # "asked",
           UNCHANGED <<conn, rcvevent, socket, mbox, pcb, refused, closing, live, todo>>,
           fatal' \in [Conns -> BOOLEAN], lastdata' \in [Indices -> BOOLEAN], ~lastdata'[0],
           HasSocket' => /\ conn[ftp'.i] = ftp'.c /\ socket[ftp'.c] = ftp'.i
                         /\ ftp'.i # 0 => ftp'.c \in live,
           Opening' <=> Opening, Opening => UNCHANGED <<ftp.i, ftp.c>>,
           \A i : Closing(i)' <=> Closing(i),
           Accepted' \subseteq Accepted,
           \A c : Deleting(c) => Deleting(c)',
           \A c : ~Deleting(c)' => InHand(c)' = InHand(c),
           ftp'.pc \in {"fetch", "minus", "less"} => rcvevent[ftp'.i] >= 1,
           ftp'.pc = "receive" => lastdata'[ftp'.i] \/ rcvevent[ftp'.i] >= 1,
           \A i \in ready' : lastdata'[i] \/ rcvevent[i] >= 1,
           ftp'.pc # "free",
           ftp'.pc = "asked" \/ api' = None,
           api' # None => /\ api'.c \in live \cup {Listener}
                          /\ api'.fn = "delete" <=> ftp'.then = "free"
                          /\ api'.fn = "delete" => api'.c = ftp'.c,
           Going("free")' => api' # None
    PROVE  AccInv'
  <1>1. SocketInv /\ AcceptInv /\ ReadyInv /\ PcbInv /\ CloseInv /\ CountInv /\ closing = {}
    BY DEF AccInv, IInv, AnswerInv
  <1>2. SocketInv'
    BY <1>1 DEF SocketInv
  <1>3. AcceptInv'
    BY <1>1 DEF AcceptInv
  <1>4. ReadyInv'
    BY <1>1 DEF ReadyInv
  <1>5. PcbInv'
    BY <1>1 DEF PcbInv
  <1>6. CloseInv'
    BY <1>1 DEF CloseInv
  <1>7. CountInv'
    <2>1. \A c : Counted(c)' = Counted(c)
      BY DEF Counted
    <2> QED
      BY <1>1, <2>1 DEF CountInv
  <1> QED
    BY <1>2, <1>3, <1>4, <1>5, <1>6, <1>7 DEF AccInv

\* The task returns to the top of its loop.
LEMMA RestStep ==
    ASSUME IInv, AccInv, ftp.pc # "asked", ~Opening, \A i : ~Closing(i),
           \A c : ~Deleting(c) /\ InHand(c) = 0,
           ftp'.pc \in Selecting,
           UNCHANGED <<conn, rcvevent, socket, mbox, pcb, refused, closing, live, todo, api>>,
           fatal' \in [Conns -> BOOLEAN], lastdata' \in [Indices -> BOOLEAN], ~lastdata'[0],
           \A i \in ready' : lastdata'[i] \/ rcvevent[i] >= 1
    PROVE  AccInv'
  <1>1. /\ ~HasSocket' /\ ~Opening' /\ Accepted' = {} /\ ~Going("free")'
        /\ \A i : ~Closing(i)'
        /\ \A c : ~Deleting(c)' /\ InHand(c)' = 0
    BY AtRest
  <1>2. ftp'.pc \notin {"fetch", "minus", "less", "receive", "free"} /\ api' = None
    BY DEF Selecting, IInv, AnswerInv
  <1> QED
    BY <1>1, <1>2, TaskStep

LEMMA SelectAcc ==
    ASSUME IInv, AccInv, SelectLock \/ SelectScan \/ SelectList \/ SelectWake \/ SelectRelock
                         \/ SelectUnlink \/ SelectRescan
    PROVE  AccInv'
  <1>1. /\ ftp.pc \in Selecting /\ ftp.pc # "asked" /\ ftp \in TaskRecord
        /\ UNCHANGED <<conn, rcvevent, lastdata, socket, mbox, fatal, pcb, refused, closing, live, todo, api>>
        /\ ready' = ready \/ ready' = Readable
        /\ Return \/ \E pc \in Selecting : Goto(pc)
    BY TaskTypesUnfold DEF IInv, SelectLock, SelectScan, SelectList, SelectWake, SelectRelock, SelectUnlink, SelectRescan,
           At, Selecting, sockets, netconns, tcpip
  <1>2. ftp'.pc \in Selecting
    <2>1. CASE Return
      BY <2>1 DEF Return, Start, Selecting
    <2>2. CASE \E pc \in Selecting : Goto(pc)
      BY <1>1, <2>2, GotoFields
    <2> QED
      BY <1>1, <2>1, <2>2
  <1>3. ReadyInv /\ PcbInv
    BY DEF AccInv
  <1>4. \A i \in ready' : lastdata[i] \/ rcvevent[i] >= 1
    BY <1>1, <1>3 DEF ReadyInv, Readable
  <1>5. fatal' \in [Conns -> BOOLEAN] /\ lastdata' \in [Indices -> BOOLEAN] /\ ~lastdata'[0]
    BY <1>1, <1>3 DEF ReadyInv, PcbInv
  <1>6. ~Opening /\ (\A i : ~Closing(i)) /\ \A c : ~Deleting(c) /\ InHand(c) = 0
    BY <1>1, AtRest
  <1> QED
    BY <1>1, <1>2, <1>4, <1>5, <1>6, RestStep

\* The server goes to a socket that is ready, which has something to read.
LEMMA ServeAcc ==
    ASSUME IInv, AccInv, Serve
    PROVE  AccInv'
  <1>1. /\ ftp.pc = "serve" /\ ftp \in TaskRecord
        /\ UNCHANGED <<conn, rcvevent, lastdata, socket, mbox, fatal, pcb, refused, closing, live, todo, api>>
        /\ \/ Goto("select") /\ ready' = ready
           \/ \E i \in ready :
                 /\ ready' = ready \ {i}
                 /\ ftp' = [ftp EXCEPT !.pc = IF i = 0 THEN "fetch" ELSE "receive",
                                       !.i = i, !.c = conn[i], !.some = FALSE]
    BY TaskTypesUnfold DEF IInv, Serve, At, sockets, netconns, tcpip
  <1>2. SocketInv /\ ReadyInv /\ PcbInv
    BY DEF AccInv
  <1>3. fatal' \in [Conns -> BOOLEAN] /\ lastdata' \in [Indices -> BOOLEAN] /\ ~lastdata'[0]
        /\ \A i \in ready' : lastdata'[i] \/ rcvevent[i] >= 1
    BY <1>1, <1>2 DEF ReadyInv, PcbInv
  <1>4. ~Opening /\ (\A i : ~Closing(i)) /\ \A c : ~Deleting(c) /\ InHand(c) = 0
    BY <1>1, AtRest DEF Selecting
  <1>5. CASE Goto("select")
    <2>1. ftp'.pc \in Selecting
      BY <1>1, <1>5, GotoFields DEF Selecting
    <2> QED
      BY <1>1, <1>3, <1>4, <2>1, RestStep
  <1>6. ASSUME NEW i \in ready, ready' = ready \ {i},
               ftp' = [ftp EXCEPT !.pc = IF i = 0 THEN "fetch" ELSE "receive",
                                  !.i = i, !.c = conn[i], !.some = FALSE]
        PROVE  AccInv'
    <2>1. ftp'.pc = (IF i = 0 THEN "fetch" ELSE "receive") /\ ftp'.i = i /\ ftp'.c = conn[i]
      BY <1>1, <1>6 DEF TaskRecord
    <2>2. i \in Indices /\ conn[i] # None /\ conn[0] = Listener /\ (lastdata[i] \/ rcvevent[i] >= 1)
      BY <1>2, <1>6 DEF IInv, TaskTypes, SocketTypes, ReadyInv
    <2>3. socket[conn[i]] = i /\ (i # 0 => conn[i] \in live)
      BY <1>2, <1>4, <2>2 DEF SocketInv
    <2>4. /\ ~Opening' /\ Accepted' = {} /\ ~Going("free")' /\ (\A j : ~Closing(j)')
          /\ \A c : ~Deleting(c)' /\ InHand(c)' = 0
      BY <2>1 DEF Opening, Accepted, Going, Closing, Deleting, InHand, Returning
    <2>5. /\ ftp'.pc \in {"fetch", "minus", "less"} => rcvevent[ftp'.i] >= 1
          /\ ftp'.pc = "receive" => lastdata'[ftp'.i] \/ rcvevent[ftp'.i] >= 1
          /\ ftp'.pc # "free" /\ ftp'.pc # "asked"
      BY <1>1, <1>2, <2>1, <2>2 DEF ReadyInv
    <2>6. api' = None /\ ftp.pc # "asked"
      BY <1>1 DEF IInv, AnswerInv
    <2>7. /\ conn[ftp'.i] = ftp'.c /\ socket[ftp'.c] = ftp'.i
          /\ ftp'.i # 0 => ftp'.c \in live
      BY <2>1, <2>3
    <2> QED
      BY <1>1, <1>3, <1>4, <2>4, <2>5, <2>6, <2>7, TaskStep
  <1> QED
    BY <1>1, <1>5, <1>6

\* The task takes a lock.
LEMMA LockAcc ==
    ASSUME IInv, AccInv, MinusLock \/ AllocLock \/ AcceptLock \/ CloseLock
    PROVE  AccInv'
  <1>1. /\ ftp \in TaskRecord
        /\ UNCHANGED <<conn, rcvevent, lastdata, socket, mbox, fatal, pcb, refused, closing, live, todo, api, ready>>
        /\ \/ ftp.pc = "minus" /\ Goto("less")
           \/ ftp.pc = "alloc" /\ Goto("slot")
           \/ ftp.pc = "accept" /\ Goto("hand over")
           \/ ftp.pc = "close" /\ Goto("closed")
    BY TaskTypesUnfold DEF IInv, MinusLock, AllocLock, AcceptLock, CloseLock, At, sockets, netconns, tcpip
  <1>2. /\ UNCHANGED <<ftp.i, ftp.c, ftp.m>>
        /\ \/ ftp.pc = "minus" /\ ftp'.pc = "less"
           \/ ftp.pc = "alloc" /\ ftp'.pc = "slot"
           \/ ftp.pc = "accept" /\ ftp'.pc = "hand over"
           \/ ftp.pc = "close" /\ ftp'.pc = "closed"
    <2>1. \A pc : Goto(pc) => ftp'.pc = pc /\ UNCHANGED <<ftp.i, ftp.c, ftp.m>>
      BY <1>1 DEF Goto, TaskRecord
    <2> QED
      BY <1>1, <2>1
  <1>3. SocketInv /\ ReadyInv /\ PcbInv
    BY DEF AccInv
  <1>4. fatal' \in [Conns -> BOOLEAN] /\ lastdata' \in [Indices -> BOOLEAN] /\ ~lastdata'[0]
        /\ \A i \in ready' : lastdata'[i] \/ rcvevent[i] >= 1
    BY <1>1, <1>3 DEF ReadyInv, PcbInv
  <1>5. /\ (HasSocket' => HasSocket) /\ (Opening' <=> Opening) /\ ~Going("free")'
        /\ \A i : Closing(i)' <=> Closing(i)
        /\ \A c : (Deleting(c) => Deleting(c)') /\ InHand(c)' = InHand(c)
    BY <1>2 DEF HasSocket, Opening, Returning, Going, Closing, Deleting, InHand
  <1>6. Accepted' = Accepted
    BY <1>2 DEF Accepted, Opening, Returning, Going
  <1>7. HasSocket' => /\ conn[ftp'.i] = ftp'.c /\ socket[ftp'.c] = ftp'.i
                      /\ ftp'.i # 0 => ftp'.c \in live
    BY <1>2, <1>3, <1>5 DEF SocketInv
  <1>8. /\ ftp'.pc \in {"fetch", "minus", "less"} => rcvevent[ftp'.i] >= 1
        /\ ftp'.pc = "receive" => lastdata'[ftp'.i] \/ rcvevent[ftp'.i] >= 1
        /\ ftp'.pc # "free" /\ ftp.pc # "asked"
    BY <1>2, <1>3 DEF ReadyInv
  <1>9. api' = None
    BY <1>1, <1>8 DEF IInv, AnswerInv
  <1> QED
    BY <1>1, <1>2, <1>4, <1>5, <1>6, <1>7, <1>8, <1>9, TaskStep

\* The task asks the thread.
LEMMA AskAcc ==
    ASSUME IInv, AccInv, Taken \/ Peer \/ Delete
    PROVE  AccInv'
  <1>1. /\ ftp \in TaskRecord /\ ftp.pc \in {"taken", "peer", "delete"}
        /\ UNCHANGED <<conn, rcvevent, lastdata, socket, mbox, fatal, pcb, refused, closing, live, todo, ready>>
    BY TaskTypesUnfold DEF IInv, Taken, Peer, Delete, At, sockets, netconns
  <1>2. SocketInv /\ AcceptInv /\ ReadyInv /\ PcbInv
    BY DEF AccInv
  <1>3. fatal' \in [Conns -> BOOLEAN] /\ lastdata' \in [Indices -> BOOLEAN] /\ ~lastdata'[0]
        /\ \A i \in ready' : lastdata'[i] \/ rcvevent[i] >= 1
    BY <1>1, <1>2 DEF ReadyInv, PcbInv
  <1>4. ~Opening /\ (\A i : ~Closing(i)) /\ (\A c : InHand(c) = 0)
    BY <1>1 DEF Opening, Closing, InHand
  <1>5. ASSUME ftp'.pc = "asked"
        PROVE  ~Opening' /\ (\A i : ~Closing(i)') /\ (\A c : InHand(c)' = 0)
    BY <1>5 DEF Opening, Closing, InHand
  <1>6. CASE Taken
    <2>1. /\ ftp.pc = "taken" /\ api' = [fn |-> "ask", c |-> ftp.c]
          /\ ftp' = IF ftp.i = 0 THEN [ftp EXCEPT !.pc = "asked", !.then = "peer"]
                    ELSE [ftp EXCEPT !.pc = "asked", !.then = "copy", !.m = None]
      BY <1>6 DEF Taken, At
    <2>2. /\ ftp'.pc = "asked" /\ UNCHANGED <<ftp.i, ftp.c>>
          /\ ftp'.then = IF ftp.i = 0 THEN "peer" ELSE "copy"
          /\ ftp.i = 0 => ftp'.m = ftp.m
      BY <1>1, <2>1 DEF TaskRecord
    <2>3. HasSocket /\ ftp.c \in live \cup {Listener}
      BY <1>2, <2>1, TaskConn DEF HasSocket
    <2>4. /\ conn[ftp'.i] = ftp'.c /\ socket[ftp'.c] = ftp'.i
          /\ ftp'.i # 0 => ftp'.c \in live
      BY <1>2, <2>2, <2>3 DEF SocketInv
    <2>5. Accepted' \subseteq Accepted
      BY <2>1, <2>2 DEF Accepted, Going, Opening, Returning
    <2>6. (\A c : Deleting(c) => Deleting(c)') /\ ~Going("free")'
      BY <2>1, <2>2 DEF Deleting, Going
    <2>7. /\ api' # None => /\ api'.c \in live \cup {Listener}
                            /\ api'.fn = "delete" <=> ftp'.then = "free"
                            /\ api'.fn = "delete" => api'.c = ftp'.c
      BY <2>1, <2>2, <2>3
    <2> QED
      BY <1>1, <1>3, <1>4, <1>5, <2>2, <2>4, <2>5, <2>6, <2>7, TaskStep
  <1>7. CASE Peer
    <2>1. /\ ftp.pc = "peer" /\ api' = [fn |-> "ask", c |-> ftp.m]
          /\ ftp' = [ftp EXCEPT !.pc = "asked", !.c = ftp.m, !.m = None,
                          !.then = IF pcb[ftp.m] = "none" THEN "delete" ELSE "alloc"]
      BY <1>7 DEF Peer, At
    <2>2. /\ ftp'.pc = "asked" /\ ftp'.i = ftp.i /\ ftp'.c = ftp.m
          /\ ftp'.then \in {"delete", "alloc"} /\ ftp.i = 0
      BY <1>1, <2>1 DEF TaskRecord, IInv, TaskInv, Going
    <2>3. Accepted = {ftp.m} /\ Accepted' = {ftp.m}
      BY <2>1, <2>2 DEF Accepted, Going, Opening, Returning
    <2>4. ~HasSocket' /\ ~Going("free")' /\ \A c : Deleting(c) => Deleting(c)'
      BY <2>1, <2>2 DEF HasSocket, Returning, Going, Deleting
    <2>5. ftp.m \in live
      BY <1>2, <2>3 DEF AcceptInv
    <2>6. /\ api' # None => /\ api'.c \in live \cup {Listener}
                            /\ api'.fn = "delete" <=> ftp'.then = "free"
                            /\ api'.fn = "delete" => api'.c = ftp'.c
      BY <2>1, <2>2, <2>5
    <2> QED
      BY <1>1, <1>3, <1>4, <1>5, <2>2, <2>3, <2>4, <2>6, TaskStep
  <1>8. CASE Delete
    <2>1. /\ ftp.pc = "delete" /\ api' = [fn |-> "delete", c |-> ftp.c]
          /\ ftp' = [ftp EXCEPT !.pc = "asked", !.then = "free"]
      BY <1>8 DEF Delete, At
    <2>2. /\ ftp'.pc = "asked" /\ UNCHANGED <<ftp.i, ftp.c>> /\ ftp'.then = "free"
      BY <1>1, <2>1 DEF TaskRecord
    <2>3. Returning /\ Returning' /\ ftp.c \in live
      BY <1>2, <2>1, <2>2, TaskConn DEF Returning, Going
    <2>4. HasSocket' => /\ conn[ftp'.i] = ftp'.c /\ socket[ftp'.c] = ftp'.i
                        /\ ftp'.i # 0 => ftp'.c \in live
      <3>1. HasSocket' => HasSocket
        BY <2>2, <2>3 DEF HasSocket, Going
      <3> QED
        BY <1>2, <2>2, <3>1 DEF SocketInv
    <2>5. Accepted' = Accepted
      <3>1. Accepted = IF ftp.i = 0 THEN {ftp.c} ELSE {}
        BY <2>1, <2>3 DEF Accepted, Going, Opening
      <3>2. Accepted' = IF ftp.i = 0 THEN {ftp.c} ELSE {}
        BY <2>2, <2>3 DEF Accepted, Going, Opening
      <3> QED
        BY <3>1, <3>2
    <2>6. \A c : Deleting(c) => Deleting(c)'
      BY <2>1, <2>2 DEF Deleting
    <2>7. /\ api' # None => /\ api'.c \in live \cup {Listener}
                            /\ api'.fn = "delete" <=> ftp'.then = "free"
                            /\ api'.fn = "delete" => api'.c = ftp'.c
      BY <2>1, <2>2, <2>3
    <2>8. api' # None
      <3>1. ftp.c \in Conns \cup {Listener}
        BY <1>2, <2>3 DEF AcceptInv
      <3> QED
        BY <2>1, <3>1, SocketsAssumption
    <2> QED
      BY <1>1, <1>3, <1>4, <1>5, <2>2, <2>4, <2>5, <2>6, <2>7, <2>8, TaskStep
  <1> QED
    BY <1>6, <1>7, <1>8

LEMMA IndicesNat == \A i \in Indices : i \in Nat /\ ~(i < 0)
  <1>1. Cardinality(Conns) \in Nat
    BY SocketsAssumption, FS_CardinalityType
  <1> QED
    BY <1>1 DEF Indices

\* A message is taken; its event is taken with Minus.
LEMMA FetchAcc ==
    ASSUME IInv, AccInv, Fetch
    PROVE  AccInv'
  <1>1. /\ ftp \in TaskRecord /\ ftp.pc = "fetch" /\ mbox[ftp.c] # <<>>
        /\ mbox' = [mbox EXCEPT ![ftp.c] = Tail(@)]
        /\ ftp' = [ftp EXCEPT !.pc = "minus", !.m = Head(mbox[ftp.c])]
        /\ UNCHANGED <<conn, rcvevent, lastdata, socket, fatal, pcb, refused, closing, live, todo, api, ready>>
    BY TaskTypesUnfold DEF IInv, Fetch, At, sockets, tcpip
  <1>2. SocketTypes /\ SocketInv /\ AcceptInv /\ ReadyInv /\ PcbInv /\ CloseInv /\ CountInv
    BY DEF IInv, AccInv
  <1>3. ftp'.pc = "minus" /\ UNCHANGED <<ftp.i, ftp.c>> /\ ftp'.m = Head(mbox[ftp.c])
    BY <1>1 DEF TaskRecord
  <1>4. /\ HasSocket /\ HasSocket' /\ ftp.c \in live \cup {Listener} /\ (ftp.i = 0 => ftp.c = Listener)
        /\ ftp.i # 0 => ftp.c \in live
    <2>1. HasSocket /\ HasSocket'
      BY <1>1, <1>3 DEF HasSocket
    <2> QED
      BY <1>2, <2>1, TaskConn DEF SocketInv
  <1>5. /\ ftp.c \in Netconns /\ live \subseteq Netconns /\ live \subseteq Conns /\ Listener \notin Conns
        /\ Listener \in Netconns
    BY <1>2, <1>4, SocketsAssumption DEF AcceptInv, Netconns
  <1>6. /\ mbox'[ftp.c] = Tail(mbox[ftp.c])
        /\ \A c \in Netconns : c # ftp.c => mbox'[c] = mbox[c]
    BY <1>1, <1>2, <1>5 DEF SocketTypes
  <1>7. /\ ~Opening /\ ~Opening' /\ ~Going("free") /\ ~Going("free")'
        /\ \A i : ~Closing(i) /\ ~Closing(i)'
        /\ \A c : ~Deleting(c) /\ ~Deleting(c)'
        /\ \A c : InHand(c) = 0 /\ InHand(c)' = IF c = ftp.c THEN 1 ELSE 0
    BY <1>1, <1>3 DEF Opening, Going, Closing, Deleting, InHand
  <1>8. SocketInv'
    BY <1>1, <1>2, <1>3, <1>4, <1>7 DEF SocketInv
  <1>9. AcceptInv'
    <2>1. CASE ftp.i = 0
      <3>1. /\ mbox[Listener] \in Seq(Conns) /\ mbox[Listener] # <<>> /\ IsInjective(mbox[Listener])
            /\ mbox'[Listener] = Tail(mbox[Listener]) /\ ftp'.m = Head(mbox[Listener])
        BY <1>1, <1>2, <1>3, <1>4, <1>6, <2>1 DEF SocketTypes, AcceptInv
      <3>2. /\ IsInjective(mbox'[Listener]) /\ ftp'.m \in ToSet(mbox[Listener])
            /\ ToSet(mbox'[Listener]) = ToSet(mbox[Listener]) \ {ftp'.m}
        BY <3>1, HeadTailElements
      <3>3. Accepted' = {ftp'.m}
        BY <1>3, <2>1 DEF Accepted
      <3> QED
        BY <1>1, <1>2, <3>2, <3>3 DEF AcceptInv
    <2>2. CASE ftp.i # 0
      <3>1. Accepted' = {}
        BY <1>3, <2>2 DEF Accepted, Going, Opening, Returning
      <3>2. mbox'[Listener] = mbox[Listener]
        BY <1>4, <1>5, <1>6, <2>2
      <3> QED
        BY <1>1, <1>2, <3>1, <3>2 DEF AcceptInv
    <2> QED
      BY <2>1, <2>2
  <1>10. ReadyInv'
    BY <1>1, <1>2, <1>3, <1>7 DEF ReadyInv
  <1>11. PcbInv'
    <2>1. \A c \in Conns \ live : mbox'[c] = mbox[c]
      BY <1>4, <1>5, <1>6, ConnNetconn
    <2> QED
      BY <1>1, <1>2, <1>7, <2>1 DEF PcbInv
  <1>12. CloseInv'
    <2>1. api = None /\ closing = {}
      BY <1>1 DEF IInv, AnswerInv
    <2> QED
      BY <1>1, <1>3, <1>7, <2>1 DEF CloseInv
  <1>13. CountInv'
    <2>1. ASSUME NEW c \in live \cup {Listener}
          PROVE  Counted(c) + Owed(c, todo) = Len(mbox'[c]) + InHand(c)'
      <3>1. Counted(c) + Owed(c, todo) = Len(mbox[c]) + InHand(c)
        BY <1>2, <1>7 DEF CountInv
      <3>2. c \in Netconns /\ mbox[c] \in Seq(Int \cup Conns)
        BY CountedType
      <3>3. CASE c = ftp.c
        <4>1. Len(mbox'[c]) = Len(mbox[c]) - 1 /\ Len(mbox[c]) \in Nat
          <5>1. PICK s \in Seq(Int \cup Conns) : s = mbox[c] /\ s # <<>> /\ mbox'[c] = Tail(s)
            BY <1>1, <1>6, <3>2, <3>3
          <5>2. Len(Tail(s)) = Len(s) - 1 /\ Len(s) \in Nat
            BY <5>1, HeadTailElements
          <5> QED
            BY <5>1, <5>2
        <4> QED
          BY <1>7, <3>1, <3>3, <4>1
      <3>4. CASE c # ftp.c
        BY <1>6, <1>7, <3>1, <3>2, <3>4
      <3> QED
        BY <3>3, <3>4
    <2>2. \A c : Counted(c)' = Counted(c)
      BY <1>1 DEF Counted
    <2> QED
      BY <1>1, <2>1, <2>2 DEF CountInv
  <1> QED
    BY <1>8, <1>9, <1>10, <1>11, <1>12, <1>13 DEF AccInv

LEMMA MinusAcc ==
    ASSUME IInv, AccInv, Minus
    PROVE  AccInv'
  <1> DEFINE next == IF ftp.i = 0 \/ ftp.m # End THEN "taken" ELSE "ended"
  <1>1. /\ ftp \in TaskRecord /\ ftp.pc = "less" /\ Goto(next)
        /\ rcvevent' = [rcvevent EXCEPT ![ftp.i] = @ - 1]
        /\ UNCHANGED <<conn, lastdata, socket, mbox, fatal, pcb, refused, closing, live, todo, api, ready>>
    BY TaskTypesUnfold DEF IInv, Minus, At, netconns, tcpip
  <1>2. SocketInv /\ AcceptInv /\ ReadyInv /\ PcbInv /\ CloseInv /\ CountInv
    BY DEF AccInv
  <1>3. /\ ftp'.pc \in {"taken", "ended"} /\ UNCHANGED <<ftp.i, ftp.c, ftp.m>>
        /\ ftp.i = 0 => ftp'.pc = "taken"
    <2>1. next \in {"taken", "ended"} /\ (ftp.i = 0 => next = "taken")
      OBVIOUS
    <2>2. ftp'.pc = next /\ UNCHANGED <<ftp.i, ftp.c, ftp.m>>
      <3> HIDE DEF next
      <3> QED
        BY <1>1 DEF TaskRecord, Goto
    <2> QED
      BY <2>1, <2>2
  <1>4. /\ HasSocket /\ HasSocket' /\ ftp.i \in Indices /\ ftp.i \notin ready
        /\ conn[ftp.i] = ftp.c /\ socket[ftp.c] = ftp.i
    <2>1. HasSocket /\ HasSocket'
      BY <1>1, <1>3 DEF HasSocket
    <2>2. ftp.i \in Indices /\ ftp.i \notin ready
      BY <1>1 DEF TaskRecord, IInv, TaskInv, Working
    <2> QED
      BY <1>2, <2>1, <2>2 DEF SocketInv
  <1>5. /\ rcvevent[ftp.i] \in Nat /\ rcvevent[ftp.i] >= 1
        /\ rcvevent'[ftp.i] = rcvevent[ftp.i] - 1
        /\ \A i \in Indices : i # ftp.i => rcvevent'[i] = rcvevent[i]
        /\ rcvevent' \in [Indices -> Nat]
    BY <1>1, <1>2, <1>4 DEF ReadyInv
  <1>6. /\ ~Opening /\ ~Opening' /\ ~Going("free") /\ ~Going("free")'
        /\ \A i : ~Closing(i) /\ ~Closing(i)'
        /\ \A c : ~Deleting(c) /\ ~Deleting(c)'
        /\ \A c : InHand(c)' = 0 /\ InHand(c) = IF c = ftp.c THEN 1 ELSE 0
    BY <1>1, <1>3 DEF Opening, Going, Closing, Deleting, InHand
  <1>7. Accepted' = Accepted
    <2>1. Accepted = IF ftp.i = 0 THEN {ftp.m} ELSE {}
      BY <1>1 DEF Accepted, Going, Opening, Returning
    <2>2. Accepted' = IF ftp.i = 0 THEN {ftp.m} ELSE {}
      BY <1>3 DEF Accepted, Going, Opening, Returning
    <2> QED
      BY <2>1, <2>2
  <1>8. SocketInv'
    BY <1>1, <1>2, <1>3, <1>4, <1>6 DEF SocketInv
  <1>9. AcceptInv'
    BY <1>1, <1>2, <1>7 DEF AcceptInv
  <1>10. ReadyInv'
    <2>1. \A i \in ready : lastdata[i] \/ rcvevent'[i] >= 1
      <3>1. ready \subseteq Indices
        BY DEF IInv, TaskTypes
      <3> QED
        BY <1>2, <1>4, <1>5, <3>1 DEF ReadyInv
    <2> QED
      BY <1>1, <1>2, <1>3, <1>5, <1>6, <2>1 DEF ReadyInv
  <1>11. PcbInv'
    BY <1>1, <1>2, <1>6 DEF PcbInv
  <1>12. CloseInv'
    <2>1. api = None /\ closing = {}
      BY <1>1 DEF IInv, AnswerInv
    <2> QED
      BY <1>1, <1>3, <1>6, <2>1 DEF CloseInv
  <1>13. CountInv'
    <2>1. ASSUME NEW c \in live \cup {Listener}
          PROVE  Counted(c)' + Owed(c, todo) = Len(mbox[c]) + InHand(c)'
      <3>1. Counted(c) + Owed(c, todo) = Len(mbox[c]) + InHand(c)
        BY <1>2, <1>6 DEF CountInv
      <3>2. /\ Counted(c) \in Int /\ Len(mbox[c]) \in Nat /\ socket[c] \in Int
            /\ socket[c] >= 0 => socket[c] \in Indices /\ conn[socket[c]] = c
        BY CountedType
      <3>3. todo \in Seq(Ops)
        BY DEF IInv, Ordered
      <3>4. Owed(c, todo) \in Int
        BY <3>3, OwedConcat
      <3>5. CASE c = ftp.c
        <4>1. Counted(c)' = Counted(c) - 1
          BY <1>1, <1>4, <1>5, <3>5, IndicesNat DEF Counted
        <4> QED
          BY <1>6, <3>1, <3>2, <3>4, <3>5, <4>1
      <3>6. CASE c # ftp.c
        <4>1. socket[c] >= 0 => socket[c] # ftp.i
          BY <1>4, <3>2, <3>6
        <4>2. Counted(c)' = Counted(c)
          BY <1>1, <1>5, <3>2, <4>1 DEF Counted
        <4> QED
          BY <1>6, <3>1, <3>6, <4>2
      <3> QED
        BY <3>5, <3>6
    <2> QED
      BY <1>1, <2>1 DEF CountInv
  <1> QED
    BY <1>8, <1>9, <1>10, <1>11, <1>12, <1>13 DEF AccInv

LEMMA ReceiveAcc ==
    ASSUME IInv, AccInv, Receive \/ Ended \/ \E more \in BOOLEAN : Copy(more)
    PROVE  AccInv'
  <1>1. /\ ftp \in TaskRecord /\ ftp.pc \in {"receive", "ended", "copy"}
        /\ UNCHANGED <<conn, rcvevent, socket, mbox, pcb, refused, closing, live, todo, api, ready>>
    BY TaskTypesUnfold DEF IInv, Receive, Ended, Copy, At, sockets, netconns, tcpip
  <1>2. SocketInv /\ ReadyInv /\ PcbInv
    BY DEF AccInv
  <1>3. ftp.i # 0 /\ ftp.i \notin ready /\ ftp.i \in Indices /\ ready \subseteq Indices
    BY <1>1 DEF IInv, TaskInv, Going, Working, TaskRecord, TaskTypes
  <1>4. /\ ~Opening /\ (\A i : ~Closing(i)) /\ HasSocket
        /\ \A c : ~Deleting(c) /\ InHand(c) = 0
    BY <1>1 DEF Opening, Closing, HasSocket, Going, Deleting, InHand
  <1>5. fatal' \in [Conns -> BOOLEAN]
    BY <1>2 DEF Receive, Ended, Copy, netconns, PcbInv
  <1>6. /\ lastdata' \in [Indices -> BOOLEAN] /\ ~lastdata'[0]
        /\ \A i \in ready' : lastdata'[i] \/ rcvevent[i] >= 1
    <2>1. \/ lastdata' = lastdata
          \/ \E more \in BOOLEAN : lastdata' = [lastdata EXCEPT ![ftp.i] = more]
      BY DEF Receive, Ended, Copy, sockets
    <2>2. lastdata \in [Indices -> BOOLEAN] /\ 0 \in Indices
      BY <1>2, IndicesType DEF ReadyInv
    <2>3. lastdata' \in [Indices -> BOOLEAN] /\ \A i \in Indices : i # ftp.i => lastdata'[i] = lastdata[i]
      BY <2>1, <2>2
    <2> QED
      BY <1>1, <1>2, <1>3, <2>2, <2>3 DEF ReadyInv
  <1>7. CASE Return
    <2>1. ftp'.pc \in Selecting
      BY <1>7 DEF Return, Start, Selecting
    <2> QED
      BY <1>1, <1>4, <1>5, <1>6, <2>1, RestStep
  <1>8. ASSUME ftp'.pc \in {"fetch", "copy", "receive", "delete"}, UNCHANGED <<ftp.i, ftp.c>>,
               ftp'.pc \in {"fetch", "receive"} => rcvevent[ftp.i] >= 1
        PROVE  AccInv'
    <2>1. ~Opening' /\ Accepted' = {} /\ ~Going("free")' /\ (\A i : ~Closing(i)') /\ \A c : InHand(c)' = 0
      BY <1>3, <1>8 DEF Opening, Accepted, Returning, Going, Closing, InHand
    <2>2. /\ conn[ftp'.i] = ftp'.c /\ socket[ftp'.c] = ftp'.i
          /\ ftp'.i # 0 => ftp'.c \in live
      BY <1>2, <1>4, <1>8 DEF SocketInv
    <2>3. api' = None
      BY <1>1 DEF IInv, AnswerInv
    <2> QED
      BY <1>1, <1>4, <1>5, <1>6, <1>8, <2>1, <2>2, <2>3, TaskStep
  <1>9. CASE Receive
    <2>1. lastdata[ftp.i] \/ rcvevent[ftp.i] >= 1
      BY <1>2, <1>9 DEF Receive, At, ReadyInv
    <2>2. \A pc : Goto(pc) => ftp'.pc = pc /\ UNCHANGED <<ftp.i, ftp.c>>
      BY <1>1 DEF Goto, TaskRecord
    <2>3. \/ Return
          \/ ftp' = [ftp EXCEPT !.pc = "delete", !.m = None]
          \/ Goto("copy")
          \/ Goto("fetch") /\ ~lastdata[ftp.i]
      BY <1>9 DEF Receive, Told
    <2>4. ftp' = [ftp EXCEPT !.pc = "delete", !.m = None] => ftp'.pc = "delete" /\ UNCHANGED <<ftp.i, ftp.c>>
      BY <1>1 DEF TaskRecord
    <2> QED
      BY <1>7, <1>8, <2>1, <2>2, <2>3, <2>4
  <1>10. CASE Ended
    <2>1. \/ Return
          \/ ftp' = [ftp EXCEPT !.pc = "delete", !.m = None]
      BY <1>10 DEF Ended, Told
    <2>2. ftp' = [ftp EXCEPT !.pc = "delete", !.m = None] => ftp'.pc = "delete" /\ UNCHANGED <<ftp.i, ftp.c>>
      BY <1>1 DEF TaskRecord
    <2> QED
      BY <1>7, <1>8, <2>1, <2>2
  <1>11. CASE \E more \in BOOLEAN : Copy(more)
    <2>1. \/ Return
          \/ ftp' = [ftp EXCEPT !.pc = "delete", !.some = TRUE]
          \/ ftp' = [ftp EXCEPT !.pc = "receive", !.some = TRUE] /\ rcvevent[ftp.i] > 0
      BY <1>11 DEF Copy, Quit
    <2>2. ASSUME NEW pc \in {"delete", "receive"}, ftp' = [ftp EXCEPT !.pc = pc, !.some = TRUE]
          PROVE  ftp'.pc = pc /\ UNCHANGED <<ftp.i, ftp.c>>
      BY <1>1, <2>2 DEF TaskRecord
    <2>3. rcvevent[ftp.i] > 0 => rcvevent[ftp.i] >= 1
      BY <1>2, <1>3 DEF ReadyInv
    <2> QED
      BY <1>7, <1>8, <2>1, <2>2, <2>3
  <1> QED
    BY <1>9, <1>10, <1>11

\* The netconn gets a socket, which nobody else has.
LEMMA AllocAcc ==
    ASSUME IInv, AccInv, Alloc
    PROVE  AccInv'
  <1>1. /\ ftp \in TaskRecord /\ ftp.pc = "slot" /\ ftp.i = 0
        /\ UNCHANGED <<socket, mbox, fatal, pcb, refused, closing, live, todo, api, ready>>
        /\ \/ Goto("delete") /\ UNCHANGED <<conn, rcvevent, lastdata>>
           \/ \E i \in FreeIndices :
                 /\ conn' = [conn EXCEPT ![i] = ftp.c]
                 /\ rcvevent' = [rcvevent EXCEPT ![i] = 0]
                 /\ lastdata' = [lastdata EXCEPT ![i] = FALSE]
                 /\ ftp' = [ftp EXCEPT !.pc = "accept", !.i = i]
    BY TaskTypesUnfold DEF IInv, Alloc, At, sockets, netconns, tcpip, TaskInv
  <1>2. SocketTypes /\ SocketInv /\ AcceptInv /\ ReadyInv /\ PcbInv /\ CloseInv /\ CountInv
    BY DEF IInv, AccInv
  <1>3. /\ ~Opening /\ (\A i : ~Closing(i)) /\ Accepted = {ftp.c} /\ ~Going("free")
        /\ (\A c : ~Deleting(c)) /\ (\A c : InHand(c) = 0)
    BY <1>1 DEF Opening, Closing, Accepted, Going, Deleting, InHand
  <1>4. api = None /\ closing = {} /\ ftp.pc # "asked"
    BY <1>1 DEF IInv, AnswerInv
  <1>5. CASE Goto("delete") /\ UNCHANGED <<conn, rcvevent, lastdata>>
    <2>1. ftp'.pc = "delete" /\ UNCHANGED <<ftp.i, ftp.c>>
      BY <1>1, <1>5 DEF Goto, TaskRecord
    <2>2. /\ ~Opening' /\ (\A i : ~Closing(i)') /\ Accepted' = {ftp.c} /\ ~Going("free")' /\ ~HasSocket'
          /\ (\A c : InHand(c)' = 0)
      BY <1>1, <2>1 DEF Opening, Closing, Accepted, Going, Returning, HasSocket, InHand
    <2>3. fatal' \in [Conns -> BOOLEAN] /\ lastdata' \in [Indices -> BOOLEAN] /\ ~lastdata'[0]
          /\ \A i \in ready' : lastdata'[i] \/ rcvevent[i] >= 1
      BY <1>1, <1>2, <1>5 DEF ReadyInv, PcbInv
    <2> QED
      BY <1>1, <1>3, <1>4, <1>5, <2>1, <2>2, <2>3, TaskStep
  <1>6. ASSUME NEW i \in FreeIndices,
               conn' = [conn EXCEPT ![i] = ftp.c],
               rcvevent' = [rcvevent EXCEPT ![i] = 0],
               lastdata' = [lastdata EXCEPT ![i] = FALSE],
               ftp' = [ftp EXCEPT !.pc = "accept", !.i = i]
        PROVE  AccInv'
    <2>1. ftp'.pc = "accept" /\ ftp'.i = i /\ ftp'.c = ftp.c
      BY <1>1, <1>6 DEF TaskRecord
    <2>2. /\ i \in Indices /\ conn[i] = None /\ i # 0 /\ i \notin ready
          /\ ftp.c \in live /\ ftp.c \in Conns /\ ftp.c # Listener /\ socket[ftp.c] < 0
      <3>1. i \in Indices /\ conn[i] = None
        BY <1>6 DEF FreeIndices
      <3>2. i # 0 /\ i \notin ready
        BY <1>2, <3>1, SocketsAssumption DEF SocketTypes, IInv, TaskTypes
      <3>3. ftp.c \in live /\ socket[ftp.c] < 0
        BY <1>2, <1>3 DEF AcceptInv
      <3> QED
        BY <1>2, <3>1, <3>2, <3>3, SocketsAssumption DEF AcceptInv
    <2>3. /\ conn'[i] = ftp.c /\ \A j \in Indices : j # i => conn'[j] = conn[j]
          /\ rcvevent'[i] = 0 /\ \A j \in Indices : j # i => rcvevent'[j] = rcvevent[j]
          /\ \A j \in Indices : j # i => lastdata'[j] = lastdata[j]
          /\ rcvevent' \in [Indices -> Nat] /\ lastdata' \in [Indices -> BOOLEAN]
      BY <1>2, <1>6, <2>2 DEF SocketTypes, ReadyInv
    <2>4. /\ Opening' /\ (\A j : ~Closing(j)') /\ Accepted' = {ftp.c} /\ ~Going("free")' /\ ~HasSocket'
          /\ (\A c : ~Deleting(c)') /\ (\A c : InHand(c)' = 0)
      BY <2>1 DEF Opening, Closing, Accepted, Going, Returning, HasSocket, Deleting, InHand
    <2>5. \A c \in live \cup {Listener} : socket[c] >= 0 =>
             socket[c] \in Indices /\ socket[c] # i /\ conn[socket[c]] = c
      <3> SUFFICES ASSUME NEW c \in live \cup {Listener}, socket[c] >= 0
                   PROVE  socket[c] \in Indices /\ socket[c] # i /\ conn[socket[c]] = c
        OBVIOUS
      <3>1. socket[c] \in Indices /\ conn[socket[c]] = c /\ c \in Netconns
        BY CountedType
      <3>2. c # None
        BY <3>1, SocketsAssumption DEF Netconns
      <3> QED
        BY <2>2, <3>1, <3>2
    <2>6. SocketInv'
      <3>1. \A j \in Indices : conn'[j] = Listener <=> j = 0
        BY <1>2, <2>2, <2>3 DEF SocketInv
      <3>2. \A c \in live : socket[c] >= 0 => conn'[socket[c]] = c
        BY <2>3, <2>5
      <3>3. \A j \in Indices \ {0} : conn'[j] # None =>
               \/ conn'[j] \in live /\ socket[conn'[j]] = j
               \/ j = i
        BY <1>2, <1>3, <2>3 DEF SocketInv
      <3> QED
        BY <1>1, <1>2, <2>1, <2>2, <2>3, <2>4, <3>1, <3>2, <3>3 DEF SocketInv
    <2>7. AcceptInv'
      BY <1>1, <1>2, <1>3, <2>4 DEF AcceptInv
    <2>8. ReadyInv'
      <3>1. \A j \in ready : lastdata'[j] \/ rcvevent'[j] >= 1
        <4>1. ready \subseteq Indices
          BY DEF IInv, TaskTypes
        <4> QED
          BY <1>2, <2>2, <2>3, <4>1 DEF ReadyInv
      <3>2. ~lastdata'[0]
        BY <1>2, <2>2, <2>3, IndicesType DEF ReadyInv
      <3> QED
        BY <1>1, <2>1, <2>3, <3>1, <3>2 DEF ReadyInv
    <2>9. PcbInv'
      BY <1>1, <1>2, <1>3, <2>4 DEF PcbInv
    <2>10. CloseInv'
      BY <1>1, <1>4, <2>1, <2>4 DEF CloseInv
    <2>11. CountInv'
      <3>1. \A c \in live \cup {Listener} : Counted(c)' = Counted(c)
        <4> TAKE c \in live \cup {Listener}
        <4>1. socket[c] \in Int
          BY CountedType
        <4>2. socket' = socket /\ (socket[c] >= 0 => rcvevent'[socket[c]] = rcvevent[socket[c]])
          BY <1>1, <2>3, <2>5
        <4> QED
          BY <4>1, <4>2 DEF Counted
      <3>2. UNCHANGED <<todo, mbox, live>>
        BY <1>1
      <3>3. \A c \in live \cup {Listener} : Counted(c) + Owed(c, todo) = Len(mbox[c]) + InHand(c)
        BY <1>2, <1>3 DEF CountInv
      <3> QED
        BY <1>3, <2>4, <3>1, <3>2, <3>3 DEF CountInv
    <2> QED
      BY <2>6, <2>7, <2>8, <2>9, <2>10, <2>11 DEF AccInv
  <1> QED
    BY <1>1, <1>5, <1>6

\* The events counted in the netconn go to its socket.
LEMMA AcceptAcc ==
    ASSUME IInv, AccInv, Accept
    PROVE  AccInv'
  <1>1. /\ ftp \in TaskRecord /\ ftp.pc = "hand over" /\ Return
        /\ rcvevent' = [rcvevent EXCEPT ![ftp.i] = @ - 1 - socket[ftp.c]]
        /\ socket' = [socket EXCEPT ![ftp.c] = ftp.i]
        /\ UNCHANGED <<conn, lastdata, mbox, fatal, pcb, refused, closing, live, todo, api, ready>>
    BY TaskTypesUnfold DEF IInv, Accept, At, tcpip
  <1>2. SocketTypes /\ SocketInv /\ AcceptInv /\ ReadyInv /\ PcbInv /\ CloseInv /\ CountInv
    BY DEF IInv, AccInv
  <1>3. /\ Opening /\ (\A i : ~Closing(i)) /\ Accepted = {ftp.c}
        /\ (\A c : ~Deleting(c)) /\ (\A c : InHand(c) = 0)
    BY <1>1 DEF Opening, Closing, Accepted, Going, Deleting, InHand
  <1>4. /\ ftp'.pc = "serve" /\ ~HasSocket' /\ ~Opening' /\ Accepted' = {} /\ ~Going("free")'
        /\ (\A i : ~Closing(i)') /\ \A c : ~Deleting(c)' /\ InHand(c)' = 0
    <2>1. ftp'.pc = "serve" /\ ftp'.pc \in Selecting
      BY <1>1 DEF Return, Start, Selecting
    <2> QED
      BY <2>1, AtRest
  <1>5. /\ ftp.i \in Indices /\ ftp.i # 0 /\ ftp.i \notin ready /\ conn[ftp.i] = ftp.c
        /\ ftp.c \in live /\ ftp.c \in Conns /\ ftp.c \in Netconns /\ ftp.c # Listener
        /\ socket[ftp.c] < 0 /\ socket[ftp.c] \in Int /\ rcvevent[ftp.i] = 0
        /\ ftp.c \notin ToSet(mbox[Listener])
        /\ live \subseteq Netconns
    <2>1. ftp.i \in Indices /\ ftp.i \notin ready
      BY <1>1 DEF IInv, TaskInv, TaskRecord, Working
    <2>2. ftp.i # 0 /\ conn[ftp.i] = ftp.c /\ rcvevent[ftp.i] = 0
      BY <1>2, <1>3 DEF SocketInv, ReadyInv
    <2>3. ftp.c \in live /\ ftp.c \in Conns /\ socket[ftp.c] < 0 /\ ftp.c \notin ToSet(mbox[Listener])
          /\ live \subseteq Netconns
      BY <1>2, <1>3 DEF AcceptInv, Netconns
    <2> QED
      BY <1>2, <2>1, <2>2, <2>3, SocketsAssumption DEF SocketTypes, Netconns
  <1>6. /\ rcvevent'[ftp.i] = -1 - socket[ftp.c] /\ rcvevent'[ftp.i] \in Nat
        /\ \A i \in Indices : i # ftp.i => rcvevent'[i] = rcvevent[i]
        /\ rcvevent' \in [Indices -> Nat]
        /\ socket'[ftp.c] = ftp.i /\ \A c \in Netconns : c # ftp.c => socket'[c] = socket[c]
    <2>1. rcvevent \in [Indices -> Nat] /\ socket \in [Netconns -> Int]
      BY <1>2 DEF ReadyInv, SocketTypes
    <2>2. rcvevent[ftp.i] - 1 - socket[ftp.c] \in Nat /\ rcvevent[ftp.i] - 1 - socket[ftp.c] = -1 - socket[ftp.c]
      BY <1>5
    <2> QED
      BY <1>1, <1>5, <2>1, <2>2
  <1>7. \A c \in live \cup {Listener} : c # ftp.c /\ socket[c] >= 0 =>
           socket[c] \in Indices /\ socket[c] # ftp.i /\ conn[socket[c]] = c
    <2> SUFFICES ASSUME NEW c \in live \cup {Listener}, c # ftp.c, socket[c] >= 0
                 PROVE  socket[c] \in Indices /\ socket[c] # ftp.i /\ conn[socket[c]] = c
      OBVIOUS
    <2>1. socket[c] \in Indices /\ conn[socket[c]] = c
      BY CountedType
    <2> QED
      BY <1>5, <2>1
  <1>8. SocketInv'
    <2>1. \A c \in live : socket'[c] >= 0 => conn[socket'[c]] = c
      BY <1>5, <1>6, <1>7
    <2>2. ASSUME NEW j \in Indices \ {0}, conn[j] # None
          PROVE  conn[j] \in live /\ socket'[conn[j]] = j
      <3>1. CASE j = ftp.i
        BY <1>5, <1>6, <3>1
      <3>2. CASE j # ftp.i
        <4>1. conn[j] \in live /\ socket[conn[j]] = j
          BY <1>2, <1>3, <2>2, <3>2 DEF SocketInv
        <4>2. conn[j] # ftp.c
          BY <1>5, <4>1, IndicesNat
        <4> QED
          BY <1>5, <1>6, <4>1, <4>2
      <3> QED
        BY <3>1, <3>2
    <2>3. socket'[Listener] = 0
      BY <1>2, <1>5, <1>6 DEF SocketInv, Netconns
    <2> QED
      BY <1>1, <1>2, <1>4, <2>1, <2>2, <2>3 DEF SocketInv
  <1>9. AcceptInv'
    <2>1. \A c \in ToSet(mbox[Listener]) : socket'[c] < 0
      BY <1>2, <1>5, <1>6 DEF AcceptInv
    <2> QED
      BY <1>1, <1>2, <1>4, <2>1 DEF AcceptInv
  <1>10. ReadyInv'
    <2>1. \A i \in ready : lastdata[i] \/ rcvevent'[i] >= 1
      <3>1. ready \subseteq Indices
        BY DEF IInv, TaskTypes
      <3> QED
        BY <1>2, <1>5, <1>6, <3>1 DEF ReadyInv
    <2> QED
      BY <1>1, <1>2, <1>4, <1>6, <2>1 DEF ReadyInv
  <1>11. PcbInv'
    BY <1>1, <1>2, <1>3, <1>4 DEF PcbInv
  <1>12. CloseInv'
    <2>1. api = None /\ closing = {}
      BY <1>1 DEF IInv, AnswerInv
    <2> QED
      BY <1>1, <1>4, <2>1 DEF CloseInv
  <1>13. CountInv'
    <2>1. \A c \in live \cup {Listener} : Counted(c)' = Counted(c)
      <3> TAKE c \in live \cup {Listener}
      <3>1. CASE c = ftp.c
        BY <1>5, <1>6, <3>1, IndicesNat DEF Counted
      <3>2. CASE c # ftp.c
        <4>1. socket[c] \in Int /\ c \in Netconns
          BY CountedType
        <4> QED
          BY <1>6, <1>7, <3>2, <4>1 DEF Counted
      <3> QED
        BY <3>1, <3>2
    <2>2. UNCHANGED <<todo, mbox, live>>
      BY <1>1
    <2>3. \A c \in live \cup {Listener} : Counted(c) + Owed(c, todo) = Len(mbox[c]) + InHand(c)
      BY <1>2, <1>3 DEF CountInv
    <2> QED
      BY <1>3, <1>4, <2>1, <2>2, <2>3 DEF CountInv
  <1> QED
    BY <1>8, <1>9, <1>10, <1>11, <1>12, <1>13 DEF AccInv

\* A netconn goes back to the pool; nothing more is to be done for it.
LEMMA FreeAcc ==
    ASSUME IInv, AccInv, Free
    PROVE  AccInv'
  <1>1. /\ ftp \in TaskRecord /\ ftp.pc = "free"
        /\ mbox' = [mbox EXCEPT ![ftp.c] = <<>>]
        /\ live' = live \ {ftp.c}
        /\ socket' = [socket EXCEPT ![ftp.c] = -1]
        /\ fatal' = [fatal EXCEPT ![ftp.c] = FALSE]
        /\ \/ ftp.i # 0 /\ Goto("close")
           \/ ftp.i = 0 /\ Return
        /\ UNCHANGED <<conn, rcvevent, lastdata, pcb, refused, closing, todo, api, ready>>
    BY TaskTypesUnfold DEF IInv, Free, At, sockets, tcpip
  <1>2. SocketTypes /\ SocketInv /\ AcceptInv /\ ReadyInv /\ PcbInv /\ CloseInv /\ CountInv
    BY DEF IInv, AccInv
  <1>3. /\ ~Opening /\ (\A i : ~Closing(i)) /\ Returning /\ Going("free")
        /\ (\A c : Deleting(c) <=> c = ftp.c) /\ (\A c : InHand(c) = 0)
        /\ (ftp.i = 0 => Accepted = {ftp.c}) /\ (ftp.i # 0 => HasSocket)
    BY <1>1 DEF Opening, Closing, Accepted, HasSocket, Returning, Going, Deleting, InHand
  <1>4. api = None /\ closing = {} /\ pcb[ftp.c] = "none" /\ \A o \in ToSet(todo) : o.c # ftp.c
    BY <1>1, <1>2, <1>3 DEF CloseInv, IInv, AnswerInv
  <1>5. /\ ftp.c \in live /\ ftp.c \in Conns /\ ftp.c \in Netconns /\ ftp.c # Listener
        /\ live \subseteq Netconns /\ Listener \in Netconns
    <2>1. ftp.c \in live
      BY <1>2, <1>3, TaskConn
    <2> QED
      BY <1>2, <2>1, SocketsAssumption DEF AcceptInv, Netconns
  <1>6. /\ mbox'[ftp.c] = <<>> /\ \A c \in Netconns : c # ftp.c => mbox'[c] = mbox[c]
        /\ socket'[ftp.c] = -1 /\ \A c \in Netconns : c # ftp.c => socket'[c] = socket[c]
        /\ fatal' \in [Conns -> BOOLEAN]
    BY <1>1, <1>2, <1>5 DEF SocketTypes, PcbInv
  <1>7. /\ ~HasSocket' /\ ~Opening' /\ Accepted' = {} /\ ~Going("free")'
        /\ (\A i : Closing(i)' <=> ftp.i # 0 /\ i = ftp.i)
        /\ (\A c : ~Deleting(c)' /\ InHand(c)' = 0)
        /\ ftp'.pc \notin {"fetch", "minus", "less", "receive", "free"}
    <2>1. CASE ftp.i # 0 /\ Goto("close")
      <3>1. ftp'.pc = "close" /\ ftp'.i = ftp.i
        BY <1>1, <2>1 DEF Goto, TaskRecord
      <3> QED
        BY <2>1, <3>1 DEF HasSocket, Opening, Accepted, Returning, Going, Closing, Deleting, InHand
    <2>2. CASE ftp.i = 0 /\ Return
      <3>1. ftp'.pc = "serve" /\ ftp'.pc \in Selecting
        BY <2>2 DEF Return, Start, Selecting
      <3> QED
        BY <2>2, <3>1, AtRest
    <2> QED
      BY <1>1, <2>1, <2>2
  <1>8. ftp.i # 0 => conn[ftp.i] = ftp.c /\ socket[ftp.c] = ftp.i
    BY <1>2, <1>3 DEF SocketInv
  <1>9. ftp.i = 0 => socket[ftp.c] < 0 /\ ftp.c \notin ToSet(mbox[Listener])
    BY <1>2, <1>3 DEF AcceptInv
  <1>10. ftp.i \in Indices
    BY <1>1 DEF TaskRecord
  <1>11. SocketInv'
    <2>1. ASSUME NEW c \in live', socket'[c] >= 0
          PROVE  conn[socket'[c]] = c /\ ~(ftp.i # 0 /\ socket'[c] = ftp.i)
      <3>1. c \in live /\ c # ftp.c /\ socket'[c] = socket[c]
        BY <1>1, <1>5, <1>6
      <3>2. conn[socket[c]] = c
        BY <1>2, <2>1, <3>1 DEF SocketInv
      <3> QED
        BY <1>7, <1>8, <3>1, <3>2
    <2>2. ASSUME NEW j \in Indices \ {0}, conn[j] # None
          PROVE  (conn[j] \in live' /\ socket'[conn[j]] = j) \/ (ftp.i # 0 /\ j = ftp.i)
      <3>1. conn[j] \in live /\ socket[conn[j]] = j
        BY <1>2, <1>3, <2>2 DEF SocketInv
      <3>2. CASE conn[j] = ftp.c
        <4>1. j = socket[ftp.c] /\ ~(j < 0)
          BY <3>1, <3>2, IndicesNat
        <4>2. ftp.i # 0 /\ j = ftp.i
          BY <1>8, <1>9, <4>1
        <4> QED
          BY <1>7, <4>2
      <3>3. CASE conn[j] # ftp.c
        BY <1>1, <1>5, <1>6, <3>1, <3>3
      <3> QED
        BY <3>2, <3>3
    <2>3. socket'[Listener] = 0
      BY <1>2, <1>5, <1>6 DEF SocketInv
    <2> QED
      BY <1>1, <1>2, <1>7, <2>1, <2>2, <2>3 DEF SocketInv
  <1>12. AcceptInv'
    <2>1. mbox'[Listener] = mbox[Listener]
      BY <1>5, <1>6
    <2>2. ftp.c \notin ToSet(mbox[Listener])
      <3>1. ftp.i # 0 => ~(socket[ftp.c] < 0)
        BY <1>8, <1>10, IndicesNat
      <3> QED
        BY <1>2, <1>9, <3>1 DEF AcceptInv
    <2>3. \A c \in ToSet(mbox[Listener]) : socket'[c] < 0
      BY <1>2, <1>5, <1>6, <2>2 DEF AcceptInv
    <2> QED
      BY <1>1, <1>2, <1>7, <2>1, <2>2, <2>3 DEF AcceptInv
  <1>13. ReadyInv'
    BY <1>1, <1>2, <1>7 DEF ReadyInv
  <1>14. PcbInv'
    <2>1. \A c \in Conns \ live' : mbox'[c] = <<>> /\ pcb[c] = "none"
      BY <1>1, <1>2, <1>4, <1>6, ConnNetconn DEF PcbInv
    <2>2. \A o \in ToSet(todo) :
            /\ o.c \in live' \cup {Listener}
            /\ o.op \in {"count", "add"} => o.x = 1
            /\ o.op = "deliver" => pcb[o.c] # "none"
      BY <1>1, <1>2, <1>3, <1>4 DEF PcbInv
    <2> QED
      BY <1>1, <1>2, <1>4, <1>6, <2>1, <2>2 DEF PcbInv
  <1>15. CloseInv'
    BY <1>1, <1>4, <1>7 DEF CloseInv
  <1>16. CountInv'
    <2>1. ASSUME NEW c \in live' \cup {Listener}
          PROVE  Counted(c)' + Owed(c, todo) = Len(mbox'[c]) + InHand(c)'
      <3>1. c \in live \cup {Listener} /\ c # ftp.c /\ c \in Netconns
        BY <1>1, <1>5
      <3>2. Counted(c) + Owed(c, todo) = Len(mbox[c]) + InHand(c)
        BY <1>2, <1>3, <3>1 DEF CountInv
      <3>3. Counted(c)' = Counted(c) /\ mbox'[c] = mbox[c]
        BY <1>1, <1>6, <3>1 DEF Counted
      <3> QED
        BY <1>3, <1>7, <3>2, <3>3
    <2> QED
      BY <1>1, <2>1 DEF CountInv
  <1> QED
    BY <1>11, <1>12, <1>13, <1>14, <1>15, <1>16 DEF AccInv

LEMMA ClosedAcc ==
    ASSUME IInv, AccInv, Closed
    PROVE  AccInv'
  <1>1. /\ ftp \in TaskRecord /\ ftp.pc = "closed" /\ Return
        /\ conn' = [conn EXCEPT ![ftp.i] = None]
        /\ lastdata' = [lastdata EXCEPT ![ftp.i] = FALSE]
        /\ rcvevent' = [rcvevent EXCEPT ![ftp.i] = 0]
        /\ UNCHANGED <<socket, mbox, fatal, pcb, refused, closing, live, todo, api, ready>>
    BY TaskTypesUnfold DEF IInv, Closed, At, netconns, tcpip
  <1>2. SocketTypes /\ SocketInv /\ AcceptInv /\ ReadyInv /\ PcbInv /\ CloseInv /\ CountInv
    BY DEF IInv, AccInv
  <1>3. /\ ~Opening /\ (\A i : Closing(i) <=> i = ftp.i)
        /\ (\A c : ~Deleting(c)) /\ (\A c : InHand(c) = 0)
    BY <1>1 DEF Opening, Closing, Deleting, InHand
  <1>4. /\ ftp'.pc = "serve" /\ ~HasSocket' /\ ~Opening' /\ Accepted' = {} /\ ~Going("free")'
        /\ (\A i : ~Closing(i)') /\ \A c : ~Deleting(c)' /\ InHand(c)' = 0
    <2>1. ftp'.pc = "serve" /\ ftp'.pc \in Selecting
      BY <1>1 DEF Return, Start, Selecting
    <2> QED
      BY <2>1, AtRest
  <1>5. ftp.i \in Indices /\ ftp.i # 0 /\ ftp.i \notin ready /\ ready \subseteq Indices /\ 0 \in Indices
    BY <1>1, IndicesType DEF IInv, TaskInv, TaskTypes, TaskRecord, Working
  <1>6. /\ conn'[ftp.i] = None /\ \A i \in Indices : i # ftp.i => conn'[i] = conn[i]
        /\ \A i \in Indices : i # ftp.i => rcvevent'[i] = rcvevent[i] /\ lastdata'[i] = lastdata[i]
        /\ rcvevent' \in [Indices -> Nat] /\ lastdata' \in [Indices -> BOOLEAN]
    BY <1>1, <1>2, <1>5 DEF SocketTypes, ReadyInv
  <1>7. \A c \in live \cup {Listener} : socket[c] >= 0 =>
           socket[c] \in Indices /\ socket[c] # ftp.i /\ conn[socket[c]] = c
    <2> SUFFICES ASSUME NEW c \in live \cup {Listener}, socket[c] >= 0
                 PROVE  socket[c] \in Indices /\ socket[c] # ftp.i /\ conn[socket[c]] = c
      OBVIOUS
    <2>1. socket[c] \in Indices /\ conn[socket[c]] = c
      BY CountedType
    <2>2. socket[c] # ftp.i
      BY <1>2, <1>3, <1>5 DEF SocketInv
    <2> QED
      BY <2>1, <2>2
  <1>8. SocketInv'
    <2>1. \A i \in Indices : conn'[i] = Listener <=> i = 0
      BY <1>2, <1>5, <1>6, SocketsAssumption DEF SocketInv
    <2>2. \A c \in live : socket[c] >= 0 => conn'[socket[c]] = c
      BY <1>6, <1>7
    <2>3. \A i \in Indices \ {0} : conn'[i] # None => conn'[i] \in live /\ socket[conn'[i]] = i
      BY <1>2, <1>3, <1>6 DEF SocketInv
    <2> QED
      BY <1>1, <1>2, <1>4, <2>1, <2>2, <2>3 DEF SocketInv
  <1>9. AcceptInv'
    BY <1>1, <1>2, <1>4 DEF AcceptInv
  <1>10. ReadyInv'
    BY <1>1, <1>2, <1>4, <1>5, <1>6 DEF ReadyInv
  <1>11. PcbInv'
    BY <1>1, <1>2, <1>3, <1>4 DEF PcbInv
  <1>12. CloseInv'
    <2>1. api = None /\ closing = {}
      BY <1>1 DEF IInv, AnswerInv
    <2> QED
      BY <1>1, <1>4, <2>1 DEF CloseInv
  <1>13. CountInv'
    <2>1. \A c \in live \cup {Listener} : Counted(c)' = Counted(c)
      <3> TAKE c \in live \cup {Listener}
      <3>1. socket[c] \in Int
        BY CountedType
      <3> QED
        BY <1>1, <1>6, <1>7, <3>1 DEF Counted
    <2> QED
      BY <1>1, <1>2, <1>3, <1>4, <2>1 DEF CountInv
  <1> QED
    BY <1>8, <1>9, <1>10, <1>11, <1>12, <1>13 DEF AccInv

-----------------------------------------------------------------------------
(* What the messages are                                                   *)

MailInv ==
    /\ \A c \in Conns : /\ mbox[c] \in Seq(0 .. MaxSegments[c])
                        /\ refused[c] \in 0 .. MaxSegments[c]
                        /\ sent[c] \in 0 .. MaxSegments[c]
    /\ \A c \in Netconns : Len(mbox[c]) <= MboxSize
    /\ \A o \in ToSet(todo) : o.op = "deliver" => o.x \in 0 .. MaxSegments[o.c]
    /\ lost \subseteq live

\* No message is delivered along s.
Quiet(s) == s \in Seq(Ops) /\ \A o \in ToSet(s) : o.op # "deliver"

LEMMA QuietConcat ==
    ASSUME NEW s, NEW t, Quiet(s), t \in Seq(Ops)
    PROVE  /\ s \o t \in Seq(Ops) /\ ToSet(s \o t) = ToSet(s) \cup ToSet(t)
           /\ Quiet(t) => Quiet(s \o t)
  BY ConcatElements DEF Quiet

LEMMA QuietOne ==
    ASSUME NEW op \in {"post", "done", "clear", "rearm"}, NEW c \in Netconns, NEW x \in Int
    PROVE  Quiet(<<Op(op, c, x)>>)
  <1>1. <<Op(op, c, x)>> \in Seq(Ops) /\ ToSet(<<Op(op, c, x)>>) = {Op(op, c, x)}
    <2>1. op \in {"deliver", "post", "count", "add", "scan", "clear", "rearm", "done"}
      OBVIOUS
    <2> QED
      BY <2>1, OneOwed
  <1> QED
    BY <1>1 DEF Quiet, Op

LEMMA QuietEvent ==
    ASSUME SocketTypes, NEW c \in Netconns, NEW x \in Int
    PROVE  Quiet(ApiEvent(c, x)) /\ Quiet(Callback(c, x))
  <1>1. /\ ApiEvent(c, x) \in Seq(Ops)
        /\ \A o \in ToSet(ApiEvent(c, x)) : o.op \in {"count", "add", "scan"}
        /\ Callback(c, x) \in Seq(Ops)
        /\ \A o \in ToSet(Callback(c, x)) : o.op \in {"count", "add", "scan"}
    BY EventOwed
  <1> QED
    BY <1>1 DEF Quiet

LEMMA QuietClose ==
    ASSUME SocketTypes, NEW c \in Netconns
    PROVE  Quiet(ApiEvent(c, 1) \o ApiEvent(c, 0) \o <<Op("done", c, 0)>>)
  <1>1. Quiet(ApiEvent(c, 1)) /\ Quiet(ApiEvent(c, 0)) /\ Quiet(<<Op("done", c, 0)>>)
    BY QuietEvent, QuietOne
  <1>2. PICK a, b, t : /\ a = ApiEvent(c, 1) /\ b = ApiEvent(c, 0) /\ t = <<Op("done", c, 0)>>
                       /\ Quiet(a) /\ Quiet(b) /\ Quiet(t)
    BY <1>1
  <1>3. Quiet(a \o b)
    BY <1>2, QuietConcat DEF Quiet
  <1>4. Quiet((a \o b) \o t)
    BY <1>2, <1>3, QuietConcat DEF Quiet
  <1> QED
    BY <1>2, <1>4

\* Steps that bring no message into a mailbox.
LEMMA MailFrame ==
    ASSUME MailInv, UNCHANGED <<mbox, sent>>,
           \A c \in Conns : refused'[c] = refused[c] \/ refused'[c] = 0,
           \A o \in ToSet(todo') : o.op = "deliver" => o \in ToSet(todo),
           lost' \subseteq live'
    PROVE  MailInv'
  <1>1. \A c \in Conns : 0 \in 0 .. MaxSegments[c]
    BY SocketsAssumption
  <1> QED
    BY <1>1 DEF MailInv

\* A message comes into the mailbox of c.
LEMMA MailPut ==
    ASSUME IInv, MailInv, NEW c \in Conns, NEW x \in 0 .. MaxSegments[c], ~Full(c),
           mbox' = [mbox EXCEPT ![c] = Append(@, x)],
           UNCHANGED <<sent, refused, lost, live>>,
           \A o \in ToSet(todo') : o.op = "deliver" => o \in ToSet(todo)
    PROVE  MailInv'
  <1>1. mbox \in [Netconns -> Seq(Int \cup Conns)] /\ c \in Netconns /\ Conns \subseteq Netconns
    BY ConnNetconn DEF IInv, SocketTypes
  <1>2. mbox'[c] = Append(mbox[c], x) /\ \A d \in Netconns : d # c => mbox'[d] = mbox[d]
    BY <1>1
  <1>3. PICK s \in Seq(0 .. MaxSegments[c]) : s = mbox[c]
    BY DEF MailInv
  <1>4. Append(s, x) \in Seq(0 .. MaxSegments[c]) /\ Len(Append(s, x)) = Len(s) + 1 /\ Len(s) \in Nat
    OBVIOUS
  <1>5. mbox'[c] \in Seq(0 .. MaxSegments[c]) /\ Len(mbox'[c]) <= MboxSize
    <2>1. MboxSize \in Nat /\ ~(Len(s) >= MboxSize)
      BY <1>3, SocketsAssumption DEF Full
    <2>2. Len(Append(s, x)) <= MboxSize
      BY <1>4, <2>1
    <2> QED
      BY <1>2, <1>3, <1>4, <2>2
  <1> QED
    BY <1>1, <1>2, <1>5 DEF MailInv

\* What was refused is offered again.
LEMMA OfferMail ==
    ASSUME IInv, MailInv, NEW c \in Conns, NEW then \in {"clear", "rearm"}, Offer(c, then)
    PROVE  MailInv'
  <1>1. /\ SocketTypes /\ c \in Netconns /\ todo \in Seq(Ops) /\ lost \subseteq live
        /\ refused[c] \in 0 .. MaxSegments[c] /\ refused \in [Conns -> Int]
        /\ UNCHANGED <<sent, lost, live>>
    BY ConnNetconn DEF IInv, Ordered, MailInv, SocketTypes, Offer
  <1>2. CASE refused' = [refused EXCEPT ![c] = 0] /\ UNCHANGED <<mbox, todo>>
    <2>1. \A d \in Conns : refused'[d] = refused[d] \/ refused'[d] = 0
      BY <1>1, <1>2
    <2> QED
      BY <1>1, <1>2, <2>1, MailFrame
  <1>3. CASE /\ ~Full(c) /\ mbox' = [mbox EXCEPT ![c] = Append(@, refused[c])]
             /\ todo' = ApiEvent(c, 1) \o <<Op(then, c, 0)>> \o todo
             /\ UNCHANGED refused
    <2>1. PICK a, b : /\ a = ApiEvent(c, 1) /\ b = <<Op(then, c, 0)>>
                      /\ Quiet(a) /\ Quiet(b)
      <3>1. Quiet(ApiEvent(c, 1)) /\ Quiet(<<Op(then, c, 0)>>)
        BY <1>1, QuietEvent, QuietOne
      <3> QED
        BY <3>1
    <2>2. Quiet(a \o b)
      BY <2>1, QuietConcat DEF Quiet
    <2>3. ToSet((a \o b) \o todo) = ToSet(a \o b) \cup ToSet(todo)
      BY <1>1, <2>2, QuietConcat
    <2>4. \A o \in ToSet(todo') : o.op = "deliver" => o \in ToSet(todo)
      BY <1>3, <2>1, <2>2, <2>3 DEF Quiet
    <2>5. PICK x \in 0 .. MaxSegments[c] : x = refused[c]
      BY <1>1
    <2> QED
      BY <1>1, <1>3, <2>4, <2>5, MailPut
  <1> QED
    BY <1>2, <1>3 DEF Offer

LEMMA NetworkMail ==
    ASSUME IInv, AccInv, MailInv, Network
    PROVE  MailInv'
  <1>0. PICK c \in Conns :
           \/ OfferAgain(c) \/ NestedOffer(c)
           \/ Connected(c) \/ LastAck(c) \/ Reset(c) \/ CloseAgain(c)
           \/ \E data, end \in BOOLEAN : Segment(c, data, end)
    BY DEF Network
  <1>7. CASE OfferAgain(c) \/ NestedOffer(c)
    <2>1. PICK then \in {"clear", "rearm"} : Offer(c, then)
      BY <1>7 DEF OfferAgain, NestedOffer
    <2> QED
      BY <2>1, OfferMail
  <1> SUFFICES ASSUME \/ Connected(c) \/ LastAck(c) \/ Reset(c) \/ CloseAgain(c)
                      \/ \E data, end \in BOOLEAN : Segment(c, data, end)
               PROVE  MailInv'
    BY <1>0, <1>7
  <1>1. \/ Connected(c) \/ LastAck(c) \/ Reset(c) \/ CloseAgain(c)
        \/ \E data, end \in BOOLEAN : Segment(c, data, end)
    OBVIOUS
  <1>2. /\ SocketTypes /\ c \in Netconns /\ Listener \in Netconns /\ c # Listener
        /\ todo = <<>> /\ ToSet(todo) = {} /\ lost' = lost
    <2>1. todo = <<>> /\ lost' = lost
      BY <1>1 DEF Connected, LastAck, Reset, CloseAgain, CloseDone, Segment, Idle, ghosts
    <2> QED
      BY <2>1, ConnNetconn, SocketsAssumption, OrderedEmpty DEF IInv
  <1>3. /\ refused \in [Conns -> Int] /\ sent \in [Conns -> Int] /\ lost \subseteq live
        /\ MaxSegments[c] \in Nat
    BY <1>2, SocketsAssumption DEF SocketTypes, MailInv
  <1>4. CASE Connected(c)
    <2>1. /\ ~Full(Listener) /\ mbox' = [mbox EXCEPT ![Listener] = Append(@, c)]
          /\ todo' = ApiEvent(Listener, 1) /\ live' = live \cup {c}
          /\ UNCHANGED <<refused, sent>>
      BY <1>4 DEF Connected, ghosts
    <2>2. Quiet(todo')
      BY <1>2, <2>1, QuietEvent
    <2>3. /\ \A d \in Conns : mbox'[d] = mbox[d]
          /\ \A d \in Netconns : Len(mbox'[d]) <= MboxSize
      <3>1. mbox \in [Netconns -> Seq(Int \cup Conns)] /\ Conns \subseteq Netconns /\ Listener \notin Conns
        BY <1>2, ConnNetconn, SocketsAssumption DEF SocketTypes
      <3>2. \A d \in Netconns : d # Listener => mbox'[d] = mbox[d]
        BY <2>1, <3>1
      <3>3. Len(mbox'[Listener]) <= MboxSize
        <4>1. PICK s \in Seq(Int \cup Conns) : s = mbox[Listener]
          BY <1>2, <3>1
        <4>2. Len(Append(s, c)) = Len(s) + 1 /\ Len(s) \in Nat
          OBVIOUS
        <4>3. mbox'[Listener] = Append(s, c)
          BY <1>2, <2>1, <3>1, <4>1
        <4> QED
          BY <2>1, <4>1, <4>2, <4>3, SocketsAssumption DEF Full
      <3> QED
        BY <3>1, <3>2, <3>3 DEF MailInv
    <2> QED
      BY <1>2, <1>3, <2>1, <2>2, <2>3 DEF MailInv, Quiet
  <1>5. CASE LastAck(c)
    <2>1. UNCHANGED <<mbox, sent, refused, todo, live>>
      BY <1>5 DEF LastAck, ghosts, tcpip
    <2> QED
      BY <1>2, <1>3, <2>1, MailFrame
  <1>6. CASE Reset(c)
    <2> DEFINE a == ApiEvent(c, 1)  b == <<Op("post", c, End)>>
               last == IF c \in closing THEN <<Op("done", c, 0)>> ELSE <<>>
    <2>1. /\ UNCHANGED <<mbox, sent, live>> /\ refused' = [refused EXCEPT ![c] = 0]
          /\ todo' = (a \o b) \o last
      BY <1>6 DEF Reset, ghosts
    <2>2. Quiet(a) /\ Quiet(b) /\ Quiet(last)
      <3>1. Quiet(a) /\ Quiet(b) /\ Quiet(<<Op("done", c, 0)>>)
        BY <1>2, ConnNetconn, QuietEvent, QuietOne
      <3>2. Quiet(<<>>)
        BY OrderedEmpty DEF Quiet
      <3> HIDE DEF a, b
      <3> QED
        BY <3>1, <3>2
    <2> HIDE DEF a, b, last
    <2>3. Quiet(a \o b)
      BY <2>2, QuietConcat DEF Quiet
    <2>4. Quiet((a \o b) \o last)
      BY <2>2, <2>3, QuietConcat DEF Quiet
    <2>5. \A d \in Conns : refused'[d] = refused[d] \/ refused'[d] = 0
      BY <1>3, <2>1
    <2> QED
      BY <1>2, <1>3, <2>1, <2>4, <2>5, MailFrame DEF Quiet
  <1>8. CASE CloseAgain(c)
    <2>1. /\ UNCHANGED <<mbox, sent, live>> /\ refused' = [refused EXCEPT ![c] = 0]
          /\ todo' = ApiEvent(c, 1) \o ApiEvent(c, 0) \o <<Op("done", c, 0)>>
      BY <1>8 DEF CloseAgain, CloseDone, ghosts
    <2>2. Quiet(todo')
      BY <1>2, <2>1, QuietClose
    <2>3. \A d \in Conns : refused'[d] = refused[d] \/ refused'[d] = 0
      BY <1>3, <2>1
    <2> QED
      BY <1>2, <1>3, <2>1, <2>2, <2>3, MailFrame DEF Quiet
  <1>9. CASE \E data, end \in BOOLEAN : Segment(c, data, end)
    <2>1. PICK data \in BOOLEAN, end \in BOOLEAN : Segment(c, data, end)
      BY <1>9
    <2> DEFINE a == IF data THEN <<Op("deliver", c, sent[c] + 1)>> ELSE <<>>
               b == IF end THEN <<Op("deliver", c, End)>> ELSE <<>>
    <2>2. /\ UNCHANGED <<mbox, refused, live>>
          /\ data => sent[c] < MaxSegments[c]
          /\ sent' = [sent EXCEPT ![c] = IF data THEN @ + 1 ELSE @]
          /\ todo' = a \o b \/ todo' = <<>>
      BY <1>2, <2>1 DEF Segment
    <2>3. sent[c] \in 0 .. MaxSegments[c] /\ sent[c] + 1 \in Int /\ 0 \in 0 .. MaxSegments[c]
      BY <1>3 DEF MailInv
    <2>4. /\ a \in Seq(Ops) /\ ToSet(a) \subseteq {o \in {Op("deliver", c, sent[c] + 1)} : data}
          /\ b \in Seq(Ops) /\ ToSet(b) \subseteq {Op("deliver", c, End)}
      BY <1>2, <2>3, OneOwed, OrderedEmpty, ConnNetconn
    <2> HIDE DEF a, b
    <2>5. ToSet(a \o b) = ToSet(a) \cup ToSet(b)
      BY <2>4, ConcatElements
    <2>6. \A o \in ToSet(todo') : o.x \in 0 .. MaxSegments[o.c]
      <3>1. \A o \in ToSet(todo') : (data /\ o = Op("deliver", c, sent[c] + 1)) \/ o = Op("deliver", c, End)
        BY <1>2, <2>2, <2>4, <2>5
      <3>2. data => sent[c] + 1 \in 0 .. MaxSegments[c]
        BY <1>3, <2>2, <2>3
      <3>3. \A x : Op("deliver", c, x).x = x /\ Op("deliver", c, x).c = c
        BY DEF Op
      <3> QED
        BY <2>3, <3>1, <3>2, <3>3 DEF End
    <2>7. \A d \in Conns : sent'[d] \in 0 .. MaxSegments[d]
      <3> TAKE d \in Conns
      <3>1. sent[d] \in 0 .. MaxSegments[d]
        BY DEF MailInv
      <3>2. d # c => sent'[d] = sent[d]
        BY <1>3, <2>2
      <3>3. sent'[c] \in 0 .. MaxSegments[c]
        BY <1>3, <2>2, <2>3
      <3> QED
        BY <3>1, <3>2, <3>3
    <2> QED
      BY <1>2, <1>3, <2>2, <2>6, <2>7 DEF MailInv
  <1> QED
    BY <1>1, <1>4, <1>5, <1>6, <1>8, <1>9

LEMMA ThreadMail ==
    ASSUME IInv, AccInv, MailInv, Thread
    PROVE  MailInv'
  <1>1. lost \subseteq live /\ SocketTypes /\ live \subseteq Conns
    BY DEF MailInv, IInv, AccInv, AcceptInv
  <1>2. CASE ApiCall
    <2>1. PICK c : c = api.c
      OBVIOUS
    <2>2. c \in Netconns /\ todo = <<>> /\ ToSet(todo) = {}
      BY <1>1, <1>2, <2>1, OrderedEmpty DEF ApiCall, SocketTypes
    <2>3. /\ UNCHANGED <<mbox, sent, lost, live>>
          /\ refused' = refused \/ refused' = [refused EXCEPT ![c] = 0]
          /\ \/ todo' = <<Op("done", c, 0)>> \/ todo' = <<>>
             \/ todo' = ApiEvent(c, 1) \o ApiEvent(c, 0) \o <<Op("done", c, 0)>>
      BY <1>2, <2>1, <2>2 DEF ApiCall, CloseDone, CloseFailed, ghosts, netconns
    <2>4. Quiet(todo')
      <3>1. Quiet(<<Op("done", c, 0)>>)
        BY <2>2, QuietOne
      <3>2. Quiet(ApiEvent(c, 1) \o ApiEvent(c, 0) \o <<Op("done", c, 0)>>)
        BY <1>1, <2>2, QuietClose
      <3>3. Quiet(<<>>)
        BY OrderedEmpty DEF Quiet
      <3> QED
        BY <2>3, <3>1, <3>2, <3>3
    <2>5. \A d \in Conns : refused'[d] = refused[d] \/ refused'[d] = 0
      BY <1>1, <2>3 DEF SocketTypes
    <2> QED
      BY <1>1, <2>3, <2>4, <2>5, MailFrame DEF Quiet
  <1> SUFFICES ASSUME todo # <<>>, Deliver \/ Post \/ Count \/ Add \/ Scan \/ Clear \/ Done
               PROVE  MailInv'
    BY <1>2 DEF Thread, Deliver, Post, Count, Add, Scan, Clear, Done, First
  <1>3. /\ Tail(todo) \in Seq(Ops) /\ ToSet(Tail(todo)) \subseteq ToSet(todo)
        /\ C \in Netconns /\ X \in Int /\ Head(todo) \in ToSet(todo)
    BY HeadCounts, OrderedTail DEF IInv
  <1>4. CASE Deliver
    <2>1. /\ Head(todo).op = "deliver"
          /\ UNCHANGED <<sent, live>>
          /\ \/ /\ ~Full(C) /\ mbox' = [mbox EXCEPT ![C] = Append(@, X)]
                /\ todo' = ApiEvent(C, 1) \o Tail(todo)
                /\ UNCHANGED <<refused, lost>>
             \/ /\ refused' = refused \/ refused' = [refused EXCEPT ![C] = X]
                /\ lost' = lost \/ lost' = lost \cup {C}
                /\ todo' = Tail(todo) /\ mbox' = mbox
      BY <1>4 DEF Deliver, First
    <2>2. C \in live /\ C \in Conns /\ X \in 0 .. MaxSegments[C]
      <3>1. C \in live
        BY <2>1, HeadCounts
      <3> QED
        BY <1>1, <1>3, <2>1, <3>1 DEF MailInv, C, X
    <2>3. CASE /\ ~Full(C) /\ mbox' = [mbox EXCEPT ![C] = Append(@, X)]
               /\ todo' = ApiEvent(C, 1) \o Tail(todo)
               /\ UNCHANGED <<refused, lost>>
      <3>1. PICK a, t : /\ a = ApiEvent(C, 1) /\ t = Tail(todo)
                        /\ Quiet(a) /\ t \in Seq(Ops)
        <4>1. Quiet(ApiEvent(C, 1))
          BY <1>1, <1>3, QuietEvent
        <4> QED
          BY <1>3, <4>1
      <3>2. ToSet(a \o t) = ToSet(a) \cup ToSet(t)
        BY <3>1, QuietConcat
      <3>3. \A o \in ToSet(todo') : o.op = "deliver" => o \in ToSet(todo)
        BY <1>3, <2>3, <3>1, <3>2 DEF Quiet
      <3> QED
        BY <2>1, <2>2, <2>3, <3>3, MailPut
    <2>4. CASE /\ refused' = refused \/ refused' = [refused EXCEPT ![C] = X]
               /\ lost' = lost \/ lost' = lost \cup {C}
               /\ todo' = Tail(todo) /\ mbox' = mbox
      <3>1. \A d \in Conns : refused'[d] = refused[d] \/ (d = C /\ refused'[d] = X)
        BY <1>1, <2>4 DEF SocketTypes
      <3> QED
        BY <1>1, <1>3, <2>1, <2>2, <2>4, <3>1 DEF MailInv
    <2> QED
      BY <2>1, <2>3, <2>4
  <1>5. CASE Post
    <2>1. /\ Head(todo).op = "post" /\ ~Full(C)
          /\ mbox' = [mbox EXCEPT ![C] = Append(@, End)]
          /\ todo' = Tail(todo)
          /\ UNCHANGED <<sent, refused, lost, live>>
      BY <1>5 DEF Post, First, ghosts
    <2>2. C \in Conns
      BY <1>1, <2>1, HeadCounts
    <2>3. End \in 0 .. MaxSegments[C]
      BY <2>2, SocketsAssumption DEF End
    <2> QED
      BY <1>3, <2>1, <2>2, <2>3, MailPut
  <1>6. CASE Count
    <2>1. /\ UNCHANGED <<mbox, sent, refused, lost, live>>
          /\ todo' = Tail(todo) \/ todo' = Callback(C, X) \o Tail(todo)
      BY <1>6 DEF Count, ghosts
    <2>2. PICK a, t : /\ a = Callback(C, X) /\ t = Tail(todo)
                      /\ Quiet(a) /\ t \in Seq(Ops)
      BY <1>1, <1>3, QuietEvent
    <2>3. ToSet(a \o t) = ToSet(a) \cup ToSet(t)
      BY <2>2, QuietConcat
    <2>4. \A o \in ToSet(todo') : o.op = "deliver" => o \in ToSet(todo)
      BY <1>3, <2>1, <2>2, <2>3 DEF Quiet
    <2> QED
      BY <1>1, <2>1, <2>4, MailFrame
  <1>7. CASE Add \/ Scan \/ Done
    <2>1. UNCHANGED <<mbox, sent, refused, lost, live>> /\ todo' = Tail(todo)
      BY <1>7 DEF Add, Scan, Done, netconns, ghosts
    <2> QED
      BY <1>1, <1>3, <2>1, MailFrame
  <1>8. CASE Clear
    <2>1. /\ UNCHANGED <<mbox, sent, lost, live>> /\ todo' = Tail(todo)
          /\ refused' = [refused EXCEPT ![C] = 0]
      BY <1>8 DEF Clear, ghosts
    <2>2. \A d \in Conns : refused'[d] = refused[d] \/ refused'[d] = 0
      BY <1>1, <2>1 DEF SocketTypes
    <2> QED
      BY <1>1, <1>3, <2>1, <2>2, MailFrame
  <1> QED
    BY <1>4, <1>5, <1>6, <1>7, <1>8

LEMMA TaskMail ==
    ASSUME IInv, AccInv, MailInv, Task
    PROVE  MailInv'
  <1>1. lost \subseteq live /\ SocketTypes
    BY DEF MailInv, IInv
  <1>2. todo' = todo /\ refused' = refused
    BY DEF Task, SelectLock, SelectScan, SelectList, SelectWake, SelectRelock, SelectUnlink,
           SelectRescan, Serve, Fetch, MinusLock, Minus, Taken, Peer, AllocLock, Alloc, AcceptLock,
           Accept, Receive, Ended, Copy, Delete, Free, CloseLock, Closed, netconns, tcpip
  <1>3. CASE Fetch
    <2>1. /\ mbox[ftp.c] # <<>> /\ mbox' = [mbox EXCEPT ![ftp.c] = Tail(@)]
          /\ UNCHANGED <<sent, lost, live>>
      BY <1>3 DEF Fetch
    <2>2. \A c \in Netconns : mbox'[c] = mbox[c] \/ (mbox[c] # <<>> /\ mbox'[c] = Tail(mbox[c]))
      BY <1>1, <2>1 DEF SocketTypes
    <2>3. \A c \in Conns : mbox'[c] \in Seq(0 .. MaxSegments[c])
      <3> TAKE c \in Conns
      <3>1. PICK s \in Seq(0 .. MaxSegments[c]) : s = mbox[c]
        BY DEF MailInv
      <3>2. s # <<>> => Tail(s) \in Seq(0 .. MaxSegments[c])
        BY HeadTailElements
      <3> QED
        BY <2>2, <3>1, <3>2, ConnNetconn
    <2>4. \A c \in Netconns : Len(mbox'[c]) <= MboxSize
      <3> TAKE c \in Netconns
      <3>1. PICK s \in Seq(Int \cup Conns) : s = mbox[c]
        BY <1>1 DEF SocketTypes
      <3>2. s # <<>> => Len(Tail(s)) = Len(s) - 1 /\ Len(s) \in Nat
        BY HeadTailElements
      <3>3. Len(s) <= MboxSize /\ Len(s) \in Nat /\ MboxSize \in Nat
        BY <3>1, SocketsAssumption DEF MailInv
      <3>4. mbox'[c] = s \/ (s # <<>> /\ mbox'[c] = Tail(s))
        BY <2>2, <3>1
      <3> QED
        BY <3>2, <3>3, <3>4
    <2> QED
      BY <1>1, <1>2, <2>1, <2>3, <2>4 DEF MailInv
  <1>4. CASE Free
    <2>1. /\ mbox' = [mbox EXCEPT ![ftp.c] = <<>>] /\ sent' = [sent EXCEPT ![ftp.c] = 0]
          /\ lost' = lost \ {ftp.c} /\ live' = live \ {ftp.c}
      BY <1>4 DEF Free
    <2>2. \A c \in Netconns : mbox'[c] = mbox[c] \/ mbox'[c] = <<>>
      BY <1>1, <2>1 DEF SocketTypes
    <2>3. \A c \in Conns : sent'[c] = sent[c] \/ sent'[c] = 0
      BY <1>1, <2>1 DEF SocketTypes
    <2>4. \A c \in Conns : 0 \in 0 .. MaxSegments[c] /\ <<>> \in Seq(0 .. MaxSegments[c])
      BY SocketsAssumption
    <2>5. Len(<<>>) <= MboxSize
      BY SocketsAssumption
    <2> QED
      BY <1>1, <1>2, <2>1, <2>2, <2>3, <2>4, <2>5, ConnNetconn DEF MailInv
  <1>5. CASE Ended
    <2>1. UNCHANGED <<mbox, sent, live>> /\ lost' \subseteq lost \cup {ftp.c} /\ ftp.pc = "ended"
      BY <1>5 DEF Ended, At
    <2>2. ftp.c \in live
      BY <2>1 DEF AccInv, SocketInv, HasSocket, IInv, TaskInv
    <2> QED
      BY <1>1, <1>2, <2>1, <2>2, MailFrame
  <1> SUFFICES ASSUME ~Fetch, ~Free, ~Ended PROVE MailInv'
    BY <1>3, <1>4, <1>5
  <1>6. UNCHANGED <<mbox, sent, lost, live>>
    BY DEF Task, SelectLock, SelectScan, SelectList, SelectWake, SelectRelock, SelectUnlink,
           SelectRescan, Serve, MinusLock, Minus, Taken, Peer, AllocLock, Alloc, AcceptLock,
           Accept, Receive, Copy, Delete, CloseLock, Closed, netconns, ghosts
  <1> QED
    BY <1>1, <1>2, <1>6, MailFrame

-----------------------------------------------------------------------------
(* Theorems of messages and events                                         *)

LEMMA AccInit == Init => AccInv /\ MailInv
  <1> SUFFICES ASSUME Init PROVE AccInv /\ MailInv
    OBVIOUS
  <1>1. /\ conn = [i \in Indices |-> IF i = 0 THEN Listener ELSE None]
        /\ rcvevent = [i \in Indices |-> 0] /\ lastdata = [i \in Indices |-> FALSE]
        /\ socket = [c \in Netconns |-> IF c = Listener THEN 0 ELSE -1]
        /\ mbox = [c \in Netconns |-> <<>>] /\ fatal = [c \in Conns |-> FALSE]
        /\ pcb = [c \in Conns |-> "none"] /\ refused = [c \in Conns |-> 0]
        /\ sent = [c \in Conns |-> 0]
        /\ closing = {} /\ live = {} /\ lost = {} /\ todo = <<>> /\ api = None /\ ready = {}
        /\ ftp.pc = "serve" /\ ftp.c = None
    BY DEF Init, Start
  <1>2. /\ ~HasSocket /\ ~Opening /\ ~Returning /\ Accepted = {} /\ ~Going("free")
        /\ \A i : ~Closing(i)
        /\ \A c : ~Deleting(c) /\ InHand(c) = 0
    <2>1. ftp.pc \in Selecting
      BY <1>1 DEF Selecting
    <2> QED
      BY <2>1, AtRest
  <1>3. /\ Conns \subseteq Netconns /\ Listener \in Netconns /\ Listener \notin Conns /\ None # Listener
        /\ 0 \in Indices /\ ToSet(<<>>) = {} /\ \A c : Owed(c, <<>>) = 0
    BY ConnNetconn, IndicesType, SocketsAssumption, OrderedEmpty, OwedEmpty
  <1>4. SocketInv
    BY <1>1, <1>2, <1>3 DEF SocketInv
  <1>5. AcceptInv
    BY <1>1, <1>2, <1>3, EmptyElements DEF AcceptInv
  <1>6. ReadyInv
    BY <1>1, <1>2, <1>3 DEF ReadyInv
  <1>7. PcbInv
    BY <1>1, <1>2, <1>3 DEF PcbInv
  <1>8. CloseInv
    BY <1>1, <1>2, <1>3 DEF CloseInv
  <1>9. CountInv
    BY <1>1, <1>2, <1>3 DEF CountInv, Counted
  <1>10. MailInv
    <2>1. \A c \in Conns : 0 \in 0 .. MaxSegments[c] /\ <<>> \in Seq(0 .. MaxSegments[c])
      BY SocketsAssumption
    <2>2. Len(<<>>) <= MboxSize
      BY SocketsAssumption
    <2> QED
      BY <1>1, <1>3, <2>1, <2>2 DEF MailInv
  <1> QED
    BY <1>4, <1>5, <1>6, <1>7, <1>8, <1>9, <1>10 DEF AccInv

LEMMA TaskAcc ==
    ASSUME IInv, AccInv, Task
    PROVE  AccInv'
  BY SelectAcc, ServeAcc, FetchAcc, LockAcc, MinusAcc, AskAcc, AllocAcc, AcceptAcc, ReceiveAcc,
     FreeAcc, ClosedAcc DEF Task

\* Netconns and sockets point to each other, what the listener's mailbox holds
\* has none, and what is counted is there (sockets.c, api_lib.c, api_msg.c).
THEOREM Ownership == Spec => []AccInv /\ []MailInv
  <1>1. IInv /\ AccInv /\ MailInv /\ [Next]_vars => AccInv' /\ MailInv'
    <2> SUFFICES ASSUME IInv, AccInv, MailInv, [Next]_vars PROVE AccInv' /\ MailInv'
      OBVIOUS
    <2>1. CASE Network
      BY <2>1, NetworkAcc, NetworkMail
    <2>2. CASE Thread
      <3>1. AccInv'
        BY <2>2, ApiCallAcc, DeliverAcc, PostAcc, CountAcc, AddAcc, ScanAcc, ClearAcc, DoneAcc DEF Thread
      <3> QED
        BY <2>2, <3>1, ThreadMail
    <2>3. CASE Task
      BY <2>3, TaskAcc, TaskMail
    <2>4. CASE UNCHANGED vars
      <3>1. UNCHANGED <<conn, rcvevent, lastdata, socket, mbox, fatal, pcb, refused, closing, live,
                       sent, lost, todo, api, ftp, ready>>
        BY <2>4 DEF vars, sockets, netconns, ghosts, tcpip, task
      <3>2. AccInv /\ SocketInv /\ AcceptInv /\ ReadyInv /\ PcbInv /\ CloseInv /\ CountInv
        BY DEF AccInv
      <3>3. SocketInv' /\ AcceptInv' /\ ReadyInv'
        BY <3>1, <3>2, ThreadFrame
      <3>4. PcbInv' /\ CloseInv'
        BY <3>1, <3>2 DEF PcbInv, CloseInv, Deleting, Going
      <3>5. CountInv'
        BY <3>1, <3>2, CountFrame
      <3>6. MailInv'
        BY <3>1 DEF MailInv
      <3> QED
        BY <3>3, <3>4, <3>5, <3>6 DEF AccInv
    <2> QED
      BY <2>1, <2>2, <2>3, <2>4 DEF Next
  <1> QED
    BY <1>1, AccInit, Invariance, PTL DEF Spec

\* Each message is counted once and each count is for a message, however a
\* connection gets from the listener's mailbox to its socket
\* (sockets.c:299-310, 1048-1077).
THEOREM NoEventLost == Spec => []EventsCounted
  <1>1. IInv /\ AccInv => EventsCounted
    <2> SUFFICES ASSUME IInv, AccInv, NEW c \in live \cup {Listener}, ~Deleting(c)
                 PROVE  Counted(c) + Coming(c, {"count", "add"})
                            = Len(mbox[c]) + Coming(c, {"post"})
                              + (IF ftp.c = c /\ ftp.pc \in {"minus", "less"} THEN 1 ELSE 0)
      BY DEF EventsCounted
    <2>1. Counted(c) + Owed(c, todo) = Len(mbox[c]) + InHand(c)
      BY DEF AccInv, CountInv
    <2>2. c \in Netconns /\ Counted(c) \in Int /\ Len(mbox[c]) \in Nat /\ InHand(c) \in Int
      BY CountedType
    <2>3. /\ Coming(c, {"count", "add"}) - Coming(c, {"post"}) = Owed(c, todo)
          /\ Coming(c, {"count", "add"}) \in Nat /\ Coming(c, {"post"}) \in Nat
      BY <2>2, ComingOwed
    <2>4. InHand(c) = IF ftp.c = c /\ ftp.pc \in {"minus", "less"} THEN 1 ELSE 0
      BY DEF InHand
    <2>5. Counted(c) + Coming(c, {"count", "add"}) = Len(mbox[c]) + Coming(c, {"post"}) + InHand(c)
      <3>1. PICK a, o, l, h, x, p \in Int :
               /\ a = Counted(c) /\ o = Owed(c, todo) /\ l = Len(mbox[c]) /\ h = InHand(c)
               /\ x = Coming(c, {"count", "add"}) /\ p = Coming(c, {"post"})
        BY <2>2, <2>3
      <3>2. a + o = l + h /\ x - p = o
        BY <2>1, <2>3, <3>1
      <3>3. a + x = l + p + h
        BY <3>2
      <3> QED
        BY <3>1, <3>3
    <2> QED
      BY <2>4, <2>5
  <1> QED
    BY <1>1, Invariance, Ownership, PTL

\* accept() and recv() find what select() saw, and there is a socket for every
\* netconn: MEMP_NUM_NETCONN bounds both (sockets.c:222-236, 506-540).
THEOREM SelectTellsTheTruth == Spec => []ReadableIsRead
  <1>1. IInv /\ AccInv /\ EventsCounted => ReadableIsRead
    <2> SUFFICES ASSUME IInv, AccInv, EventsCounted PROVE ReadableIsRead
      OBVIOUS
    <2>1. SocketInv /\ AcceptInv /\ ReadyInv
      BY DEF AccInv
    <2>2. ASSUME ftp.pc = "fetch", mbox[ftp.c] = <<>>
          PROVE  Coming(ftp.c, {"post"}) > 0
      <3>1. PICK c : c = ftp.c
        OBVIOUS
      <3>2. HasSocket /\ ~Deleting(c)
        BY <2>2 DEF HasSocket, Deleting
      <3>3. c \in live \cup {Listener} /\ socket[c] = ftp.i
        BY <2>1, <3>1, <3>2, TaskConn DEF SocketInv
      <3>4. ftp.i \in Indices /\ ~(ftp.i < 0)
        BY IndicesNat DEF IInv, TaskTypes
      <3>5. Counted(c) >= 1 /\ Counted(c) \in Nat
        BY <2>1, <2>2, <3>3, <3>4 DEF Counted, ReadyInv
      <3>6. Counted(c) + Coming(c, {"count", "add"}) = Len(<<>>) + Coming(c, {"post"}) + 0
        BY <2>2, <3>1, <3>2, <3>3 DEF EventsCounted
      <3>7. c \in Netconns
        BY <3>3, CountedType
      <3>8. Coming(c, {"count", "add"}) \in Nat /\ Coming(c, {"post"}) \in Nat
        BY <3>7, ComingOwed
      <3> QED
        BY <3>1, <3>5, <3>6, <3>8
    <2>3. ASSUME ftp.pc = "slot", FreeIndices = {}
          PROVE  FALSE
      <3>1. PICK n \in Nat : n = Cardinality(Conns)
        BY SocketsAssumption, FS_CardinalityType
      <3>2. ftp.c \in live /\ ftp.c \in Conns /\ socket[ftp.c] < 0
        BY <2>1, <2>3 DEF Accepted, Going, AcceptInv
      <3>3. \A i \in 1 .. n : conn[i] \in Conns \ {ftp.c} /\ socket[conn[i]] = i
        <4> TAKE i \in 1 .. n
        <4>1. i \in Indices \ {0} /\ conn[i] # None
          BY <2>3, <3>1 DEF Indices, FreeIndices
        <4>2. ~Opening /\ ~Closing(i)
          BY <2>3 DEF Opening, Closing
        <4>3. conn[i] \in live /\ socket[conn[i]] = i
          BY <2>1, <4>1, <4>2 DEF SocketInv
        <4> QED
          BY <2>1, <3>2, <4>3 DEF AcceptInv
      <3> DEFINE f == [i \in 1 .. n |-> conn[i]]
                 rest == Conns \ {ftp.c}
      <3>4. IsFiniteSet(1 .. n) /\ Cardinality(1 .. n) = n
        BY FS_Interval
      <3>5. IsFiniteSet(rest) /\ Cardinality(rest) = n - 1
        BY <3>1, <3>2, SocketsAssumption, FS_RemoveElement
      <3>6. f \in [1 .. n -> rest]
        BY <3>3
      <3>7. \A i, j \in 1 .. n : i # j => f[i] # f[j]
        BY <3>3
      <3> HIDE DEF f, rest
      <3>8. PICK S, T : /\ S = 1 .. n /\ T = rest /\ IsFiniteSet(S) /\ IsFiniteSet(T)
                        /\ Cardinality(T) < Cardinality(S) /\ f \in [S -> T]
        BY <3>1, <3>4, <3>5, <3>6
      <3>9. \E i, j \in S : i # j /\ f[i] = f[j]
        BY <3>8, FS_PigeonHole
      <3> QED
        BY <3>7, <3>8, <3>9
    <2> QED
      BY <2>2, <2>3 DEF ReadableIsRead
  <1> QED
    BY <1>1, Invariance, Ownership, NoEventLost, PTL

TwiceIsFlag == twice \in BOOLEAN

LEMMA TwiceType == Spec => []TwiceIsFlag
  <1>1. Init => TwiceIsFlag
    BY DEF Init, TwiceIsFlag
  <1>2. TwiceIsFlag /\ [Next]_vars => TwiceIsFlag'
    <2> SUFFICES ASSUME TwiceIsFlag, [Next]_vars PROVE TwiceIsFlag'
      OBVIOUS
    <2>1. CASE Network
      <3>1. PICK c \in Conns :
               \/ OfferAgain(c) \/ NestedOffer(c)
               \/ Connected(c) \/ LastAck(c) \/ Reset(c) \/ CloseAgain(c)
               \/ \E data, end \in BOOLEAN : Segment(c, data, end)
        BY <2>1 DEF Network
      <3>2. twice' = twice \/ twice' = (Coming(c, {"clear"}) > 0)
        BY <3>1 DEF OfferAgain, NestedOffer, Connected, LastAck, Reset, CloseAgain, Segment, ghosts
      <3>3. (Coming(c, {"clear"}) > 0) \in BOOLEAN
        OBVIOUS
      <3> QED
        BY <3>2, <3>3, Zenon DEF TwiceIsFlag
    <2>2. CASE Thread
      <3>1. twice' = twice
        BY <2>2 DEF Thread, ApiCall, Deliver, Post, Count, Add, Scan, Clear, Done, ghosts
      <3> QED
        BY <3>1 DEF TwiceIsFlag
    <2>3. CASE Task
      <3>1. twice' = twice
        BY <2>3 DEF Task, SelectLock, SelectScan, SelectList, SelectWake, SelectRelock, SelectUnlink,
           SelectRescan, Serve, Fetch, MinusLock, Minus, Taken, Peer, AllocLock, Alloc, AcceptLock,
           Accept, Receive, Ended, Copy, Delete, Free, CloseLock, Closed, ghosts
      <3> QED
        BY <3>1 DEF TwiceIsFlag
    <2>4. CASE UNCHANGED vars
      BY <2>4 DEF vars, ghosts, TwiceIsFlag
    <2> QED
      BY <2>1, <2>2, <2>3, <2>4 DEF Next
  <1> QED
    BY <1>1, <1>2, PTL DEF Spec

\* The variables have the types of the declarations in sockets.c and
\* api.h; a mailbox never holds more than archMESG_QUEUE_LENGTH messages.
THEOREM TypeCorrect == Spec => []TypeOK
  <1>1. IInv /\ AccInv /\ MailInv /\ TwiceIsFlag => TypeOK
    <2> SUFFICES ASSUME IInv, AccInv, MailInv, TwiceIsFlag PROVE TypeOK
      OBVIOUS
    <2>1. SocketTypes /\ TaskTypes /\ AcceptInv /\ ReadyInv /\ PcbInv
      BY DEF IInv, AccInv
    <2>2. mbox[Listener] \in Seq(live) /\ Len(mbox[Listener]) <= MboxSize
      <3>1. PICK s \in Seq(Conns) : s = mbox[Listener] /\ ToSet(s) \subseteq live
        BY <2>1 DEF SocketTypes, AcceptInv
      <3>2. s \in Seq(live)
        BY <3>1 DEF ToSet
      <3> QED
        BY <3>1, <3>2, ConnNetconn DEF MailInv
    <2>3. \A c \in Conns : /\ mbox[c] \in Seq(0 .. MaxSegments[c]) /\ Len(mbox[c]) <= MboxSize
                           /\ refused[c] \in 0 .. MaxSegments[c]
      BY ConnNetconn DEF MailInv
    <2>4. held \in SUBSET {"socksem", "selectsem"} /\ Cardinality(held) <= 1
      <3>1. held = {} \/ held = {"selectsem"} \/ held = {"socksem"}
        BY <2>1 DEF TaskTypes
      <3> QED
        BY <3>1, FS_EmptySet, FS_Singleton
    <2>5. todo \in Seq(Ops)
      BY DEF IInv, Ordered
    <2> QED
      BY <2>1, <2>2, <2>3, <2>4, <2>5 DEF TypeOK, SocketTypes, TaskTypes, AcceptInv, ReadyInv, PcbInv, MailInv, TwiceIsFlag
  <1> QED
    BY <1>1, Invariance, Ownership, TwiceType, PTL

-----------------------------------------------------------------------------
(* Streams                                                                 *)

\* What was refused is in the mailbox by now, and refused_data not yet cleared.
Clears(o) == o.op \in {"clear", "rearm"}
Clearing(c) == \E o \in ToSet(todo) : Clears(o) /\ o.c = c
Kept(c) == refused[c] # 0 /\ ~Clearing(c)

\* A message of c is sent and not yet in its mailbox; the end of c may be told.
Underway(c) ==
    Kept(c) \/ \E o \in ToSet(todo) : o.op = "deliver" /\ o.c = c /\ o.x # End
EndDue(c) == pcb[c] = "none" \/ (pcb[c] = "ended" /\ read[c] = sent[c])

\* The first d messages of the mailbox follow the one read last, the others
\* are ends; they and the one under way are all that is sent and not read.
Following(c, d) ==
    /\ \A k \in 1 .. Len(mbox[c]) : mbox[c][k] = IF k <= d THEN read[c] + k ELSE End
    /\ pcb[c] = "none" => read[c] + d <= sent[c]
    /\ pcb[c] # "none" => sent[c] = read[c] + d + (IF Underway(c) THEN 1 ELSE 0)
    /\ d < Len(mbox[c]) => pcb[c] = "none" \/ (pcb[c] = "ended" /\ ~Underway(c))

Flow(c) ==
    /\ pcb[c] \in {"none", "open", "ended"}
    /\ \E d \in 0 .. Len(mbox[c]) : Following(c, d)
    /\ fatal[c] => EndDue(c)

GhostInv ==
    /\ read \in [Conns -> Nat]
    /\ \A c \in Conns \ live : sent[c] = 0 /\ read[c] = 0
    /\ \A c \in Conns : refused[c] \in {0, sent[c]}

\* Where the task has met the end and is about to tell it.
Meets == \/ ftp.pc = "ended" \/ (ftp.pc = "asked" /\ ftp.then = "delete")
         \/ ftp.pc \in {"minus", "less"} /\ ftp.i # 0 /\ ftp.m = End

\* What is to be delivered: a message comes first, the end last.
DeliverInv ==
    /\ \A k \in 1 .. Len(todo) : todo[k].op = "deliver" =>
          IF todo[k].x = End
          THEN /\ k = Len(todo) /\ pcb[todo[k].c] = "ended"
               /\ refused[todo[k].c] # 0 => Full(todo[k].c)
          ELSE /\ k = 1 /\ todo[k].x = sent[todo[k].c] /\ refused[todo[k].c] = 0
               /\ ~Clearing(todo[k].c)
    /\ \A o \in ToSet(todo) : o.op = "post" => pcb[o.c] = "none" /\ Quiet(todo)

FlowInv ==
    /\ \A c \in live : ~Deleting(c) => Flow(c)
    /\ GhostInv
    /\ Meets => EndDue(ftp.c)
    /\ DeliverInv

State(c) == CASE pcb[c] = "open" -> "open"
              [] pcb[c] = "none" -> "gone"
              [] OTHER           -> "ended"

\* What Streams sees of the connections.
View == [c \in Conns |->
        IF c \notin live \/ (Deleting(c) /\ ftp.some)
        THEN [state |-> "off", sent |-> 0, read |-> 0, told |-> FALSE]
        ELSE [state |-> CASE pcb[c] = "open" -> "open"
                          [] pcb[c] = "none" -> "gone"
                          [] OTHER           -> "ended",
              sent |-> sent[c], read |-> read[c], told |-> Deleting(c)]]

Look(state, s, r, told) == [state |-> state, sent |-> s, read |-> r, told |-> told]

LEMMA ViewOf ==
    /\ \A c \in Conns : View[c] =
          IF c \notin live \/ (Deleting(c) /\ ftp.some) THEN Stream!Off
          ELSE Look(State(c), sent[c], read[c], Deleting(c))
    /\ \A c \in Conns : View'[c] =
          IF c \notin live' \/ (Deleting(c)' /\ ftp'.some) THEN Stream!Off
          ELSE Look(State(c)', sent'[c], read'[c], Deleting(c)')
    /\ Stream!Off = Look("off", 0, 0, FALSE)
  BY DEF View, State, Stream!Off, Look

LEMMA StateValue ==
    ASSUME NEW c
    PROVE  /\ State(c) = IF pcb[c] = "open" THEN "open" ELSE IF pcb[c] = "none" THEN "gone" ELSE "ended"
           /\ State(c)' = IF pcb'[c] = "open" THEN "open"
                          ELSE IF pcb'[c] = "none" THEN "gone" ELSE "ended"
  BY DEF State

LEMMA ViewKept ==
    ASSUME NEW c \in Conns, c \in live' <=> c \in live, Deleting(c)' <=> Deleting(c),
           Deleting(c) => ftp'.some = ftp.some,
           c \in live => State(c)' = State(c) /\ sent'[c] = sent[c] /\ read'[c] = read[c]
    PROVE  View'[c] = View[c]
  <1>1. Deleting(c)' = Deleting(c)
    BY DEF Deleting
  <1> QED
    BY <1>1, ViewOf

\* A step of one connection.
LEMMA ViewStep ==
    ASSUME NEW c \in Conns, \A d \in Conns \ {c} : View'[d] = View[d], NEW v, View'[c] = v
    PROVE  View' = [View EXCEPT ![c] = v]
  BY DEF View

LEMMA ViewSame ==
    ASSUME \A d \in Conns : View'[d] = View[d]
    PROVE  View' = View
  BY DEF View

\* The steps of Streams, from what they do to the view of one connection.
LEMMA StreamSteps ==
    ASSUME NEW c \in Conns, \A d \in Conns \ {c} : View'[d] = View[d],
           NEW st, NEW s \in Int, NEW r \in Int, NEW t \in BOOLEAN, View[c] = Look(st, s, r, t)
    PROVE  /\ st = "off" /\ View'[c] = Look("open", s, r, t) => Stream!Open(c)
           /\ \A n \in {0, 1}, end \in BOOLEAN :
                 st = "open" /\ View'[c] = Look(IF end THEN "ended" ELSE "open", s + n, r, t)
                    => Stream!Arrive(c, n, end)
           /\ st \in {"open", "ended"} /\ View'[c] = Look("gone", s, r, t) => Stream!Go(c)
           /\ r < s /\ ~t /\ View'[c] = Look(st, s, r + 1, t) => Stream!Read(c)
           /\ ~t /\ (st = "gone" \/ (st = "ended" /\ r = s)) /\ View'[c] = Look(st, s, r, TRUE)
                 => Stream!Tell(c)
           /\ ~t /\ View'[c] = Stream!Off => Stream!Leave(c)
           /\ t /\ st = "gone" /\ View'[c] = Stream!Off => Stream!Close(c)
  <1> DEFINE v == View[c]
  <1>1. /\ v.state = st /\ v.sent = s /\ v.read = r /\ v.told = t
        /\ \A x : [v EXCEPT !.state = x] = Look(x, s, r, t)
        /\ \A x : [v EXCEPT !.read = x] = Look(st, s, x, t)
        /\ \A x : [v EXCEPT !.told = x] = Look(st, s, r, x)
        /\ \A x : [v EXCEPT !.sent = x] = Look(st, x, r, t)
    <2>1. v = Look(st, s, r, t)
      OBVIOUS
    <2> HIDE DEF v
    <2> QED
      BY <2>1 DEF Look
  <1>2. \A n, x : [[v EXCEPT !.sent = n] EXCEPT !.state = x] = Look(x, n, r, t)
    <2> TAKE n, x
    <2>1. PICK w : w = Look(st, n, r, t)
      OBVIOUS
    <2>2. [w EXCEPT !.state = x] = Look(x, n, r, t)
      BY <2>1 DEF Look
    <2> QED
      BY <1>1, <2>1, <2>2
  <1>3. PICK f : f = View
    OBVIOUS
  <1>4. f = [d \in Conns |-> f[d]] /\ f[c] = v
    BY <1>3 DEF View
  <1>5. ASSUME NEW x PROVE View'[c] = x => View' = [f EXCEPT ![c] = x]
    BY <1>3, ViewStep
  <1>6. ASSUME st = "off", View'[c] = Look("open", s, r, t) PROVE Stream!Open(c)
    <2>1. View' = [f EXCEPT ![c].state = "open"]
      BY <1>1, <1>4, <1>5, <1>6
    <2> QED
      BY <1>1, <1>3, <1>6, <2>1 DEF Stream!Open, View
  <1>7. ASSUME NEW n \in {0, 1}, NEW end \in BOOLEAN, st = "open",
               View'[c] = Look(IF end THEN "ended" ELSE "open", s + n, r, t)
        PROVE  Stream!Arrive(c, n, end)
    <2>1. PICK z : z = IF end THEN "ended" ELSE "open"
      OBVIOUS
    <2>2. View' = [f EXCEPT ![c].sent = @ + n, ![c].state = z]
      <3>1. PICK g : g = [f EXCEPT ![c].sent = @ + n]
        OBVIOUS
      <3>2. g = [f EXCEPT ![c] = Look(st, s + n, r, t)]
        <4>1. PICK x : x = s + n
          OBVIOUS
        <4>2. g = [f EXCEPT ![c] = [v EXCEPT !.sent = x]]
          BY <1>1, <1>4, <3>1, <4>1
        <4> QED
          BY <1>1, <4>1, <4>2
      <3>3. PICK w : w = Look(st, s + n, r, t)
        OBVIOUS
      <3>4. [w EXCEPT !.state = z] = Look(z, s + n, r, t)
        BY <3>3 DEF Look
      <3>5. [g EXCEPT ![c].state = z] = [f EXCEPT ![c] = Look(z, s + n, r, t)]
        BY <1>4, <3>2, <3>3, <3>4
      <3> QED
        BY <1>5, <1>7, <2>1, <3>1, <3>5
    <2> QED
      BY <1>1, <1>3, <1>7, <2>1, <2>2 DEF Stream!Arrive, View
  <1>8. ASSUME st \in {"open", "ended"}, View'[c] = Look("gone", s, r, t) PROVE Stream!Go(c)
    <2>1. View' = [f EXCEPT ![c].state = "gone"]
      BY <1>1, <1>4, <1>5, <1>8
    <2> QED
      BY <1>1, <1>3, <1>8, <2>1 DEF Stream!Go, View
  <1>9. ASSUME r < s, ~t, View'[c] = Look(st, s, r + 1, t) PROVE Stream!Read(c)
    <2>1. View' = [f EXCEPT ![c].read = @ + 1]
      BY <1>1, <1>4, <1>5, <1>9
    <2> QED
      BY <1>1, <1>3, <1>9, <2>1 DEF Stream!Read, View
  <1>10. ASSUME ~t, st = "gone" \/ (st = "ended" /\ r = s), View'[c] = Look(st, s, r, TRUE)
         PROVE  Stream!Tell(c)
    <2>1. PICK x : x = TRUE
      OBVIOUS
    <2>2. PICK w : w = Look(st, s, r, x)
      OBVIOUS
    <2>3. [v EXCEPT !.told = x] = w /\ View'[c] = w
      BY <1>1, <1>10, <2>1, <2>2
    <2>4. View' = [f EXCEPT ![c].told = x]
      BY <1>4, <1>5, <2>3
    <2> QED
      BY <1>1, <1>3, <1>10, <2>1, <2>4 DEF Stream!Tell, View
  <1>11. ASSUME ~t, View'[c] = Stream!Off PROVE Stream!Leave(c)
    BY <1>1, <1>3, <1>5, <1>11 DEF Stream!Leave, View
  <1>12. ASSUME t, st = "gone", View'[c] = Stream!Off PROVE Stream!Close(c)
    BY <1>1, <1>3, <1>5, <1>12 DEF Stream!Close, View
  <1> QED
    BY <1>6, <1>7, <1>8, <1>9, <1>10, <1>11, <1>12

LEMMA FlowKept ==
    ASSUME NEW c, Flow(c), mbox'[c] = mbox[c], pcb'[c] = pcb[c], read'[c] = read[c],
           sent'[c] = sent[c], Underway(c)' <=> Underway(c), fatal'[c] => fatal[c]
    PROVE  Flow(c)'
  BY DEF Flow, Following, EndDue

\* Steps that neither take nor bring what goes along the streams.
LEMMA FlowFrame ==
    ASSUME FlowInv, UNCHANGED <<mbox, pcb, sent, read, live>>,
           \A c \in Conns : refused'[c] = refused[c] \/ refused'[c] = 0,
           \A c : Underway(c)' <=> Underway(c),
           \A c \in live : fatal'[c] => fatal[c] \/ EndDue(c) \/ Deleting(c)',
           \A c \in live : Deleting(c) => Deleting(c)',
           Meets' => EndDue(ftp'.c),
           DeliverInv'
    PROVE  FlowInv'
  <1>1. GhostInv'
    BY DEF FlowInv, GhostInv
  <1>2. \A c \in live : ~Deleting(c)' => Flow(c)'
    <2> TAKE c \in live
    <2> HAVE ~Deleting(c)'
    <2>1. Flow(c)
      BY DEF FlowInv
    <2> QED
      BY <2>1 DEF Flow, Following, EndDue
  <1>3. Meets' => EndDue(ftp.c)'
    BY DEF EndDue
  <1> QED
    BY <1>1, <1>2, <1>3 DEF FlowInv

\* Who the task is with when it is about to tell the end.
LEMMA MeetsLive ==
    ASSUME IInv, AccInv, Meets
    PROVE  ftp.c \in live
  <1>1. SocketInv /\ AcceptInv /\ TaskInv
    BY DEF IInv, AccInv
  <1>2. CASE ftp.pc = "asked" /\ ftp.then = "delete"
    BY <1>1, <1>2, TaskConn DEF Returning, Going
  <1>3. CASE ftp.pc = "ended" \/ (ftp.pc \in {"minus", "less"} /\ ftp.i # 0)
    BY <1>1, <1>3 DEF SocketInv, HasSocket, TaskInv
  <1> QED
    BY <1>2, <1>3 DEF Meets

\* Nothing to be delivered.
LEMMA DeliverQuiet ==
    ASSUME Quiet(todo'), \A o \in ToSet(todo') : o.op = "post" => pcb'[o.c] = "none"
    PROVE  DeliverInv'
  <1>1. \A k \in 1 .. Len(todo') : todo'[k] \in ToSet(todo')
    BY DEF ToSet
  <1>2. \A k \in 1 .. Len(todo') : todo'[k].op # "deliver"
    BY <1>1 DEF Quiet
  <1> QED
    BY <1>2 DEF DeliverInv

LEMMA UnderwayQuiet ==
    /\ Quiet(todo) => \A c : Underway(c) <=> Kept(c)
    /\ Quiet(todo') => \A c : Underway(c)' <=> Kept(c)'
    /\ todo = <<>> => Quiet(todo) /\ \A c : Underway(c) <=> refused[c] # 0
    /\ (\A o \in ToSet(todo') : ~Clears(o)) /\ Quiet(todo')
          => \A c : Underway(c)' <=> refused'[c] # 0
  <1>1. ASSUME todo = <<>> PROVE Quiet(todo) /\ \A c : ~Clearing(c)
    <2>1. <<>> \in Seq(Ops) /\ ToSet(<<>>) = {}
      BY OrderedEmpty
    <2> QED
      BY <1>1, <2>1 DEF Quiet, Clearing
  <1>2. (\A o \in ToSet(todo') : ~Clears(o)) => \A c : ~Clearing(c)'
    BY DEF Clearing
  <1> QED
    BY <1>1, <1>2 DEF Quiet, Underway, Kept

LEMMA EventsQuiet ==
    ASSUME SocketTypes, NEW c \in Netconns, NEW x \in Int
    PROVE  /\ Quiet(ApiEvent(c, x)) /\ Quiet(Callback(c, x))
           /\ \A o \in ToSet(ApiEvent(c, x)) \cup ToSet(Callback(c, x)) :
                 o.op \in {"count", "add", "scan"}
  BY EventOwed, QuietEvent

\* The first step of a connection.
LEMMA ConnectedFlow ==
    ASSUME IInv, AccInv, FlowInv, NEW c \in Conns, Connected(c)
    PROVE  FlowInv' /\ Stream!Open(c)
  <1>1. /\ todo = <<>> /\ c \notin live /\ live' = live \cup {c}
        /\ pcb' = [pcb EXCEPT ![c] = "open"] /\ fatal' = [fatal EXCEPT ![c] = FALSE]
        /\ mbox' = [mbox EXCEPT ![Listener] = Append(@, c)]
        /\ todo' = ApiEvent(Listener, 1)
        /\ UNCHANGED <<refused, sent, read, ftp>>
    BY DEF Connected, Idle, ghosts, task
  <1>2. SocketTypes /\ PcbInv /\ SocketInv /\ AcceptInv /\ live \subseteq Conns
    BY DEF IInv, AccInv, AcceptInv
  <1>3. Listener \in Netconns /\ Listener \notin Conns /\ Conns \subseteq Netconns
    BY ConnNetconn, SocketsAssumption
  <1>4. /\ pcb'[c] = "open" /\ fatal'[c] = FALSE
        /\ \A d \in Conns : mbox'[d] = mbox[d]
        /\ \A d \in Conns \ {c} : pcb'[d] = pcb[d] /\ fatal'[d] = fatal[d]
    BY <1>1, <1>2, <1>3 DEF PcbInv, SocketTypes
  <1>5. mbox[c] = <<>> /\ pcb[c] = "none" /\ refused[c] = 0 /\ sent[c] = 0 /\ read[c] = 0
    BY <1>1, <1>2 DEF PcbInv, FlowInv, GhostInv
  <1>6. Quiet(todo') /\ \A o \in ToSet(todo') : o.op # "post" /\ ~Clears(o)
    BY <1>1, <1>2, <1>3, EventsQuiet DEF Clears
  <1>7. \A d : Underway(d)' <=> Underway(d)
    BY <1>1, <1>6, UnderwayQuiet
  <1>8. /\ \A d : Deleting(d)' <=> Deleting(d)
        /\ ~Deleting(c) /\ (Meets => ftp.c \in live) /\ (Meets' <=> Meets)
    <2>1. \A d : Deleting(d) => d = ftp.c /\ Returning
      BY DEF Deleting, Returning, Going
    <2>2. ~Deleting(c)
      BY <1>1, <1>2, <2>1, TaskConn
    <2> QED
      BY <1>1, <2>2, MeetsLive DEF Deleting, Meets
  <1>9. Flow(c)'
    <2>1. ~Underway(c)'
      BY <1>1, <1>5, <1>6, UnderwayQuiet
    <2>2. Len(<<>>) = 0 /\ 0 \in 0 .. 0
      OBVIOUS
    <2>3. mbox'[c] = <<>> /\ sent'[c] = 0 /\ read'[c] = 0
      BY <1>1, <1>4, <1>5
    <2>4. Following(c, 0)'
      BY <1>4, <2>1, <2>2, <2>3 DEF Following
    <2> QED
      BY <1>4, <2>2, <2>3, <2>4 DEF Flow
  <1>10. \A d \in live : ~Deleting(d) => Flow(d)'
    <2> TAKE d \in live
    <2> HAVE ~Deleting(d)
    <2>1. Flow(d) /\ d \in Conns \ {c}
      BY <1>1, <1>2 DEF FlowInv
    <2> QED
      BY <1>1, <1>4, <1>7, <2>1, FlowKept
  <1>11. GhostInv'
    BY <1>1 DEF FlowInv, GhostInv
  <1>12. Meets' => EndDue(ftp.c)'
    <2> HAVE Meets'
    <2>1. ftp.c \in live /\ ftp.c \in Conns \ {c} /\ EndDue(ftp.c)
      BY <1>1, <1>2, <1>8 DEF FlowInv
    <2> QED
      BY <1>1, <1>4, <2>1 DEF EndDue
  <1>13. DeliverInv'
    BY <1>6, DeliverQuiet
  <1>14. FlowInv'
    BY <1>1, <1>8, <1>9, <1>10, <1>11, <1>12, <1>13 DEF FlowInv
  <1>15. Stream!Open(c)
    <2>1. \A d \in Conns \ {c} : View'[d] = View[d]
      <3> TAKE d \in Conns \ {c}
      <3>1. State(d)' = State(d)
        BY <1>4, StateValue
      <3> QED
        BY <1>1, <1>8, <3>1, ViewKept
    <2>2. View[c] = Look("off", 0, 0, FALSE)
      BY <1>1, ViewOf
    <2>3. View'[c] = Look("open", 0, 0, FALSE)
      <3>1. State(c)' = "open" /\ sent'[c] = 0 /\ read'[c] = 0 /\ c \in live' /\ Deleting(c)' = FALSE
        BY <1>1, <1>4, <1>5, <1>8, StateValue DEF Deleting
      <3> QED
        BY <3>1, ViewOf
    <2>4. PICK st \in {"off"}, s \in {0}, t \in {FALSE} : TRUE
      OBVIOUS
    <2>5. /\ s \in Int /\ t \in BOOLEAN /\ st = "off"
          /\ View[c] = Look(st, s, s, t) /\ View'[c] = Look("open", s, s, t)
      BY <2>2, <2>3, <2>4
    <2> QED
      BY <2>1, <2>5, StreamSteps
  <1> QED
    BY <1>14, <1>15

LEMMA Pairs ==
    ASSUME NEW S, NEW x \in S, NEW y \in S
    PROVE  /\ <<x>> \o <<y>> = <<x, y>> /\ <<x>> \o <<>> = <<x>>
           /\ <<>> \o <<y>> = <<y>> /\ <<>> \o <<>> = <<>>
  <1>1. <<x>> \in Seq(S) /\ <<y>> \in Seq(S) /\ <<x, y>> \in Seq(S) /\ <<>> \in Seq(S)
    OBVIOUS
  <1>2. PICK a \in Seq(S), b \in Seq(S), p \in Seq(S) : a = <<x>> /\ b = <<y>> /\ p = <<x, y>>
    BY <1>1
  <1>3. Len(a) = 1 /\ Len(b) = 1 /\ a[1] = x /\ b[1] = y /\ Len(p) = 2 /\ p[1] = x /\ p[2] = y
    BY <1>2
  <1>4. PICK r \in Seq(S) : r = a \o b
    BY <1>2, ConcatProperties
  <1>5. Len(r) = Len(a) + Len(b)
        /\ \A k \in 1 .. Len(a) + Len(b) : r[k] = IF k <= Len(a) THEN a[k] ELSE b[k - Len(a)]
    BY <1>2, <1>4, ConcatProperties
  <1>6. Len(r) = 2 /\ r[1] = x /\ r[2] = y
    BY <1>3, <1>5
  <1>7. \A k \in 1 .. 2 : r[k] = p[k]
    BY <1>3, <1>6
  <1>8. r = p
    BY <1>2, <1>3, <1>4, <1>6, <1>7, SeqEqual
  <1>9. a \o <<>> = a /\ <<>> \o b = b
    BY <1>2, ConcatEmptySeq
  <1>10. <<>> \o <<>> = <<>>
    BY <1>1, ConcatEmptySeq
  <1> QED
    BY <1>2, <1>4, <1>8, <1>9, <1>10

LEMMA SegmentFlow ==
    ASSUME IInv, AccInv, MailInv, FlowInv, NEW c \in Conns,
           NEW data \in BOOLEAN, NEW end \in BOOLEAN, Segment(c, data, end)
    PROVE  FlowInv' /\ (Stream!Arrive(c, IF data THEN 1 ELSE 0, end) \/ View' = View)
  <1> DEFINE n == IF data THEN 1 ELSE 0
  <1>1. /\ todo = <<>> /\ pcb[c] = "open" /\ refused[c] = 0
        /\ sent' = [sent EXCEPT ![c] = IF data THEN @ + 1 ELSE @]
        /\ UNCHANGED <<mbox, fatal, refused, live, read, ftp>>
    BY DEF Segment, Idle, task
  <1>2. /\ SocketTypes /\ PcbInv /\ CloseInv /\ AcceptInv /\ live \subseteq Conns
        /\ sent[c] \in Nat /\ read[c] \in Nat /\ c \in live
    <2>1. sent[c] \in 0 .. MaxSegments[c] /\ MaxSegments[c] \in Nat
      BY SocketsAssumption DEF MailInv
    <2>2. SocketTypes /\ PcbInv /\ CloseInv /\ AcceptInv /\ read[c] \in Nat
      BY DEF IInv, AccInv, FlowInv, GhostInv
    <2>3. c \in live
      BY <1>1, <2>2 DEF PcbInv
    <2> QED
      BY <2>1, <2>2, <2>3 DEF AcceptInv
  <1>3. sent'[c] = sent[c] + n /\ \A d \in Conns \ {c} : sent'[d] = sent[d]
    BY <1>1, <1>2 DEF SocketTypes
  <1>4. /\ \A d : Deleting(d)' <=> Deleting(d)
        /\ (Meets => ftp.c \in live) /\ (Meets' <=> Meets)
        /\ c \in closing => Deleting(c)
    <2>1. c \in closing => Deleting(c)
      BY <1>2 DEF CloseInv, Deleting
    <2> QED
      BY <1>1, <2>1, MeetsLive DEF Deleting, Meets
  <1>5. /\ \A d \in Conns \ {c} : pcb'[d] = pcb[d]
        /\ State(c)' = IF end THEN "ended" ELSE "open"
        /\ ~Deleting(c) => pcb'[c] = IF end THEN "ended" ELSE "open"
    <2>1. CASE c \notin closing
      <3>1. pcb' = [pcb EXCEPT ![c] = IF end THEN "ended" ELSE @]
        BY <2>1 DEF Segment
      <3>2. pcb'[c] = IF end THEN "ended" ELSE "open"
        BY <1>1, <1>2, <3>1 DEF PcbInv
      <3> QED
        BY <1>2, <3>1, <3>2, StateValue DEF PcbInv
    <2>2. CASE c \in closing
      <3>1. PICK state \in IF end THEN {"ended", "lastack"} ELSE {"open"} :
               pcb' = [pcb EXCEPT ![c] = state]
        BY <2>2 DEF Segment
      <3>2. pcb'[c] = state
        BY <1>2, <3>1 DEF PcbInv
      <3> QED
        BY <1>2, <1>4, <2>2, <3>1, <3>2, StateValue DEF PcbInv
    <2> QED
      BY <2>1, <2>2
  <1>6. /\ \A k \in 1 .. Len(todo') :
              \/ data /\ k = 1 /\ todo'[k] = Op("deliver", c, sent[c] + 1)
              \/ end /\ k = Len(todo') /\ todo'[k] = Op("deliver", c, End)
                 /\ pcb'[c] = "ended"
        /\ \A o \in ToSet(todo') : \/ data /\ o = Op("deliver", c, sent[c] + 1)
                                   \/ end /\ o = Op("deliver", c, End)
        /\ c \notin closing /\ data => Op("deliver", c, sent[c] + 1) \in ToSet(todo')
    <2>1. CASE c \notin closing
      <3>1. /\ pcb' = [pcb EXCEPT ![c] = IF end THEN "ended" ELSE @]
            /\ todo' = (IF data THEN <<Op("deliver", c, sent[c] + 1)>> ELSE <<>>)
                       \o (IF end THEN <<Op("deliver", c, End)>> ELSE <<>>)
        BY <2>1 DEF Segment
      <3>2. end => pcb'[c] = "ended"
        BY <1>2, <3>1 DEF PcbInv
      <3>3. PICK x, y \in Ops : x = Op("deliver", c, sent[c] + 1) /\ y = Op("deliver", c, End)
        <4>1. c \in Netconns /\ sent[c] + 1 \in Int /\ End \in Int
          BY <1>2, ConnNetconn
        <4> QED
          BY <4>1 DEF Ops, Op
      <3>4. PICK s : s = todo' /\ s = (IF data THEN <<x>> ELSE <<>>) \o (IF end THEN <<y>> ELSE <<>>)
        BY <3>1, <3>3
      <3>5. /\ \A k \in 1 .. Len(s) : (data /\ k = 1 /\ s[k] = x) \/ (end /\ k = Len(s) /\ s[k] = y)
            /\ \A o \in ToSet(s) : (data /\ o = x) \/ (end /\ o = y)
            /\ data => x \in ToSet(s)
        <4>1. /\ ToSet(<<x, y>>) = {x, y} /\ ToSet(<<x>>) = {x} /\ ToSet(<<y>>) = {y} /\ ToSet(<<>>) = {}
          <5>1. /\ <<x>> \in Seq(Ops) /\ ToSet(<<x>>) = {x}
                /\ <<x, y>> \in Seq(Ops) /\ ToSet(<<x, y>>) = {x, y}
            BY SingleElements
          <5>2. <<y>> \in Seq(Ops) /\ ToSet(<<y>>) = {y}
            BY SingleElements
          <5> QED
            BY <5>1, <5>2, OrderedEmpty
        <4>2. s = IF data THEN IF end THEN <<x, y>> ELSE <<x>> ELSE IF end THEN <<y>> ELSE <<>>
          <5>1. /\ <<x>> \o <<y>> = <<x, y>> /\ <<x>> \o <<>> = <<x>>
                /\ <<>> \o <<y>> = <<y>> /\ <<>> \o <<>> = <<>>
            BY Pairs
          <5> QED
            BY <3>4, <5>1
        <4>3. /\ Len(<<x, y>>) = 2 /\ <<x, y>>[1] = x /\ <<x, y>>[2] = y
              /\ Len(<<x>>) = 1 /\ <<x>>[1] = x /\ Len(<<y>>) = 1 /\ <<y>>[1] = y /\ Len(<<>>) = 0
              /\ \A k \in 1 .. 2 : k = 1 \/ k = 2
              /\ \A k \in 1 .. 1 : k = 1
              /\ 1 .. 0 = {}
          OBVIOUS
        <4> QED
          BY <4>1, <4>2, <4>3
      <3> QED
        BY <3>2, <3>3, <3>4, <3>5
    <2>2. CASE c \in closing
      <3>1. todo' = <<>>
        BY <1>1, <2>2 DEF Segment
      <3> QED
        BY <2>2, <3>1, OrderedEmpty
    <2> QED
      BY <2>1, <2>2
  <1>7. End = 0 /\ sent[c] + 1 # End
    BY <1>2 DEF End
  <1>8. /\ \A d \in Conns \ {c} : Underway(d)' <=> Underway(d)
        /\ ~Underway(c) /\ (~Deleting(c) => (Underway(c)' <=> data))
    <2>1. \A d : Underway(d) <=> refused[d] # 0
      BY <1>1, UnderwayQuiet
    <2>2. \A d \in Conns \ {c} : Underway(d)' <=> refused[d] # 0
      BY <1>1, <1>6 DEF Underway, Kept, Clearing, Clears, Op
    <2>3. ~Deleting(c) => (Underway(c)' <=> data)
      BY <1>1, <1>4, <1>6, <1>7 DEF Underway, Kept, Op
    <2> QED
      BY <1>1, <2>1, <2>2, <2>3
  <1>9. ~Deleting(c) => Flow(c)'
    <2> HAVE ~Deleting(c)
    <2>1. Flow(c)
      BY <1>2 DEF FlowInv
    <2>2. PICK d \in 0 .. Len(mbox[c]) : Following(c, d)
      BY <2>1 DEF Flow
    <2>3. Len(mbox[c]) \in Nat /\ ~(d < Len(mbox[c])) /\ d \in Nat /\ sent[c] = read[c] + d + 0
      <3>1. Len(mbox[c]) \in Nat
        BY <1>2, CountedType
      <3> QED
        BY <1>1, <1>8, <2>2, <3>1 DEF Following
    <2>4. sent'[c] = read[c] + d + n
      BY <1>2, <1>3, <2>3
    <2>5. Following(c, d)'
      BY <1>1, <1>5, <1>8, <2>2, <2>3, <2>4 DEF Following
    <2>6. ~fatal[c]
      BY <1>1, <2>1 DEF Flow, EndDue
    <2> QED
      BY <1>1, <1>5, <2>2, <2>5, <2>6 DEF Flow
  <1>10. \A d \in live : ~Deleting(d) => Flow(d)'
    <2> TAKE d \in live
    <2> HAVE ~Deleting(d)
    <2>1. CASE d # c
      BY <1>1, <1>2, <1>3, <1>5, <1>8, <2>1, FlowKept DEF FlowInv
    <2> QED
      BY <1>9, <2>1
  <1>11. GhostInv'
    BY <1>1, <1>2, <1>3 DEF FlowInv, GhostInv
  <1>12. Meets' => EndDue(ftp.c)'
    <2> HAVE Meets'
    <2>1. ftp.c \in live /\ EndDue(ftp.c) /\ ~EndDue(c)
      BY <1>1, <1>4 DEF FlowInv, EndDue
    <2> QED
      BY <1>1, <1>2, <1>3, <1>5, <2>1 DEF EndDue
  <1>13. DeliverInv'
    <2>1. \A k \in 1 .. Len(todo') : todo'[k].op = "deliver" =>
             IF todo'[k].x = End
             THEN /\ k = Len(todo') /\ pcb'[todo'[k].c] = "ended"
                  /\ refused'[todo'[k].c] = 0
             ELSE k = 1 /\ todo'[k].x = sent'[todo'[k].c] /\ refused'[todo'[k].c] = 0
      <3> TAKE k \in 1 .. Len(todo')
      <3>1. CASE data /\ k = 1 /\ todo'[k] = Op("deliver", c, sent[c] + 1)
        <4>1. todo'[k].x = sent[c] + 1 /\ todo'[k].c = c
          BY <3>1 DEF Op
        <4> QED
          BY <1>1, <1>3, <1>7, <3>1, <4>1
      <3>2. CASE end /\ k = Len(todo') /\ todo'[k] = Op("deliver", c, End) /\ pcb'[c] = "ended"
        BY <1>1, <3>2 DEF Op
      <3> QED
        BY <1>6, <3>1, <3>2
    <2>2. \A o \in ToSet(todo') : o.op # "post" /\ ~Clears(o)
      BY <1>6 DEF Clears, Op
    <2>3. \A d : ~Clearing(d)'
      BY <2>2 DEF Clearing
    <2> QED
      BY <2>1, <2>2, <2>3 DEF DeliverInv
  <1>14. FlowInv'
    BY <1>1, <1>4, <1>10, <1>11, <1>12, <1>13 DEF FlowInv
  <1>15. Stream!Arrive(c, n, end) \/ View' = View
    <2>1. \A d \in Conns \ {c} : View'[d] = View[d]
      <3> TAKE d \in Conns \ {c}
      <3>1. State(d)' = State(d)
        BY <1>5, StateValue
      <3> QED
        BY <1>1, <1>3, <1>4, <3>1, ViewKept
    <2>2. CASE Deleting(c) /\ ftp.some
      <3>1. View'[c] = View[c]
        BY <1>1, <1>4, <2>2, ViewOf
      <3> QED
        BY <2>1, <3>1, ViewSame
    <2>3. CASE ~(Deleting(c) /\ ftp.some)
      <3>1. PICK t \in BOOLEAN : t = Deleting(c) /\ t = Deleting(c)'
        BY <1>1 DEF Deleting
      <3>2. State(c) = "open"
        BY <1>1, StateValue
      <3>3. PICK st \in {"open"} : TRUE
        OBVIOUS
      <3>4. View[c] = Look(st, sent[c], read[c], t)
        BY <1>2, <2>3, <3>1, <3>2, ViewOf
      <3>5. View'[c] = Look(IF end THEN "ended" ELSE "open", sent[c] + n, read[c], t)
        BY <1>1, <1>2, <1>3, <1>4, <1>5, <2>3, <3>1, ViewOf
      <3>6. n \in {0, 1} /\ sent[c] \in Int /\ read[c] \in Int
        BY <1>2
      <3> HIDE DEF n
      <3> QED
        BY <2>1, <3>4, <3>5, <3>6, StreamSteps
    <2> QED
      BY <2>2, <2>3
  <1> QED
    BY <1>14, <1>15

\* Steps of the thread that change one connection and leave its mailbox alone.
LEMMA OneConnection ==
    ASSUME IInv, AccInv, FlowInv, NEW c \in live,
           UNCHANGED <<mbox, sent, read, live, ftp>>,
           \A d \in Conns \ {c} : /\ pcb'[d] = pcb[d] /\ refused'[d] = refused[d]
                                  /\ fatal'[d] = fatal[d] /\ (Underway(d)' <=> Underway(d)),
           ~Deleting(c) => Flow(c)', EndDue(c) => EndDue(c)', refused'[c] \in {0, sent[c]},
           DeliverInv'
    PROVE  /\ FlowInv'
           /\ \A d \in Conns \ {c} : View'[d] = View[d]
           /\ pcb'[c] = "none" /\ pcb[c] # "none" => Stream!Go(c) \/ View' = View
           /\ State(c)' = State(c) => View' = View
           /\ Deleting(c)' <=> Deleting(c)
  <1>1. live \subseteq Conns /\ c \in Conns /\ sent \in [Conns -> Int] /\ read \in [Conns -> Nat]
    BY DEF IInv, SocketTypes, AccInv, AcceptInv, FlowInv, GhostInv
  <1>2. /\ \A d : Deleting(d)' <=> Deleting(d)
        /\ (Meets => ftp.c \in live) /\ (Meets' <=> Meets)
    BY MeetsLive DEF Deleting, Meets
  <1>3. \A d \in live : ~Deleting(d) => Flow(d)'
    <2> TAKE d \in live
    <2> HAVE ~Deleting(d)
    <2>1. CASE d # c
      BY <1>1, <2>1, FlowKept DEF FlowInv
    <2> QED
      BY <2>1
  <1>4. GhostInv'
    BY <1>1 DEF FlowInv, GhostInv
  <1>5. Meets' => EndDue(ftp.c)'
    <2> HAVE Meets'
    <2>1. ftp.c \in live /\ EndDue(ftp.c)
      BY <1>2 DEF FlowInv
    <2> QED
      BY <1>1, <2>1 DEF EndDue
  <1>6. FlowInv'
    BY <1>2, <1>3, <1>4, <1>5 DEF FlowInv
  <1>7. \A d \in Conns \ {c} : View'[d] = View[d]
    <2> TAKE d \in Conns \ {c}
    <2>1. State(d)' = State(d)
      BY StateValue
    <2> QED
      BY <1>2, <2>1, ViewKept
  <1>8. State(c)' = State(c) => View' = View
    <2> HAVE State(c)' = State(c)
    <2>1. View'[c] = View[c]
      BY <1>1, <1>2, ViewKept
    <2> QED
      BY <1>7, <2>1, ViewSame
  <1>9. pcb'[c] = "none" /\ pcb[c] # "none" => Stream!Go(c) \/ View' = View
    <2> HAVE pcb'[c] = "none" /\ pcb[c] # "none"
    <2>1. CASE Deleting(c) /\ ftp.some
      <3>1. View'[c] = View[c]
        BY <1>1, <1>2, <2>1, ViewOf
      <3> QED
        BY <1>7, <3>1, ViewSame
    <2>2. CASE ~(Deleting(c) /\ ftp.some)
      <3>1. PICK t \in BOOLEAN : t = Deleting(c) /\ t = Deleting(c)'
        BY DEF Deleting
      <3>2. PICK st \in {"open", "ended"} : st = State(c)
        BY StateValue
      <3>3. State(c)' = "gone"
        BY StateValue
      <3>4. View[c] = Look(st, sent[c], read[c], t)
        BY <1>1, <2>2, <3>1, <3>2, ViewOf
      <3>5. View'[c] = Look("gone", sent[c], read[c], t)
        BY <1>1, <1>2, <2>2, <3>1, <3>3, ViewOf
      <3>6. sent[c] \in Int /\ read[c] \in Int
        BY <1>1
      <3> QED
        BY <1>1, <1>7, <3>4, <3>5, <3>6, StreamSteps
    <2> QED
      BY <2>1, <2>2
  <1> QED
    BY <1>2, <1>6, <1>7, <1>8, <1>9

LEMMA LastAckFlow ==
    ASSUME IInv, AccInv, FlowInv, NEW c \in Conns, LastAck(c)
    PROVE  FlowInv' /\ View' = View
  <1>1. /\ todo = <<>> /\ todo' = <<>> /\ pcb[c] = "lastack" /\ pcb' = [pcb EXCEPT ![c] = "freed"]
        /\ UNCHANGED <<mbox, sent, read, live, ftp, refused, fatal>>
    BY DEF LastAck, Idle, ghosts, tcpip, task
  <1>2. pcb'[c] = "freed" /\ (\A d \in Conns \ {c} : pcb'[d] = pcb[d]) /\ c \in live
        /\ refused[c] \in {0, sent[c]}
    BY <1>1 DEF AccInv, PcbInv, FlowInv, GhostInv
  <1>3. Deleting(c) /\ ~EndDue(c)
    BY <1>1, <1>2 DEF FlowInv, Flow, EndDue
  <1>4. State(c)' = State(c)
    BY <1>1, <1>2, StateValue
  <1>5. \A d : Underway(d)' <=> Underway(d)
    BY <1>1 DEF Underway, Kept, Clearing
  <1>6. DeliverInv'
    <2>1. Quiet(<<>>) /\ ToSet(<<>>) = {}
      BY OrderedEmpty DEF Quiet
    <2> QED
      BY <1>1, <2>1, DeliverQuiet
  <1> QED
    BY <1>1, <1>2, <1>3, <1>4, <1>5, <1>6, OneConnection

\* The pcb goes, the events that tell of it have nothing to be delivered.
LEMMA GoneFlow ==
    ASSUME IInv, AccInv, FlowInv, NEW c \in live, todo = <<>>,
           pcb' = [pcb EXCEPT ![c] = "none"], refused' = [refused EXCEPT ![c] = 0],
           \A d \in Conns \ {c} : fatal'[d] = fatal[d],
           UNCHANGED <<mbox, sent, read, live, ftp>>,
           Quiet(todo'), \A o \in ToSet(todo') : (o.op = "post" => o.c = c) /\ ~Clears(o)
    PROVE  FlowInv' /\ (Stream!Go(c) \/ View' = View)
  <1>1. /\ pcb'[c] = "none" /\ refused'[c] = 0 /\ c \in Conns
        /\ \A d \in Conns \ {c} : pcb'[d] = pcb[d] /\ refused'[d] = refused[d]
    BY DEF IInv, SocketTypes, AccInv, PcbInv, AcceptInv
  <1>2. \A d \in Conns \ {c} : Underway(d)' <=> Underway(d)
    BY <1>1, UnderwayQuiet
  <1>3. DeliverInv'
    BY <1>1, DeliverQuiet
  <1>4. ~Deleting(c) => Flow(c)'
    <2> HAVE ~Deleting(c)
    <2>1. Flow(c)
      BY DEF FlowInv
    <2>2. PICK d \in 0 .. Len(mbox[c]) : Following(c, d)
      BY <2>1 DEF Flow
    <2>3. read[c] + d <= sent[c]
      <3>1. Len(mbox[c]) \in Nat /\ read[c] \in Nat /\ sent[c] \in Int
        BY <1>1, CountedType DEF FlowInv, GhostInv, IInv, SocketTypes
      <3> QED
        BY <2>2, <3>1 DEF Following
    <2>4. Following(c, d)'
      BY <1>1, <2>2, <2>3 DEF Following
    <2> QED
      BY <1>1, <2>2, <2>4 DEF Flow, EndDue
  <1>5. EndDue(c)' /\ (pcb[c] = "none" => State(c)' = State(c))
    BY <1>1, StateValue DEF EndDue
  <1> QED
    BY <1>1, <1>2, <1>3, <1>4, <1>5, OneConnection

LEMMA ResetFlow ==
    ASSUME IInv, AccInv, FlowInv, NEW c \in Conns, Reset(c)
    PROVE  FlowInv' /\ (Stream!Go(c) \/ View' = View)
  <1> DEFINE a == ApiEvent(c, 1)  b == <<Op("post", c, End)>>
             last == IF c \in closing THEN <<Op("done", c, 0)>> ELSE <<>>
  <1>1. /\ todo = <<>> /\ pcb[c] # "none"
        /\ pcb' = [pcb EXCEPT ![c] = "none"] /\ refused' = [refused EXCEPT ![c] = 0]
        /\ fatal' = [fatal EXCEPT ![c] = TRUE]
        /\ todo' = (a \o b) \o last
        /\ UNCHANGED <<mbox, sent, read, live, ftp>>
    BY DEF Reset, Idle, ghosts, task
  <1>2. SocketTypes /\ PcbInv /\ c \in Netconns /\ c \in live
    BY <1>1, ConnNetconn DEF IInv, AccInv, PcbInv
  <1>3. /\ Quiet(a) /\ \A o \in ToSet(a) : o.op # "post" /\ ~Clears(o)
        /\ Quiet(b) /\ \A o \in ToSet(b) : o.c = c /\ ~Clears(o)
        /\ Quiet(last) /\ \A o \in ToSet(last) : o.c = c /\ ~Clears(o)
    <2>1. Quiet(a) /\ \A o \in ToSet(a) : o.op # "post" /\ ~Clears(o)
      BY <1>2, EventsQuiet DEF Clears
    <2>2. /\ Quiet(b) /\ ToSet(b) = {Op("post", c, End)}
          /\ Quiet(<<Op("done", c, 0)>>) /\ ToSet(<<Op("done", c, 0)>>) = {Op("done", c, 0)}
      BY <1>2, ConnNetconn, QuietOne, OneOwed
    <2>3. Quiet(<<>>) /\ ToSet(<<>>) = {}
      BY OrderedEmpty DEF Quiet
    <2> HIDE DEF a, b
    <2> QED
      BY <2>1, <2>2, <2>3 DEF Op, Clears
  <1> HIDE DEF a, b, last
  <1>4. Quiet(a \o b) /\ ToSet(a \o b) = ToSet(a) \cup ToSet(b)
    BY <1>3, QuietConcat DEF Quiet
  <1>5. Quiet((a \o b) \o last) /\ ToSet((a \o b) \o last) = ToSet(a \o b) \cup ToSet(last)
    BY <1>3, <1>4, QuietConcat DEF Quiet
  <1>6. \A o \in ToSet(todo') : (o.op = "post" => o.c = c) /\ ~Clears(o)
    BY <1>1, <1>3, <1>4, <1>5
  <1>7. \A d \in Conns \ {c} : fatal'[d] = fatal[d]
    BY <1>1, <1>2 DEF PcbInv
  <1> QED
    BY <1>1, <1>2, <1>5, <1>6, <1>7, GoneFlow

LEMMA ClosePosts ==
    ASSUME SocketTypes, NEW c \in Netconns
    PROVE  LET s == ApiEvent(c, 1) \o ApiEvent(c, 0) \o <<Op("done", c, 0)>>
           IN  Quiet(s) /\ \A o \in ToSet(s) : o.op # "post" /\ ~Clears(o)
  <1>1. PICK a, b, t : /\ a = ApiEvent(c, 1) /\ b = ApiEvent(c, 0) /\ t = <<Op("done", c, 0)>>
                       /\ Quiet(a) /\ Quiet(b) /\ Quiet(t) /\ ToSet(t) = {Op("done", c, 0)}
                       /\ \A o \in ToSet(a) \cup ToSet(b) : o.op # "post" /\ ~Clears(o)
    <2>1. /\ Quiet(ApiEvent(c, 1)) /\ \A o \in ToSet(ApiEvent(c, 1)) : o.op # "post" /\ ~Clears(o)
          /\ Quiet(ApiEvent(c, 0)) /\ \A o \in ToSet(ApiEvent(c, 0)) : o.op # "post" /\ ~Clears(o)
      BY EventsQuiet DEF Clears
    <2>2. Quiet(<<Op("done", c, 0)>>) /\ ToSet(<<Op("done", c, 0)>>) = {Op("done", c, 0)}
      BY QuietOne, OneOwed
    <2> QED
      BY <2>1, <2>2
  <1>2. Quiet(a \o b) /\ ToSet(a \o b) = ToSet(a) \cup ToSet(b)
    BY <1>1, QuietConcat DEF Quiet
  <1>3. Quiet((a \o b) \o t) /\ ToSet((a \o b) \o t) = ToSet(a \o b) \cup ToSet(t)
    BY <1>1, <1>2, QuietConcat DEF Quiet
  <1>4. \A o \in ToSet((a \o b) \o t) : o.op # "post" /\ ~Clears(o)
    BY <1>1, <1>2, <1>3 DEF Op, Clears
  <1> QED
    BY <1>1, <1>3, <1>4

LEMMA CloseDoneFlow ==
    ASSUME IInv, AccInv, FlowInv, NEW c \in live, todo = <<>>, CloseDone(c),
           UNCHANGED <<sent, read, ftp>>
    PROVE  FlowInv' /\ (Stream!Go(c) \/ View' = View)
  <1>1. /\ pcb' = [pcb EXCEPT ![c] = "none"] /\ refused' = [refused EXCEPT ![c] = 0]
        /\ fatal' = [fatal EXCEPT ![c] = FALSE]
        /\ todo' = ApiEvent(c, 1) \o ApiEvent(c, 0) \o <<Op("done", c, 0)>>
        /\ UNCHANGED <<mbox, live>>
    BY DEF CloseDone
  <1>2. SocketTypes /\ c \in Netconns
    BY CountedType DEF IInv
  <1>3. Quiet(todo') /\ \A o \in ToSet(todo') : o.op # "post" /\ ~Clears(o)
    BY <1>1, <1>2, ClosePosts
  <1>4. \A d \in Conns \ {c} : fatal'[d] = fatal[d]
    BY <1>1 DEF AccInv, PcbInv
  <1> QED
    BY <1>1, <1>3, <1>4, GoneFlow

LEMMA ApiCallFlow ==
    ASSUME IInv, AccInv, FlowInv, ApiCall
    PROVE  FlowInv' /\ (Stream!Some \/ View' = View)
  <1>1. PICK c : c = api.c
    OBVIOUS
  <1>2. /\ todo = <<>> /\ api # None /\ c \in Netconns /\ SocketTypes
        /\ UNCHANGED <<sent, read, ftp>>
    BY <1>1 DEF ApiCall, ghosts, task, IInv, SocketTypes
  <1>3. /\ Quiet(<<Op("done", c, 0)>>) /\ \A o \in ToSet(<<Op("done", c, 0)>>) : o.op # "post" /\ ~Clears(o)
        /\ Quiet(<<>>) /\ \A o \in ToSet(<<>>) : o.op # "post" /\ ~Clears(o)
    <2>1. /\ Quiet(<<Op("done", c, 0)>>) /\ ToSet(<<Op("done", c, 0)>>) = {Op("done", c, 0)}
      BY <1>2, QuietOne, OneOwed
    <2> QED
      BY <2>1, OrderedEmpty DEF Quiet, Op, Clears
  <1>4. ASSUME UNCHANGED <<mbox, pcb, refused, fatal, live>>,
               Quiet(todo'), \A o \in ToSet(todo') : o.op # "post" /\ ~Clears(o)
        PROVE  FlowInv' /\ View' = View
    <2>1. \A d : Underway(d)' <=> Underway(d)
      BY <1>2, <1>4, UnderwayQuiet
    <2>2. DeliverInv'
      BY <1>4, DeliverQuiet
    <2>3. /\ \A d : Deleting(d)' <=> Deleting(d)
          /\ Meets' => EndDue(ftp'.c)
      BY <1>2 DEF Deleting, Meets, FlowInv
    <2>4. FlowInv'
      BY <1>2, <1>4, <2>1, <2>2, <2>3, FlowFrame
    <2> QED
      BY <1>2, <1>4, <2>4 DEF View, Deleting
  <1>5. CASE api.fn = "ask"
    <2>1. todo' = <<Op("done", c, 0)>> /\ UNCHANGED <<mbox, pcb, refused, fatal, live>>
      BY <1>1, <1>5 DEF ApiCall, netconns
    <2> QED
      BY <1>3, <1>4, <2>1
  <1>6. CASE api.fn = "delete" /\ pcb[c] = "none"
    <2>1. /\ todo' = ApiEvent(c, 1) \o ApiEvent(c, 0) \o <<Op("done", c, 0)>>
          /\ UNCHANGED <<mbox, pcb, refused, fatal, live>>
      BY <1>1, <1>6 DEF ApiCall, netconns
    <2>2. Quiet(todo') /\ \A o \in ToSet(todo') : o.op # "post" /\ ~Clears(o)
      BY <1>2, <2>1, ClosePosts
    <2> QED
      BY <1>4, <2>1, <2>2
  <1>7. CASE api.fn = "delete" /\ pcb[c] # "none"
    <2>1. c \in live
      <3>1. ftp.pc = "asked" /\ Going("free") /\ c = ftp.c
        BY <1>1, <1>2, <1>7 DEF AccInv, CloseInv, IInv, AnswerInv, Going
      <3> QED
        BY <3>1, TaskConn DEF Returning, AccInv
    <2>2. CASE CloseDone(c)
      BY <1>2, <2>1, <2>2, CloseDoneFlow DEF Stream!Some, AccInv, AcceptInv
    <2>3. CASE CloseFailed(c)
      <3>1. todo' = <<>> /\ UNCHANGED <<mbox, pcb, refused, fatal, live>>
        BY <2>3 DEF CloseFailed
      <3> QED
        BY <1>3, <1>4, <3>1
    <2> QED
      BY <1>1, <1>7, <2>2, <2>3 DEF ApiCall
  <1>8. api.fn \in {"ask", "delete"}
    BY <1>2 DEF IInv, SocketTypes
  <1> QED
    BY <1>5, <1>6, <1>7, <1>8

\* What is left to be delivered when the head of todo is done.
LEMMA DeliverRest ==
    ASSUME IInv, DeliverInv, todo # <<>>, NEW a, Quiet(a),
           \A o \in ToSet(a) : o.op # "post" /\ ~Clears(o),
           todo' = a \o Tail(todo), pcb' = pcb,
           \A c \in Conns : (refused[c] # 0 => Full(c)) => (refused'[c] # 0 => Full(c)')
    PROVE  /\ DeliverInv'
           /\ \A c : Clearing(c) <=> Clearing(c)' \/ (Clears(Head(todo)) /\ C = c)
           /\ \A c : Underway(c)' <=> Kept(c)'
           /\ \A c : Underway(c) <=> \/ Kept(c)
                                     \/ Head(todo).op = "deliver" /\ C = c /\ X # End
           /\ Head(todo).op = "deliver" =>
                 IF X = End THEN pcb[C] = "ended" /\ (refused[C] # 0 => Full(C))
                 ELSE X = sent[C] /\ refused[C] = 0 /\ ~Clearing(C)
           /\ Head(todo).op = "post" => pcb[C] = "none"
  <1>1. PICK t \in Seq(Ops), h \in Ops, r \in Seq(Ops), u \in Seq(Ops), m \in Nat, n \in Nat :
           /\ t = todo /\ h = Head(todo) /\ r = Tail(todo) /\ u = a /\ m = Len(a) /\ n = Len(r)
           /\ t # <<>>
    <2>1. Ordered(todo) /\ todo \in Seq(Ops) /\ a \in Seq(Ops)
      BY DEF IInv, Ordered, Quiet
    <2>2. Head(todo) \in Ops /\ Tail(todo) \in Seq(Ops)
      BY <2>1, OrderedTail DEF Ordered
    <2>3. Len(a) \in Nat /\ Len(Tail(todo)) \in Nat
      BY <2>1, <2>2
    <2> QED
      BY <2>1, <2>2, <2>3
  <1>2. /\ h = t[1] /\ Len(t) = n + 1 /\ \A k \in 1 .. n : r[k] = t[k + 1]
        /\ ToSet(t) = {h} \cup ToSet(r) /\ ToSet(r) = {r[k] : k \in 1 .. n}
    <2>1. Ordered(t)
      BY <1>1 DEF IInv
    <2>2. ToSet(t) = {Head(t)} \cup ToSet(Tail(t))
      BY <1>1, <2>1, OrderedTail
    <2>3. /\ Head(t) = t[1] /\ Len(Tail(t)) = Len(t) - 1 /\ Len(t) \in Nat
          /\ \A k \in 1 .. Len(t) - 1 : Tail(t)[k] = t[k + 1]
      BY <1>1, EmptySeq, HeadTailProperties
    <2>4. n = Len(t) - 1
      BY <1>1, <2>3
    <2>5. DOMAIN r = 1 .. n
      BY <1>1
    <2>6. ToSet(r) = {r[k] : k \in 1 .. n}
      BY <2>5 DEF ToSet
    <2>7. ToSet(t) = {h} \cup ToSet(r) /\ h = t[1] /\ \A k \in 1 .. Len(t) - 1 : r[k] = t[k + 1]
      BY <1>1, <2>2, <2>3
    <2>8. Len(t) = n + 1
      BY <2>3, <2>4
    <2> QED
      BY <2>4, <2>6, <2>7, <2>8
  <1>3. PICK s \in Seq(Ops) : /\ s = todo' /\ Len(s) = m + n /\ ToSet(s) = ToSet(a) \cup ToSet(r)
                              /\ \A k \in 1 .. m + n : s[k] = IF k <= m THEN a[k] ELSE r[k - m]
    <2>1. PICK s : s = u \o r
      OBVIOUS
    <2>2. s \in Seq(Ops) /\ ToSet(s) = ToSet(u) \cup ToSet(r)
      BY <2>1, ConcatElements
    <2>3. Len(s) = Len(u) + Len(r)
          /\ \A k \in 1 .. Len(u) + Len(r) : s[k] = IF k <= Len(u) THEN u[k] ELSE r[k - Len(u)]
      BY <2>1, ConcatProperties
    <2> QED
      BY <1>1, <2>1, <2>2, <2>3
  <1>4. \A k \in 1 .. n + 1 : t[k].op = "deliver" =>
           /\ t[k].c \in Conns
           /\ IF t[k].x = End
              THEN /\ k = n + 1 /\ pcb[t[k].c] = "ended"
                   /\ refused[t[k].c] # 0 => Full(t[k].c)
              ELSE k = 1 /\ t[k].x = sent[t[k].c] /\ refused[t[k].c] = 0 /\ ~Clearing(t[k].c)
    <2> TAKE k \in 1 .. n + 1
    <2>1. t[k] \in ToSet(t)
      <3>1. DOMAIN t = 1 .. n + 1
        BY <1>1, <1>2
      <3> QED
        BY <3>1 DEF ToSet
    <2>2. t[k].op = "deliver" => t[k].c \in Conns
      BY <1>1, <2>1 DEF IInv, Ordered, Fitting
    <2> QED
      BY <1>1, <1>2, <2>2 DEF DeliverInv
  <1>5. \A k \in 1 .. n : r[k].op = "deliver" =>
           /\ k = n /\ r[k].x = End /\ r[k].c \in Conns /\ pcb[r[k].c] = "ended"
           /\ refused[r[k].c] # 0 => Full(r[k].c)
    <2> TAKE k \in 1 .. n
    <2>1. k + 1 \in 1 .. n + 1 /\ k + 1 # 1 /\ (k + 1 = n + 1 => k = n) /\ r[k] = t[k + 1]
      BY <1>2
    <2> QED
      BY <1>4, <2>1
  <1>6. \A o \in ToSet(r) : o.op = "deliver" => o.x = End
    BY <1>2, <1>5
  <1>7. \A o \in ToSet(a) : o.op # "deliver" /\ o.op # "post" /\ ~Clears(o)
    BY DEF Quiet
  <1>8. \A k \in 1 .. m + n : s[k].op = "deliver" =>
           /\ s[k].x = End /\ k = m + n /\ s[k].c \in Conns /\ pcb'[s[k].c] = "ended"
           /\ refused[s[k].c] # 0 => Full(s[k].c)
    <2> TAKE k \in 1 .. m + n
    <2>1. CASE k <= m
      <3>1. s[k] = a[k] /\ k \in 1 .. m
        BY <1>3, <2>1
      <3>2. a[k] \in ToSet(a)
        <4>1. DOMAIN u = 1 .. m
          BY <1>1
        <4> QED
          BY <1>1, <3>1, <4>1 DEF ToSet
      <3> QED
        BY <1>7, <3>1, <3>2
    <2>2. CASE ~(k <= m)
      <3>1. s[k] = r[k - m]
        BY <1>3, <2>2
      <3>2. k - m \in 1 .. n /\ (k - m = n => k = m + n)
        BY <2>2
      <3> QED
        BY <1>5, <3>1, <3>2
    <2> QED
      BY <2>1, <2>2
  <1>9. \A o \in ToSet(s) : o.op = "post" => o \in ToSet(t)
    BY <1>2, <1>3, <1>7
  <1>10. \A o \in ToSet(t) : o.op = "post" => pcb[o.c] = "none" /\ \A q \in ToSet(t) : q.op # "deliver"
    BY <1>1 DEF DeliverInv, Quiet
  <1>11. DeliverInv'
    <2>1. \A k \in 1 .. Len(todo') : todo'[k].op = "deliver" => todo'[k].x = End /\ k = Len(todo')
                                                               /\ pcb'[todo'[k].c] = "ended"
      BY <1>3, <1>8
    <2>2. \A k \in 1 .. Len(todo') : \A c : todo'[k].op = "deliver" /\ todo'[k].c = c =>
             (refused'[c] # 0 => Full(c)')
      BY <1>3, <1>8
    <2>3. \A o \in ToSet(todo') : o.op = "post" => pcb'[o.c] = "none" /\ Quiet(todo')
      <3>1. (\A q \in ToSet(t) : q.op # "deliver") => Quiet(s)
        BY <1>2, <1>3, <1>7 DEF Quiet
      <3> QED
        BY <1>3, <1>9, <1>10, <3>1
    <2> QED
      BY <2>1, <2>2, <2>3 DEF DeliverInv
  <1>12. \A c : Underway(c)' <=> Kept(c)'
    BY <1>3, <1>6, <1>7 DEF Underway
  <1>16. \A c : Clearing(c) <=> Clearing(c)' \/ (Clears(Head(todo)) /\ C = c)
    BY <1>1, <1>2, <1>3, <1>7 DEF Clearing, C
  <1>13. \A c : Underway(c) <=> \/ Kept(c)
                                \/ Head(todo).op = "deliver" /\ C = c /\ X # End
    BY <1>1, <1>2, <1>6 DEF Underway, C, X
  <1>14. Head(todo).op = "deliver" =>
            IF X = End THEN pcb[C] = "ended" /\ (refused[C] # 0 => Full(C))
            ELSE X = sent[C] /\ refused[C] = 0 /\ ~Clearing(C)
    <2>1. 1 \in 1 .. n + 1
      OBVIOUS
    <2> QED
      BY <1>1, <1>2, <1>4, <2>1 DEF C, X
  <1>15. Head(todo).op = "post" => pcb[C] = "none"
    BY <1>1, <1>2, <1>10 DEF C
  <1> QED
    BY <1>11, <1>12, <1>13, <1>14, <1>15, <1>16

\* What comes into a mailbox follows what is there.
LEMMA FlowPut ==
    ASSUME NEW c, Flow(c), mbox[c] \in Seq(Int \cup Conns), read[c] \in Nat, sent[c] \in Int,
           NEW x \in Int, mbox'[c] = Append(mbox[c], x),
           pcb'[c] = pcb[c], read'[c] = read[c], sent'[c] = sent[c], fatal'[c] => fatal[c],
           ~Underway(c)',
           IF x = End THEN pcb[c] = "none" \/ (pcb[c] = "ended" /\ ~Underway(c))
           ELSE pcb[c] # "none" /\ Underway(c) /\ x = sent[c]
    PROVE  Flow(c)'
  <1>1. PICK d \in 0 .. Len(mbox[c]) : Following(c, d)
    BY DEF Flow
  <1>2. PICK q \in Seq(Int \cup Conns), n \in Nat : q = mbox[c] /\ n = Len(q)
    OBVIOUS
  <1>3. x \in Int \cup Conns
    OBVIOUS
  <1>4. PICK p \in Seq(Int \cup Conns) : /\ p = mbox'[c] /\ Len(p) = n + 1 /\ p[n + 1] = x
                                         /\ \A k \in 1 .. n : p[k] = q[k]
    <2>1. PICK p : p = Append(q, x)
      OBVIOUS
    <2>2. /\ p \in Seq(Int \cup Conns) /\ Len(p) = Len(q) + 1 /\ p[Len(q) + 1] = x
          /\ \A k \in 1 .. Len(q) : p[k] = q[k]
      BY <1>3, <2>1, AppendProperties
    <2> QED
      BY <1>2, <2>1, <2>2
  <1>5. /\ d \in Nat /\ d <= n
        /\ \A k \in 1 .. n : q[k] = IF k <= d THEN read[c] + k ELSE End
        /\ pcb[c] = "none" => read[c] + d <= sent[c]
        /\ pcb[c] # "none" => sent[c] = read[c] + d + (IF Underway(c) THEN 1 ELSE 0)
        /\ d < n => pcb[c] = "none" \/ (pcb[c] = "ended" /\ ~Underway(c))
    BY <1>1, <1>2 DEF Following
  <1>6. CASE x = End
    <2>1. \A k \in 1 .. n + 1 : p[k] = IF k <= d THEN read[c] + k ELSE End
      <3> TAKE k \in 1 .. n + 1
      <3>1. CASE k = n + 1
        BY <1>4, <1>5, <1>6, <3>1
      <3>2. CASE k # n + 1
        <4>1. k \in 1 .. n
          BY <3>2
        <4> QED
          BY <1>4, <1>5, <4>1
      <3> QED
        BY <3>1, <3>2
    <2>2. pcb[c] # "none" => sent[c] = read[c] + d + 0
      BY <1>5, <1>6
    <2>3. Following(c, d)'
      BY <1>4, <1>5, <1>6, <2>1, <2>2 DEF Following
    <2>4. d \in 0 .. Len(mbox'[c])
      BY <1>4, <1>5
    <2> QED
      BY <2>3, <2>4 DEF Flow, EndDue
  <1>7. CASE x # End
    <2>1. d = n /\ sent[c] = read[c] + d + 1 /\ pcb[c] # "none"
      BY <1>5, <1>7
    <2>2. \A k \in 1 .. n + 1 : p[k] = read[c] + k
      <3> TAKE k \in 1 .. n + 1
      <3>1. CASE k = n + 1
        BY <1>4, <1>7, <2>1, <3>1
      <3>2. CASE k # n + 1
        <4>1. k \in 1 .. n
          BY <3>2
        <4> QED
          BY <1>4, <1>5, <2>1, <4>1
      <3> QED
        BY <3>1, <3>2
    <2>3. PICK e \in Nat : e = n + 1
      OBVIOUS
    <2>4. sent[c] = read[c] + e + 0 /\ Len(p) = e /\ ~(e < Len(p))
      <3>1. PICK r \in Nat : r = read[c]
        OBVIOUS
      <3>2. r + n + 1 = r + e + 0
        BY <2>3
      <3> QED
        BY <1>4, <2>1, <2>3, <3>1, <3>2
    <2>5. \A k \in 1 .. e : p[k] = IF k <= e THEN read[c] + k ELSE End
      BY <2>2, <2>3
    <2>6. Following(c, e)'
      BY <1>4, <2>1, <2>4, <2>5 DEF Following
    <2>7. e \in 0 .. Len(mbox'[c])
      BY <1>4, <2>4
    <2> QED
      BY <2>6, <2>7 DEF Flow, EndDue
  <1> QED
    BY <1>6, <1>7

\* Steps of the thread leave the connections as the reader sees them.
LEMMA ThreadView ==
    ASSUME UNCHANGED <<pcb, sent, read, live, ftp>>
    PROVE  View' = View /\ \A c : Deleting(c)' <=> Deleting(c)
  BY DEF View, Deleting

\* If nothing is counted that clears refused_data, nothing clears it.
LEMMA NoneComing ==
    ASSUME IInv, NEW c \in Conns, \A k \in DOMAIN todo : todo[k].op # "rearm",
           ~(Coming(c, {"clear"}) > 0)
    PROVE  ~Clearing(c)
  <1>1. PICK n \in Nat : n = Len(todo) /\ DOMAIN todo = 1 .. n
    <2>1. todo \in Seq(Ops)
      BY DEF IInv, Ordered
    <2> QED
      BY <2>1
  <1>2. PICK S : S = {k \in 1 .. n : todo[k].op \in {"clear"} /\ todo[k].c = c}
    OBVIOUS
  <1>3. IsFiniteSet(S)
    <2>1. IsFiniteSet(1 .. n) /\ S \subseteq 1 .. n
      BY <1>2, FS_Interval
    <2> QED
      BY <2>1, FS_Subset
  <1>4. Cardinality(S) \in Nat /\ ~(Cardinality(S) > 0)
    BY <1>1, <1>2, <1>3, FS_CardinalityType DEF Coming
  <1>5. S = {}
    BY <1>3, <1>4, FS_EmptySet
  <1> QED
    BY <1>1, <1>2, <1>5 DEF Clearing, Clears, ToSet

\* What is put before todo delivers nothing.
LEMMA DeliverBehind ==
    ASSUME IInv, DeliverInv, todo # <<>> => Head(todo).op # "deliver",
           NEW a, Quiet(a), \A o \in ToSet(a) : o.op # "post",
           todo' = a \o todo, UNCHANGED <<pcb, refused>>,
           \A o \in ToSet(todo) : o.op = "deliver" => (Full(o.c) => Full(o.c)')
    PROVE  DeliverInv'
  <1>1. PICK t \in Seq(Ops), u \in Seq(Ops), m \in Nat, n \in Nat :
           t = todo /\ u = a /\ m = Len(u) /\ n = Len(t)
    <2>1. todo \in Seq(Ops) /\ a \in Seq(Ops)
      BY DEF IInv, Ordered, Quiet
    <2> QED
      BY <2>1
  <1>2. PICK s \in Seq(Ops) : /\ s = todo' /\ Len(s) = m + n /\ ToSet(s) = ToSet(a) \cup ToSet(t)
                              /\ \A k \in 1 .. m + n : s[k] = IF k <= m THEN u[k] ELSE t[k - m]
    <2>1. PICK s : s = u \o t
      OBVIOUS
    <2>2. s \in Seq(Ops) /\ ToSet(s) = ToSet(u) \cup ToSet(t)
      BY <2>1, ConcatElements
    <2>3. Len(s) = Len(u) + Len(t)
          /\ \A k \in 1 .. Len(u) + Len(t) : s[k] = IF k <= Len(u) THEN u[k] ELSE t[k - Len(u)]
      BY <2>1, ConcatProperties
    <2> QED
      BY <1>1, <2>1, <2>2, <2>3
  <1>3. \A k \in 1 .. n : t[k].op = "deliver" =>
           /\ t[k].x = End /\ k = n /\ pcb[t[k].c] = "ended"
           /\ refused[t[k].c] # 0 => Full(t[k].c)
           /\ Full(t[k].c) => Full(t[k].c)'
    <2> TAKE k \in 1 .. n
    <2> HAVE t[k].op = "deliver"
    <2>1. k # 1
      <3>1. n # 0
        OBVIOUS
      <3>2. t # <<>>
        BY <1>1, <3>1, EmptySeq
      <3>3. Head(t) = t[1]
        BY <3>2
      <3> QED
        BY <1>1, <3>2, <3>3
    <2>2. t[k] \in ToSet(t)
      <3>1. DOMAIN t = 1 .. n
        BY <1>1
      <3> QED
        BY <3>1 DEF ToSet
    <2> QED
      BY <1>1, <2>1, <2>2 DEF DeliverInv
  <1>4. \A k \in 1 .. m + n : s[k].op = "deliver" =>
           /\ s[k].x = End /\ k = m + n /\ pcb'[s[k].c] = "ended"
           /\ refused'[s[k].c] # 0 => Full(s[k].c)'
    <2> TAKE k \in 1 .. m + n
    <2>1. CASE k <= m
      <3>1. s[k] = u[k] /\ k \in DOMAIN u
        BY <1>1, <1>2, <2>1
      <3>2. s[k] \in ToSet(a)
        BY <1>1, <3>1 DEF ToSet
      <3> QED
        BY <3>2 DEF Quiet
    <2>2. CASE ~(k <= m)
      <3>1. s[k] = t[k - m] /\ k - m \in 1 .. n /\ (k - m = n => k = m + n)
        BY <1>2, <2>2
      <3> QED
        BY <1>3, <3>1
    <2> QED
      BY <2>1, <2>2
  <1>5. \A o \in ToSet(s) : o.op = "post" => pcb'[o.c] = "none" /\ Quiet(s)
    <2> TAKE o \in ToSet(s)
    <2> HAVE o.op = "post"
    <2>1. o \in ToSet(todo)
      BY <1>1, <1>2
    <2>2. pcb[o.c] = "none" /\ Quiet(todo)
      BY <2>1 DEF DeliverInv
    <2> QED
      BY <1>1, <1>2, <2>2 DEF Quiet
  <1>6. \A k \in 1 .. Len(todo') : todo'[k].op = "deliver" =>
           todo'[k].x = End /\ k = Len(todo') /\ pcb'[todo'[k].c] = "ended"
    BY <1>2, <1>4
  <1>7. \A o \in ToSet(todo') : o.op = "post" => pcb'[o.c] = "none" /\ Quiet(todo')
    BY <1>2, <1>5
  <1>8. \A k \in 1 .. Len(todo') : \A c : todo'[k].op = "deliver" /\ todo'[k].c = c =>
           (refused'[c] # 0 => Full(c)')
    BY <1>2, <1>4
  <1> QED
    BY <1>6, <1>7, <1>8 DEF DeliverInv

\* What was refused is offered again.  If it is taken it is no longer under
\* way, though refused_data still holds it.
LEMMA OfferFlow ==
    ASSUME IInv, AccInv, MailInv, FlowInv, NEW c \in Conns, NEW then \in {"clear", "rearm"},
           Offer(c, then), ~Clearing(c), todo # <<>> => Head(todo).op # "deliver"
    PROVE  FlowInv' /\ View' = View
  <1>1. refused[c] # 0 /\ UNCHANGED <<pcb, live, sent, read, ftp>>
    BY DEF Offer, task
  <1>2. /\ SocketTypes /\ PcbInv /\ GhostInv /\ DeliverInv /\ live \subseteq Conns
        /\ c \in Netconns /\ c \in live /\ pcb[c] # "none" /\ refused[c] = sent[c]
    <2>1. SocketTypes /\ PcbInv /\ GhostInv /\ DeliverInv /\ live \subseteq Conns
      BY DEF IInv, AccInv, AcceptInv, FlowInv
    <2> QED
      BY <1>1, <2>1, ConnNetconn DEF PcbInv, GhostInv
  <1>3. Underway(c)
    BY <1>1 DEF Underway, Kept
  <1>4. View' = View /\ \A d : Deleting(d)' <=> Deleting(d)
    BY <1>1, ThreadView
  <1>5. Meets' => EndDue(ftp.c)'
    BY <1>1 DEF FlowInv, Meets, EndDue
  <1>6. CASE c \in closing /\ refused' = [refused EXCEPT ![c] = 0] /\ UNCHANGED <<mbox, fatal, todo>>
    <2>1. Deleting(c)
      BY <1>6 DEF AccInv, CloseInv, Deleting
    <2>2. refused'[c] = 0 /\ \A d : d # c => refused'[d] = refused[d]
      BY <1>2, <1>6 DEF SocketTypes
    <2>3. \A d : d # c => (Underway(d)' <=> Underway(d))
      BY <1>6, <2>2 DEF Underway, Kept, Clearing
    <2>4. DeliverInv'
      BY <1>1, <1>2, <1>6, <2>2 DEF DeliverInv, Full, Clearing, Quiet
    <2>5. GhostInv'
      BY <1>1, <1>2, <2>2 DEF GhostInv
    <2>6. \A d \in live : ~Deleting(d) => Flow(d)'
      <3> TAKE d \in live
      <3> HAVE ~Deleting(d)
      <3>1. d # c /\ Flow(d)
        BY <2>1 DEF FlowInv
      <3> QED
        BY <1>1, <1>6, <2>3, <3>1, FlowKept
    <2> QED
      BY <1>1, <1>4, <1>5, <2>4, <2>5, <2>6 DEF FlowInv
  <1>7. CASE /\ ~Full(c) /\ mbox' = [mbox EXCEPT ![c] = Append(@, refused[c])]
             /\ fatal' = [fatal EXCEPT ![c] = FALSE]
             /\ todo' = ApiEvent(c, 1) \o <<Op(then, c, 0)>> \o todo
             /\ UNCHANGED refused
    <2>1. PICK a : /\ Quiet(a) /\ todo' = a \o todo
                   /\ \A o \in ToSet(a) : o.op # "post" /\ (Clears(o) => o.c = c)
                   /\ \E o \in ToSet(a) : Clears(o) /\ o.c = c
      <3>1. PICK e, b : /\ e = ApiEvent(c, 1) /\ b = <<Op(then, c, 0)>>
                        /\ Quiet(e) /\ Quiet(b) /\ ToSet(b) = {Op(then, c, 0)}
                        /\ \A o \in ToSet(e) : o.op # "post" /\ ~Clears(o)
        <4>1. Quiet(ApiEvent(c, 1)) /\ \A o \in ToSet(ApiEvent(c, 1)) : o.op # "post" /\ ~Clears(o)
          BY <1>2, EventsQuiet DEF Clears
        <4>2. Quiet(<<Op(then, c, 0)>>) /\ ToSet(<<Op(then, c, 0)>>) = {Op(then, c, 0)}
          BY <1>2, QuietOne, OneOwed
        <4> QED
          BY <4>1, <4>2
      <3>2. Quiet(e \o b) /\ ToSet(e \o b) = ToSet(e) \cup ToSet(b)
        BY <3>1, QuietConcat DEF Quiet
      <3>3. Op(then, c, 0).op = then /\ Op(then, c, 0).c = c
        BY DEF Op
      <3>4. todo' = (e \o b) \o todo
        BY <1>7, <3>1
      <3>5. /\ \A o \in ToSet(e \o b) : o.op # "post" /\ (Clears(o) => o.c = c)
            /\ \E o \in ToSet(e \o b) : Clears(o) /\ o.c = c
        BY <3>1, <3>2, <3>3 DEF Clears
      <3> QED
        BY <3>2, <3>4, <3>5
    <2>2. ToSet(todo') = ToSet(a) \cup ToSet(todo)
      <3>1. todo \in Seq(Ops)
        BY DEF IInv, Ordered
      <3> QED
        BY <2>1, <3>1, QuietConcat
    <2>3. \A o \in ToSet(todo) : o.op = "deliver" => o.c # c
      <3> TAKE o \in ToSet(todo)
      <3>1. PICK k \in 1 .. Len(todo) : todo[k] = o
        <4>1. todo \in Seq(Ops)
          BY DEF IInv, Ordered
        <4>2. DOMAIN todo = 1 .. Len(todo)
          BY <4>1
        <4> QED
          BY <4>2 DEF ToSet
      <3> QED
        BY <1>1, <1>2, <1>7, <3>1 DEF DeliverInv
    <2>4. /\ ~Underway(c)' /\ \A d : d # c => (Underway(d)' <=> Underway(d))
      <3>1. \A o \in ToSet(todo') : o.op = "deliver" <=> o \in ToSet(todo) /\ o.op = "deliver"
        BY <2>1, <2>2 DEF Quiet
      <3>2. Clearing(c)' /\ \A d : d # c => (Clearing(d)' <=> Clearing(d))
        BY <2>1, <2>2 DEF Clearing
      <3> QED
        BY <1>7, <2>2, <2>3, <3>1, <3>2 DEF Underway, Kept
    <2>5. /\ mbox'[c] = Append(mbox[c], refused[c]) /\ fatal'[c] = FALSE
          /\ \A d : d # c => mbox'[d] = mbox[d] /\ fatal'[d] = fatal[d]
      BY <1>2, <1>7 DEF SocketTypes, PcbInv
    <2>6. DeliverInv'
      <3>1. \A o \in ToSet(todo) : o.op = "deliver" => (Full(o.c) => Full(o.c)')
        BY <2>3, <2>5 DEF Full
      <3> QED
        BY <1>1, <1>2, <1>7, <2>1, <3>1, DeliverBehind
    <2>7. GhostInv'
      BY <1>1, <1>2, <1>7 DEF GhostInv
    <2>8. \A d \in live : ~Deleting(d) => Flow(d)'
      <3> TAKE d \in live
      <3> HAVE ~Deleting(d)
      <3>1. Flow(d)
        BY DEF FlowInv
      <3>2. CASE d = c
        <4>1. /\ mbox[c] \in Seq(Int \cup Conns) /\ read[c] \in Nat /\ sent[c] \in Int
              /\ refused[c] \in Int
          BY <1>2 DEF SocketTypes, GhostInv
        <4>2. PICK x \in Int : x = refused[c] /\ x # End
          BY <1>1, <4>1 DEF End
        <4> QED
          BY <1>1, <1>2, <1>3, <2>4, <2>5, <3>1, <3>2, <4>1, <4>2, FlowPut
      <3>3. CASE d # c
        BY <1>1, <2>4, <2>5, <3>1, <3>3, FlowKept
      <3> QED
        BY <3>2, <3>3
    <2> QED
      BY <1>1, <1>4, <1>5, <2>6, <2>7, <2>8 DEF FlowInv
  <1> QED
    BY <1>6, <1>7 DEF Offer

LEMMA NetworkFlow ==
    ASSUME IInv, AccInv, MailInv, FlowInv, Network, ~twice'
    PROVE  FlowInv' /\ (Stream!Some \/ View' = View)
  <1>1. PICK c \in Conns :
           \/ Connected(c) \/ LastAck(c) \/ Reset(c) \/ OfferAgain(c) \/ NestedOffer(c)
           \/ CloseAgain(c)
           \/ \E data, end \in BOOLEAN : Segment(c, data, end)
    BY DEF Network
  <1>2. CASE Connected(c)
    BY <1>2, ConnectedFlow DEF Stream!Some
  <1>3. CASE LastAck(c)
    BY <1>3, LastAckFlow
  <1>4. CASE Reset(c)
    BY <1>4, ResetFlow DEF Stream!Some
  <1>5. CASE OfferAgain(c)
    <2>1. PICK then \in {"clear", "rearm"} : Offer(c, then)
      BY <1>5 DEF OfferAgain
    <2>2. todo = <<>> /\ ~Clearing(c)
      BY <1>5, OrderedEmpty DEF OfferAgain, Idle, Clearing
    <2> QED
      BY <2>1, <2>2, OfferFlow
  <1>8. CASE NestedOffer(c)
    <2>1. /\ todo # <<>> /\ Head(todo).op # "deliver" /\ Offer(c, "rearm")
          /\ \A k \in DOMAIN todo : todo[k].op # "rearm"
          /\ ~(Coming(c, {"clear"}) > 0)
      BY <1>8 DEF NestedOffer, First
    <2>2. ~Clearing(c)
      BY <2>1, NoneComing
    <2> QED
      BY <2>1, <2>2, OfferFlow
  <1>6. CASE CloseAgain(c)
    <2>1. c \in live /\ todo = <<>> /\ CloseDone(c) /\ UNCHANGED <<sent, read, ftp>>
      BY <1>6 DEF CloseAgain, Idle, ghosts, task, AccInv, PcbInv
    <2> QED
      BY <2>1, CloseDoneFlow DEF Stream!Some
  <1>7. CASE \E data, end \in BOOLEAN : Segment(c, data, end)
    <2>1. PICK data, end \in BOOLEAN : Segment(c, data, end)
      BY <1>7
    <2>2. PICK n \in {0, 1} : n = IF data THEN 1 ELSE 0
      OBVIOUS
    <2>3. FlowInv' /\ (Stream!Arrive(c, n, end) \/ View' = View)
      BY <2>1, <2>2, SegmentFlow
    <2> QED
      BY <2>3 DEF Stream!Some
  <1> QED
    BY <1>1, <1>2, <1>3, <1>4, <1>5, <1>6, <1>7, <1>8

LEMMA DeliverFlow ==
    ASSUME IInv, AccInv, MailInv, FlowInv, Deliver
    PROVE  FlowInv' /\ View' = View
  <1>1. PICK c, x : c = C /\ x = X
    OBVIOUS
  <1>2. /\ todo # <<>> /\ Head(todo).op = "deliver"
        /\ fatal' = [fatal EXCEPT ![c] = FALSE]
        /\ UNCHANGED <<pcb, live, sent, read, ftp>>
        /\ \/ /\ ~Full(c) /\ mbox' = [mbox EXCEPT ![c] = Append(@, x)]
              /\ todo' = ApiEvent(c, 1) \o Tail(todo) /\ refused' = refused
           \/ /\ Full(c) /\ refused' = IF x = End THEN refused ELSE [refused EXCEPT ![c] = x]
              /\ todo' = Tail(todo) /\ mbox' = mbox
    BY <1>1 DEF Deliver, First, task
  <1>3. /\ c \in live /\ c \in Conns /\ c \in Netconns /\ x \in Int /\ pcb[c] # "none"
        /\ SocketTypes /\ PcbInv /\ DeliverInv /\ GhostInv /\ live \subseteq Conns
    <2>1. c \in live /\ c \in Netconns /\ x \in Int /\ pcb[c] # "none"
      BY <1>1, <1>2, HeadCounts
    <2> QED
      BY <2>1 DEF IInv, AccInv, AcceptInv, FlowInv
  <1>4. /\ mbox[c] \in Seq(Int \cup Conns) /\ read[c] \in Nat /\ sent[c] \in Int
        /\ fatal'[c] = FALSE /\ \A d \in Conns \ {c} : fatal'[d] = fatal[d]
    BY <1>2, <1>3 DEF SocketTypes, PcbInv, GhostInv
  <1>5. PICK a : /\ Quiet(a) /\ (\A o \in ToSet(a) : o.op # "post" /\ ~Clears(o))
               /\ todo' = a \o Tail(todo)
    <2>1. Quiet(ApiEvent(c, 1)) /\ \A o \in ToSet(ApiEvent(c, 1)) : o.op # "post" /\ ~Clears(o)
      BY <1>3, EventsQuiet DEF Clears
    <2>2. Quiet(<<>>) /\ ToSet(<<>>) = {}
      BY OrderedEmpty DEF Quiet
    <2>3. <<>> \o Tail(todo) = Tail(todo)
      <3>1. Tail(todo) \in Seq(Ops)
        BY <1>2, HeadCounts
      <3> QED
        BY <3>1, ConcatEmptySeq
    <2> QED
      BY <1>2, <2>1, <2>2, <2>3
  <1>6. IF x = End THEN pcb[c] = "ended" /\ (refused[c] # 0 => Full(c))
        ELSE x = sent[c] /\ refused[c] = 0 /\ ~Clearing(c)
    <2>1. PICK k \in 1 .. Len(todo) : k = 1 /\ todo[k] = Head(todo)
      <3>1. PICK t \in Seq(Ops) : t = todo /\ t # <<>>
        BY <1>2, HeadCounts
      <3>2. 1 \in 1 .. Len(t) /\ t[1] = Head(t)
        BY <3>1, EmptySeq
      <3> QED
        BY <3>1, <3>2
    <2> QED
      BY <1>1, <1>2, <1>3, <2>1 DEF DeliverInv, C, X
  <1>7. \A d \in Conns : /\ d # c => refused'[d] = refused[d] /\ mbox'[d] = mbox[d]
                         /\ (refused[d] # 0 => Full(d)) => (refused'[d] # 0 => Full(d)')
    <2>1. \A d \in Conns : d # c => refused'[d] = refused[d] /\ mbox'[d] = mbox[d]
      BY <1>2, <1>3, ConnNetconn DEF SocketTypes
    <2>2. (refused[c] # 0 => Full(c)) => (refused'[c] # 0 => Full(c)')
      BY <1>2, <1>3 DEF Full
    <2> QED
      BY <2>1, <2>2 DEF Full
  <1>8. /\ DeliverInv'
        /\ \A d : Underway(d)' <=> refused'[d] # 0 /\ ~Clearing(d)
        /\ \A d : Underway(d) <=> (refused[d] # 0 /\ ~Clearing(d)) \/ (c = d /\ x # End)
    <2>1. /\ DeliverInv'
          /\ \A d : Clearing(d) <=> Clearing(d)' \/ (Clears(Head(todo)) /\ C = d)
          /\ \A d : Underway(d)' <=> Kept(d)'
          /\ \A d : Underway(d) <=> Kept(d) \/ (Head(todo).op = "deliver" /\ C = d /\ X # End)
      BY <1>2, <1>3, <1>5, <1>7, DeliverRest
    <2>2. ~Clears(Head(todo))
      BY <1>2 DEF Clears
    <2> QED
      BY <1>1, <1>2, <2>1, <2>2 DEF Kept
  <1>9. ~Deleting(c) => Flow(c)'
    <2> HAVE ~Deleting(c)
    <2>1. Flow(c)
      BY <1>3 DEF FlowInv
    <2>2. CASE /\ ~Full(c) /\ mbox' = [mbox EXCEPT ![c] = Append(@, x)] /\ refused' = refused
      <3>1. mbox'[c] = Append(mbox[c], x)
        BY <1>3, <2>2 DEF SocketTypes
      <3>2. /\ ~Underway(c)'
            /\ IF x = End THEN pcb[c] = "ended" /\ ~Underway(c) ELSE Underway(c) /\ x = sent[c]
        BY <1>6, <1>8, <2>2
      <3> QED
        BY <1>2, <1>3, <1>4, <2>1, <3>1, <3>2, FlowPut
    <2>3. CASE /\ Full(c) /\ refused' = IF x = End THEN refused ELSE [refused EXCEPT ![c] = x]
               /\ mbox' = mbox
      <3>1. IF x = End THEN refused'[c] = refused[c] ELSE refused'[c] = x
        BY <1>3, <2>3 DEF SocketTypes
      <3>2. Underway(c)' <=> Underway(c)
        BY <1>6, <1>8, <3>1 DEF End
      <3> QED
        BY <1>2, <1>4, <2>1, <2>3, <3>2, FlowKept
    <2> QED
      BY <1>2, <2>2, <2>3
  <1>10. \A d \in live : ~Deleting(d) => Flow(d)'
    <2> TAKE d \in live
    <2> HAVE ~Deleting(d)
    <2>1. CASE d # c
      <3>1. Flow(d) /\ d \in Conns \ {c}
        BY <1>3, <2>1 DEF FlowInv
      <3>2. Underway(d)' <=> Underway(d)
        BY <1>7, <1>8, <3>1
      <3> QED
        BY <1>2, <1>4, <1>7, <3>1, <3>2, FlowKept
    <2> QED
      BY <1>9, <2>1
  <1>11. GhostInv'
    <2>1. refused'[c] \in {0, sent[c]}
      <3>1. refused[c] \in {0, sent[c]}
        BY <1>3 DEF GhostInv
      <3>2. refused'[c] = refused[c] \/ (x # End /\ refused'[c] = x)
        BY <1>2, <1>3 DEF SocketTypes
      <3> QED
        BY <1>6, <3>1, <3>2
    <2> QED
      BY <1>2, <1>3, <1>7, <2>1 DEF GhostInv
  <1>12. View' = View /\ \A d : Deleting(d)' <=> Deleting(d)
    BY <1>2, ThreadView
  <1>13. Meets' => EndDue(ftp.c)'
    BY <1>2 DEF FlowInv, Meets, EndDue
  <1> QED
    BY <1>2, <1>8, <1>10, <1>11, <1>12, <1>13 DEF FlowInv

LEMMA PostFlow ==
    ASSUME IInv, AccInv, MailInv, FlowInv, Post
    PROVE  FlowInv' /\ View' = View
  <1>1. PICK c : c = C
    OBVIOUS
  <1>2. /\ todo # <<>> /\ Head(todo).op = "post"
        /\ mbox' = [mbox EXCEPT ![c] = Append(@, End)] /\ todo' = Tail(todo)
        /\ UNCHANGED <<pcb, live, sent, read, ftp, fatal, refused>>
    BY <1>1 DEF Post, First, ghosts, task
  <1>3. /\ c \in live /\ c \in Conns /\ c \in Netconns
        /\ SocketTypes /\ PcbInv /\ DeliverInv /\ GhostInv /\ live \subseteq Conns
    <2>1. c \in live /\ c \in Netconns
      BY <1>1, <1>2, HeadCounts
    <2> QED
      BY <2>1 DEF IInv, AccInv, AcceptInv, FlowInv
  <1>4. /\ mbox[c] \in Seq(Int \cup Conns) /\ read[c] \in Nat /\ sent[c] \in Int /\ End \in Int
    BY <1>2, <1>3 DEF SocketTypes, PcbInv, GhostInv, End
  <1>5. pcb[c] = "none" /\ Quiet(todo) /\ Quiet(todo') /\ ToSet(todo') \subseteq ToSet(todo)
    <2>1. PICK h : h = Head(todo) /\ h \in ToSet(todo) /\ ToSet(Tail(todo)) \subseteq ToSet(todo)
                   /\ Tail(todo) \in Seq(Ops)
      <3>1. ToSet(todo) = {Head(todo)} \cup ToSet(Tail(todo)) /\ Tail(todo) \in Seq(Ops)
        BY <1>2, OrderedTail, HeadCounts DEF IInv
      <3> QED
        BY <3>1
    <2>2. pcb[h.c] = "none" /\ Quiet(todo)
      BY <1>2, <1>3, <2>1 DEF DeliverInv
    <2> QED
      BY <1>1, <1>2, <2>1, <2>2 DEF Quiet, C
  <1>6. DeliverInv'
    BY <1>2, <1>3, <1>5, DeliverQuiet DEF DeliverInv
  <1>7. \A d : (Underway(d)' <=> Underway(d)) /\ (Underway(d) => refused[d] # 0)
    <2>1. ToSet(todo) = {Head(todo)} \cup ToSet(todo')
      BY <1>2, OrderedTail DEF IInv
    <2>2. \A d : Clearing(d)' <=> Clearing(d)
      BY <1>2, <2>1 DEF Clearing, Clears
    <2>3. \A d : (Underway(d) <=> Kept(d)) /\ (Underway(d)' <=> Kept(d)')
      BY <1>5, UnderwayQuiet
    <2> QED
      BY <1>2, <2>2, <2>3 DEF Kept
  <1>8. refused[c] = 0
    BY <1>3, <1>5 DEF PcbInv
  <1>9. ~Deleting(c) => Flow(c)'
    <2> HAVE ~Deleting(c)
    <2>1. Flow(c)
      BY <1>3 DEF FlowInv
    <2>2. mbox'[c] = Append(mbox[c], End)
      BY <1>2, <1>3 DEF SocketTypes
    <2>3. PICK x \in Int : x = End
      BY <1>4
    <2> QED
      BY <1>2, <1>4, <1>5, <1>7, <1>8, <2>1, <2>2, <2>3, FlowPut
  <1>10. \A d \in live : ~Deleting(d) => Flow(d)'
    <2> TAKE d \in live
    <2> HAVE ~Deleting(d)
    <2>1. CASE d # c
      <3>1. Flow(d) /\ mbox'[d] = mbox[d]
        BY <1>2, <1>3, <2>1 DEF FlowInv, SocketTypes
      <3> QED
        BY <1>2, <1>7, <3>1, FlowKept
    <2> QED
      BY <1>9, <2>1
  <1>11. GhostInv'
    BY <1>2, <1>3 DEF GhostInv
  <1>12. View' = View /\ \A d : Deleting(d)' <=> Deleting(d)
    BY <1>2, ThreadView
  <1>13. Meets' => EndDue(ftp.c)'
    BY <1>2 DEF FlowInv, Meets, EndDue
  <1> QED
    BY <1>2, <1>6, <1>10, <1>11, <1>12, <1>13 DEF FlowInv

\* The head of todo is done, and delivers nothing.
LEMMA RestFlow ==
    ASSUME IInv, AccInv, FlowInv, todo # <<>>, Head(todo).op # "deliver", ~Clears(Head(todo)),
           NEW a, Quiet(a), \A o \in ToSet(a) : o.op # "post" /\ ~Clears(o), todo' = a \o Tail(todo),
           UNCHANGED <<mbox, pcb, refused>>
    PROVE  DeliverInv' /\ \A d : Underway(d)' <=> Underway(d)
  <1>1. DeliverInv /\ \A c \in Conns : (refused[c] # 0 => Full(c)) => (refused'[c] # 0 => Full(c)')
    BY DEF FlowInv, Full
  <1>2. /\ DeliverInv'
        /\ \A c : Clearing(c) <=> Clearing(c)'
        /\ \A c : Underway(c)' <=> Kept(c)'
        /\ \A c : Underway(c) <=> Kept(c)
    BY <1>1, DeliverRest
  <1> QED
    BY <1>2 DEF Kept

\* Nothing comes before what is left.
LEMMA NothingBefore ==
    ASSUME IInv, todo # <<>>, todo' = Tail(todo)
    PROVE  /\ Quiet(<<>>) /\ ToSet(<<>>) = {} /\ \A o \in ToSet(<<>>) : o.op # "post" /\ ~Clears(o)
           /\ todo' = <<>> \o Tail(todo)
  <1>1. Quiet(<<>>) /\ ToSet(<<>>) = {}
    BY OrderedEmpty DEF Quiet
  <1>2. Tail(todo) \in Seq(Ops)
    BY OrderedTail DEF IInv, Ordered
  <1> QED
    BY <1>1, <1>2, ConcatEmptySeq

LEMMA CountFlow ==
    ASSUME IInv, AccInv, FlowInv, Count \/ Add \/ Scan
    PROVE  FlowInv' /\ View' = View
  <1>1. /\ todo # <<>> /\ Head(todo).op \in {"count", "add", "scan"}
        /\ UNCHANGED <<mbox, pcb, refused, sent, read, live, fatal, ftp>>
        /\ todo' = Tail(todo) \/ todo' = Callback(C, X) \o Tail(todo)
    BY DEF Count, Add, Scan, First, netconns, ghosts, task
  <1>2. PICK a : /\ Quiet(a) /\ (\A o \in ToSet(a) : o.op # "post" /\ ~Clears(o))
               /\ todo' = a \o Tail(todo)
    <2>1. CASE todo' = Tail(todo)
      BY <1>1, <2>1, NothingBefore
    <2>2. CASE todo' = Callback(C, X) \o Tail(todo)
      <3>1. C \in Netconns /\ X \in Int /\ SocketTypes
        BY <1>1, HeadCounts DEF IInv
      <3>2. Quiet(Callback(C, X)) /\ \A o \in ToSet(Callback(C, X)) : o.op # "post" /\ ~Clears(o)
        BY <3>1, EventsQuiet DEF Clears
      <3> QED
        BY <2>2, <3>2
    <2> QED
      BY <1>1, <2>1, <2>2
  <1>3. DeliverInv' /\ \A d : Underway(d)' <=> Underway(d)
    BY <1>1, <1>2, RestFlow DEF Clears
  <1>4. View' = View /\ \A d : Deleting(d)' <=> Deleting(d)
    BY <1>1, ThreadView
  <1>5. Meets' => EndDue(ftp'.c)
    BY <1>1 DEF FlowInv, Meets
  <1> QED
    BY <1>1, <1>3, <1>4, <1>5, FlowFrame

\* What was in the mailbox already is no longer kept, either.
LEMMA ClearFlow ==
    ASSUME IInv, AccInv, FlowInv, Clear
    PROVE  FlowInv' /\ View' = View
  <1>1. /\ todo # <<>> /\ Clears(Head(todo)) /\ Head(todo).op # "deliver"
        /\ UNCHANGED <<mbox, pcb, sent, read, live, fatal, ftp>>
        /\ refused' = [refused EXCEPT ![C] = 0]
        /\ todo' = Tail(todo)
    BY DEF Clear, First, Clears, ghosts, task
  <1>2. PICK a : /\ Quiet(a) /\ (\A o \in ToSet(a) : o.op # "post" /\ ~Clears(o))
                 /\ todo' = a \o Tail(todo)
    BY <1>1, NothingBefore
  <1>3. PICK c \in Conns : c = C
    BY <1>1, ThreadRest DEF Clears
  <1>4. refused'[c] = 0 /\ \A d : d # c => refused'[d] = refused[d]
    BY <1>1, <1>3 DEF IInv, SocketTypes
  <1>5. /\ DeliverInv
        /\ \A d \in Conns : (refused[d] # 0 => Full(d)) => (refused'[d] # 0 => Full(d)')
    BY <1>1, <1>4 DEF FlowInv, Full
  <1>6. /\ DeliverInv'
        /\ \A d : Clearing(d) <=> Clearing(d)' \/ C = d
        /\ \A d : Underway(d)' <=> Kept(d)'
        /\ \A d : Underway(d) <=> Kept(d)
    BY <1>1, <1>2, <1>5, DeliverRest
  <1>7. \A d : Underway(d)' <=> Underway(d)
    BY <1>3, <1>4, <1>6 DEF Kept
  <1>8. View' = View /\ \A d : Deleting(d)' <=> Deleting(d)
    BY <1>1, ThreadView
  <1>9. Meets' => EndDue(ftp'.c)
    BY <1>1 DEF FlowInv, Meets
  <1>10. \A d \in Conns : refused'[d] = refused[d] \/ refused'[d] = 0
    BY <1>3, <1>4
  <1> QED
    BY <1>1, <1>6, <1>7, <1>8, <1>9, <1>10, FlowFrame

\* The task is about to delete the connection it is with: it has been told of
\* the end, or leaves of its own accord.
LEMMA Departs ==
    ASSUME IInv, AccInv, FlowInv, ftp.c \in live, ftp'.c = ftp.c,
           \A d : ~Deleting(d), Deleting(ftp.c)',
           UNCHANGED <<pcb, sent, read, live>>, ~ftp'.some => EndDue(ftp.c)
    PROVE  Stream!Some
  <1>1. PICK c \in Conns : c = ftp.c /\ c \in live
    BY DEF AccInv, AcceptInv
  <1>2. sent[c] \in Int /\ read[c] \in Int
    BY <1>1 DEF IInv, SocketTypes, FlowInv, GhostInv
  <1>3. \A d \in Conns \ {c} : View'[d] = View[d]
    <2> TAKE d \in Conns \ {c}
    <2>1. ~Deleting(d)' /\ State(d)' = State(d)
      BY <1>1, StateValue DEF Deleting
    <2> QED
      BY <2>1, ViewKept
  <1>4. PICK st \in {"open", "ended", "gone"} : st = State(c) /\ st = State(c)'
    BY StateValue
  <1>5. PICK t \in {FALSE} : TRUE
    OBVIOUS
  <1>6. View[c] = Look(st, sent[c], read[c], t) /\ t \in BOOLEAN /\ ~t
    <2>1. Deleting(c) = FALSE
      BY DEF Deleting
    <2> QED
      BY <1>1, <1>4, <1>5, <2>1, ViewOf
  <1>7. Deleting(c)' = TRUE
    BY <1>1 DEF Deleting
  <1>8. CASE ftp'.some
    <2>1. View'[c] = Stream!Off
      BY <1>1, <1>7, <1>8, ViewOf
    <2>2. Stream!Leave(c)
      BY <1>2, <1>3, <1>6, <2>1, StreamSteps
    <2> QED
      BY <2>2 DEF Stream!Some
  <1>9. CASE ~ftp'.some
    <2>1. View'[c] = Look(st, sent[c], read[c], TRUE)
      BY <1>1, <1>4, <1>7, <1>9, ViewOf
    <2>2. st = "gone" \/ (st = "ended" /\ read[c] = sent[c])
      BY <1>1, <1>4, <1>9, StateValue DEF EndDue
    <2>3. Stream!Tell(c)
      BY <1>2, <1>3, <1>6, <2>1, <2>2, StreamSteps
    <2> QED
      BY <2>3 DEF Stream!Some
  <1> QED
    BY <1>8, <1>9

LEMMA DoneFlow ==
    ASSUME IInv, AccInv, FlowInv, Done
    PROVE  FlowInv' /\ (Stream!Some \/ View' = View)
  <1>1. /\ todo # <<>> /\ Head(todo).op = "done" /\ todo' = Tail(todo)
        /\ ftp' = [ftp EXCEPT !.pc = ftp.then, !.then = None]
        /\ UNCHANGED <<mbox, pcb, refused, sent, read, live, fatal>>
    BY DEF Done, First, netconns, ghosts
  <1>2. ftp.pc = "asked" /\ ftp.then \in Answered /\ ftp \in TaskRecord
    <2>1. Head(todo) \in ToSet(todo)
      BY <1>1, OrderedTail DEF IInv
    <2>2. ftp.pc = "asked"
      BY <1>1, <2>1 DEF IInv, AnswerInv, NoAnswer
    <2> QED
      BY <2>2, TaskTypesUnfold DEF IInv, TaskInv
  <1>3. ftp'.pc = ftp.then /\ ftp'.c = ftp.c /\ ftp'.some = ftp.some
    BY <1>1, <1>2 DEF TaskRecord
  <1>4. ~Meets'
    BY <1>2, <1>3 DEF Meets, Answered
  <1>5. DeliverInv' /\ \A d : Underway(d)' <=> Underway(d)
    <2>1. PICK a : /\ Quiet(a) /\ (\A o \in ToSet(a) : o.op # "post" /\ ~Clears(o))
                   /\ todo' = a \o Tail(todo)
      BY <1>1, NothingBefore
    <2> QED
      BY <1>1, <2>1, RestFlow DEF Clears
  <1>6. \A d : Deleting(d) => Deleting(d)'
    BY <1>2, <1>3 DEF Deleting
  <1>7. FlowInv'
    BY <1>1, <1>4, <1>5, <1>6, FlowFrame
  <1>8. CASE ftp.then = "delete"
    <2>1. Meets /\ \A d : ~Deleting(d)
      BY <1>2, <1>8 DEF Meets, Deleting
    <2>2. ftp.c \in live /\ EndDue(ftp.c)
      BY <2>1, MeetsLive DEF FlowInv
    <2>3. Deleting(ftp.c)'
      BY <1>3, <1>8 DEF Deleting
    <2> QED
      BY <1>1, <1>3, <1>7, <2>1, <2>2, <2>3, Departs
  <1>9. CASE ftp.then # "delete"
    <2>1. \A d : Deleting(d)' <=> Deleting(d)
      BY <1>2, <1>3, <1>9 DEF Deleting, Answered
    <2>2. \A d \in Conns : View'[d] = View[d]
      <3> TAKE d \in Conns
      <3>1. State(d)' = State(d)
        BY <1>1, StateValue
      <3> QED
        BY <1>1, <1>3, <2>1, <3>1, ViewKept
    <2> QED
      BY <1>7, <2>2, ViewSame
  <1> QED
    BY <1>8, <1>9

LEMMA ThreadFlow ==
    ASSUME IInv, AccInv, MailInv, FlowInv, Thread
    PROVE  FlowInv' /\ (Stream!Some \/ View' = View)
  <1>1. CASE ApiCall
    BY <1>1, ApiCallFlow
  <1>2. CASE Deliver
    BY <1>2, DeliverFlow
  <1>3. CASE Post
    BY <1>3, PostFlow
  <1>4. CASE Count \/ Add \/ Scan
    BY <1>4, CountFlow
  <1>5. CASE Done
    BY <1>5, DoneFlow
  <1>6. CASE Clear
    BY <1>6, ClearFlow
  <1> QED
    BY <1>1, <1>2, <1>3, <1>4, <1>5, <1>6 DEF Thread

\* A step of the task that takes nothing and tells nothing.
LEMMA TaskFlow ==
    ASSUME IInv, AccInv, FlowInv,
           UNCHANGED <<mbox, pcb, refused, sent, read, live, todo, fatal>>,
           \A d : Deleting(d)' <=> Deleting(d), \A d : Deleting(d) => ftp'.some = ftp.some,
           Meets' => EndDue(ftp'.c)
    PROVE  FlowInv' /\ View' = View
  <1>1. DeliverInv' /\ \A d : Underway(d)' <=> Underway(d)
    BY DEF FlowInv, DeliverInv, Full, Quiet, Underway, Kept, Clearing
  <1>2. FlowInv'
    BY <1>1, FlowFrame
  <1>3. \A d \in Conns : View'[d] = View[d]
    <2> TAKE d \in Conns
    <2>1. State(d)' = State(d)
      BY StateValue
    <2> QED
      BY <2>1, ViewKept
  <1> QED
    BY <1>2, <1>3, ViewSame

\* A step of the task after which it deletes the connection.
LEMMA DepartsFlow ==
    ASSUME IInv, AccInv, FlowInv,
           UNCHANGED <<mbox, pcb, refused, sent, read, live, todo>>,
           \A d \in live : fatal'[d] => fatal[d] \/ d = ftp.c,
           ftp.c \in live, ftp'.c = ftp.c, \A d : ~Deleting(d), ftp'.pc = "delete",
           ~ftp'.some => EndDue(ftp.c)
    PROVE  FlowInv' /\ Stream!Some
  <1>1. DeliverInv' /\ \A d : Underway(d)' <=> Underway(d)
    BY DEF FlowInv, DeliverInv, Full, Quiet, Underway, Kept, Clearing
  <1>2. Deleting(ftp.c)' /\ ~Meets'
    BY DEF Deleting, Meets
  <1>3. \A d \in live : d = ftp.c => Deleting(d)'
    BY DEF Deleting
  <1>4. FlowInv'
    BY <1>1, <1>2, <1>3, FlowFrame
  <1> QED
    BY <1>2, <1>4, Departs

\* Where the thread waits for nothing the task has, it delivers nothing.
LEMMA WaitsQuiet ==
    ASSUME IInv, FlowInv, Waits, held = {}
    PROVE  Quiet(todo)
  <1>1. CASE todo = <<>>
    BY <1>1, UnderwayQuiet
  <1>2. CASE First("post")
    <2>1. Head(todo) \in ToSet(todo) /\ Head(todo).op = "post"
      BY <1>2, OrderedTail DEF First, IInv
    <2> QED
      BY <2>1 DEF FlowInv, DeliverInv
  <1> QED
    BY <1>1, <1>2 DEF Waits, Idle

LEMMA FetchFlow ==
    ASSUME IInv, AccInv, FlowInv, Fetch
    PROVE  FlowInv' /\ (Stream!Some \/ View' = View)
  <1>1. PICK c : c = ftp.c
    OBVIOUS
  <1>2. /\ ftp.pc = "fetch" /\ Waits /\ mbox[c] # <<>>
        /\ mbox' = [mbox EXCEPT ![c] = Tail(@)]
        /\ ftp' = [ftp EXCEPT !.pc = "minus", !.m = Head(mbox[c])]
        /\ read' = IF ftp.i # 0 /\ Head(mbox[c]) # End
                   THEN [read EXCEPT ![c] = Head(mbox[c])] ELSE read
        /\ UNCHANGED <<fatal, pcb, refused, live, sent, todo>>
    BY <1>1 DEF Fetch, At, tcpip
  <1>3. SocketTypes /\ SocketInv /\ AcceptInv /\ GhostInv /\ ftp \in TaskRecord /\ held = {}
    BY <1>2, TaskTypesUnfold DEF IInv, AccInv, FlowInv, HeldAt, SelectHeld, SocketHeld
  <1>4. /\ ftp'.pc = "minus" /\ ftp'.m = Head(mbox[c]) /\ ftp'.c = c /\ ftp'.i = ftp.i
        /\ ftp'.some = ftp.some
    BY <1>1, <1>2, <1>3 DEF TaskRecord
  <1>5. c \in live \cup {Listener} /\ (ftp.i = 0 => c = Listener) /\ (ftp.i # 0 => c \in live)
    <2>1. HasSocket
      BY <1>2 DEF HasSocket
    <2> QED
      BY <1>1, <1>3, <2>1, TaskConn DEF SocketInv
  <1>6. live \subseteq Conns /\ Conns \subseteq Netconns /\ Listener \in Netconns /\ Listener \notin Conns
    BY <1>3, ConnNetconn, SocketsAssumption DEF AcceptInv
  <1>7. /\ Quiet(todo) /\ Quiet(todo')
        /\ \A d : Underway(d)' <=> Underway(d)
    BY <1>2, <1>3, WaitsQuiet DEF Quiet, Underway, Kept, Clearing
  <1>8. DeliverInv'
    BY <1>2, <1>7, DeliverQuiet DEF FlowInv, DeliverInv
  <1>9. \A d : ~Deleting(d) /\ ~Deleting(d)'
    BY <1>2, <1>4 DEF Deleting
  <1>10. \A d \in Conns : d # c => mbox'[d] = mbox[d] /\ read'[d] = read[d]
    BY <1>2, <1>3, <1>6 DEF SocketTypes, GhostInv
  <1>11. \A d \in live : d # c => Flow(d)'
    <2> TAKE d \in live
    <2> HAVE d # c
    <2>1. Flow(d) /\ mbox'[d] = mbox[d] /\ read'[d] = read[d]
      BY <1>6, <1>9, <1>10 DEF FlowInv
    <2> QED
      BY <1>2, <1>7, <2>1, FlowKept
  <1>12. \A d \in Conns : d # c => View'[d] = View[d]
    <2> TAKE d \in Conns
    <2> HAVE d # c
    <2>1. State(d)' = State(d)
      BY <1>2, StateValue
    <2> QED
      BY <1>2, <1>9, <1>10, <2>1, ViewKept
  <1>13. CASE ftp.i = 0
    <2>1. read' = read /\ c = Listener /\ ~Meets'
      BY <1>2, <1>4, <1>5, <1>13 DEF Meets
    <2>2. GhostInv'
      BY <1>2, <1>3, <2>1 DEF GhostInv
    <2>3. FlowInv'
      BY <1>2, <1>6, <1>8, <1>11, <2>1, <2>2 DEF FlowInv
    <2>4. View' = View
      BY <1>6, <1>12, <2>1, ViewSame
    <2> QED
      BY <2>3, <2>4
  <1>14. CASE ftp.i # 0
    <2>1. /\ c \in live /\ c \in Conns /\ Flow(c) /\ mbox[c] \in Seq(Int \cup Conns)
          /\ read[c] \in Nat /\ sent[c] \in Int
      BY <1>3, <1>5, <1>6, <1>9, <1>14 DEF FlowInv, SocketTypes, GhostInv
    <2>2. PICK d \in 0 .. Len(mbox[c]) : Following(c, d)
      BY <2>1 DEF Flow
    <2>3. PICK q \in Seq(Int \cup Conns), p \in Seq(Int \cup Conns), n \in Nat \ {0} :
             /\ q = mbox[c] /\ p = Tail(q) /\ Len(q) = n /\ Len(p) = n - 1
             /\ Head(q) = q[1] /\ \A k \in 1 .. n - 1 : p[k] = q[k + 1]
      <3>1. PICK q \in Seq(Int \cup Conns) : q = mbox[c] /\ q # <<>>
        BY <1>2, <2>1
      <3>2. /\ Len(q) \in Nat \ {0} /\ Head(q) = q[1] /\ Tail(q) \in Seq(Int \cup Conns)
            /\ Len(Tail(q)) = Len(q) - 1 /\ \A k \in 1 .. Len(q) - 1 : Tail(q)[k] = q[k + 1]
        BY <3>1, EmptySeq, HeadTailProperties
      <3> QED
        BY <3>1, <3>2
    <2>4. /\ d \in Nat /\ d <= n
          /\ \A k \in 1 .. n : q[k] = IF k <= d THEN read[c] + k ELSE End
          /\ pcb[c] = "none" => read[c] + d <= sent[c]
          /\ pcb[c] # "none" => sent[c] = read[c] + d + (IF Underway(c) THEN 1 ELSE 0)
          /\ d < n => pcb[c] = "none" \/ (pcb[c] = "ended" /\ ~Underway(c))
      BY <2>2, <2>3 DEF Following
    <2>5. mbox'[c] = p /\ 1 \in 1 .. n
      BY <1>2, <1>3, <1>6, <2>1, <2>3 DEF SocketTypes
    <2>6. CASE Head(q) = End
      <3>1. d = 0
        <4>1. d >= 1 => q[1] = read[c] + 1
          BY <2>4, <2>5
        <4>2. read[c] + 1 # End
          BY <2>1 DEF End
        <4> QED
          BY <2>3, <2>4, <2>6, <4>1, <4>2
      <3>2. read' = read
        BY <1>2, <2>3, <2>6
      <3>3. /\ EndDue(c)
            /\ pcb[c] = "none" => read[c] + 0 <= sent[c]
            /\ pcb[c] # "none" => pcb[c] = "ended" /\ ~Underway(c) /\ sent[c] = read[c] + 0 + 0
        <4>1. /\ pcb[c] = "none" => read[c] + 0 <= sent[c]
              /\ pcb[c] # "none" => pcb[c] = "ended" /\ ~Underway(c) /\ sent[c] = read[c] + 0 + 0
          BY <2>4, <3>1
        <4> QED
          BY <2>1, <4>1 DEF EndDue
      <3>4. \A k \in 1 .. n - 1 : p[k] = End
        <4> TAKE k \in 1 .. n - 1
        <4>1. k + 1 \in 1 .. n /\ ~(k + 1 <= 0)
          OBVIOUS
        <4> QED
          BY <2>3, <2>4, <3>1, <4>1
      <3>5. \A k \in 1 .. Len(p) : p[k] = IF k <= 0 THEN read[c] + k ELSE End
        <4> TAKE k \in 1 .. Len(p)
        <4>1. k \in 1 .. n - 1 /\ ~(k <= 0)
          BY <2>3
        <4> QED
          BY <3>4, <4>1
      <3>6. Following(c, 0)'
        BY <1>2, <1>7, <2>5, <3>2, <3>3, <3>5 DEF Following
      <3>7. Flow(c)'
        <4>1. 0 \in 0 .. Len(p)
          BY <2>3
        <4> QED
          BY <1>2, <2>1, <2>5, <3>2, <3>6, <4>1 DEF Flow, EndDue
      <3>8. GhostInv'
        BY <1>2, <1>3, <3>2 DEF GhostInv
      <3>9. EndDue(ftp.c)'
        BY <1>2, <1>4, <3>2, <3>3 DEF EndDue
      <3>10. FlowInv'
        BY <1>2, <1>8, <1>11, <3>7, <3>8, <3>9 DEF FlowInv
      <3>11. View'[c] = View[c]
        <4>1. State(c)' = State(c)
          BY <1>2, StateValue
        <4> QED
          BY <1>2, <1>9, <2>1, <3>2, <4>1, ViewKept
      <3> QED
        BY <1>12, <3>10, <3>11, ViewSame
    <2>7. CASE Head(q) # End
      <3>1. d >= 1 /\ Head(q) = read[c] + 1
        BY <2>3, <2>4, <2>5, <2>7
      <3>2. read'[c] = read[c] + 1 /\ read' \in [Conns -> Nat]
        BY <1>2, <1>3, <1>14, <2>1, <2>3, <2>7, <3>1 DEF GhostInv
      <3>3. PICK e \in Nat : e = d - 1 /\ e \in 0 .. n - 1
        BY <2>4, <3>1
      <3>4. /\ pcb[c] = "none" => read'[c] + e <= sent[c]
            /\ pcb[c] # "none" => sent[c] = read'[c] + e + (IF Underway(c) THEN 1 ELSE 0)
            /\ e < n - 1 => d < n
        <4>1. PICK u \in {0, 1} : u = IF Underway(c) THEN 1 ELSE 0
          OBVIOUS
        <4>2. read[c] + d = read'[c] + e /\ read[c] + d + u = read'[c] + e + u
          <5>1. PICK r \in Nat, z \in Nat : r = read[c] /\ z = read'[c] /\ z = r + 1
            BY <2>1, <3>2
          <5>2. d \in Nat /\ d = e + 1
            BY <2>4, <3>3
          <5>3. r + (e + 1) = (r + 1) + e
            OBVIOUS
          <5> QED
            BY <5>1, <5>2, <5>3
        <4> QED
          BY <2>4, <3>3, <4>1, <4>2
      <3>5. \A k \in 1 .. n - 1 : p[k] = IF k <= e THEN read'[c] + k ELSE End
        <4> TAKE k \in 1 .. n - 1
        <4>1. k + 1 \in 1 .. n /\ (k + 1 <= d <=> k <= e)
          BY <2>4, <3>3
        <4>2. read[c] + (k + 1) = read'[c] + k
          <5>1. PICK r \in Nat, z \in Nat : r = read[c] /\ z = read'[c] /\ z = r + 1
            BY <2>1, <3>2
          <5>2. r + (k + 1) = z + k
            BY <5>1
          <5> QED
            BY <5>1, <5>2
        <4> QED
          BY <2>3, <2>4, <4>1, <4>2
      <3>6. Following(c, e)'
        BY <1>2, <1>7, <2>3, <2>4, <2>5, <3>4, <3>5 DEF Following
      <3>7. ~EndDue(c) \/ pcb[c] = "none"
        BY <2>1, <2>4, <3>1 DEF EndDue
      <3>8. Flow(c)'
        <4>1. e \in 0 .. Len(p)
          BY <2>3, <3>3
        <4> QED
          BY <1>2, <2>1, <2>5, <3>6, <3>7, <4>1 DEF Flow, EndDue
      <3>9. GhostInv'
        BY <1>2, <1>3, <1>10, <2>1, <3>2 DEF GhostInv
      <3>10. ~Meets'
        BY <1>4, <2>3, <2>7 DEF Meets
      <3>11. FlowInv'
        BY <1>2, <1>8, <1>11, <3>8, <3>9, <3>10 DEF FlowInv
      <3>12. Stream!Read(c)
        <4>1. PICK st : st = State(c) /\ st = State(c)'
          BY <1>2, StateValue
        <4>2. PICK t \in {FALSE} : TRUE
          OBVIOUS
        <4>3. /\ View[c] = Look(st, sent[c], read[c], t)
              /\ View'[c] = Look(st, sent[c], read[c] + 1, t)
          <5>1. Deleting(c) = FALSE /\ Deleting(c)' = FALSE
            BY <1>9 DEF Deleting
          <5> QED
            BY <1>2, <2>1, <3>2, <4>1, <4>2, <5>1, ViewOf
        <4>4. read[c] < sent[c]
          BY <2>1, <2>4, <3>1
        <4>5. \A b \in Conns \ {c} : View'[b] = View[b]
          BY <1>12
        <4>6. PICK r \in Int, s \in Int : r = read[c] /\ s = sent[c]
          BY <2>1
        <4>7. /\ c \in Conns /\ t \in BOOLEAN /\ ~t /\ r < s
              /\ View[c] = Look(st, s, r, t) /\ View'[c] = Look(st, s, r + 1, t)
          BY <2>1, <4>2, <4>3, <4>4, <4>6
        <4> QED
          BY <4>5, <4>7, StreamSteps
      <3> QED
        BY <2>1, <3>11, <3>12 DEF Stream!Some
    <2> QED
      BY <2>6, <2>7
  <1> QED
    BY <1>13, <1>14

LEMMA FreeFlow ==
    ASSUME IInv, AccInv, FlowInv, Free
    PROVE  FlowInv' /\ (Stream!Some \/ View' = View)
  <1>1. PICK c : c = ftp.c
    OBVIOUS
  <1>2. /\ ftp.pc = "free" /\ Waits
        /\ mbox' = [mbox EXCEPT ![c] = <<>>] /\ live' = live \ {c}
        /\ sent' = [sent EXCEPT ![c] = 0] /\ read' = [read EXCEPT ![c] = 0]
        /\ fatal' = [fatal EXCEPT ![c] = FALSE]
        /\ UNCHANGED <<pcb, refused, todo>>
        /\ ftp'.pc \in {"close", "serve"}
    <2>1. ftp \in TaskRecord
      BY TaskTypesUnfold DEF IInv
    <2>2. ftp'.pc \in {"close", "serve"}
      BY <2>1 DEF Free, Goto, Return, Start, TaskRecord
    <2> QED
      BY <1>1, <2>2 DEF Free, At, tcpip
  <1>3. SocketTypes /\ PcbInv /\ AcceptInv /\ GhostInv /\ held = {} /\ api = None /\ closing = {}
    BY <1>2, TaskTypesUnfold
    DEF IInv, AnswerInv, AccInv, FlowInv, HeldAt, SelectHeld, SocketHeld
  <1>4. c \in live /\ c \in Conns /\ live \subseteq Conns /\ Conns \subseteq Netconns
    <2>1. Returning
      BY <1>2 DEF Returning, Going
    <2> QED
      BY <1>1, <1>3, <2>1, TaskConn, ConnNetconn DEF AccInv, AcceptInv
  <1>5. pcb[c] = "none" /\ refused[c] = 0
    <2>1. pcb[c] = "none"
      BY <1>1, <1>2, <1>3 DEF AccInv, CloseInv, Going
    <2> QED
      BY <1>3, <1>4, <2>1 DEF PcbInv
  <1>6. /\ \A d \in Conns : d # c => /\ mbox'[d] = mbox[d] /\ sent'[d] = sent[d]
                                     /\ read'[d] = read[d] /\ fatal'[d] = fatal[d]
        /\ sent'[c] = 0 /\ read'[c] = 0 /\ read' \in [Conns -> Nat]
    BY <1>2, <1>3, <1>4 DEF SocketTypes, PcbInv, GhostInv
  <1>7. /\ \A d : Deleting(d) <=> d = c
        /\ \A d : ~Deleting(d)'
        /\ ~Meets'
    BY <1>1, <1>2 DEF Deleting, Meets
  <1>8. Quiet(todo) /\ Quiet(todo') /\ \A d : Underway(d)' <=> Underway(d)
    BY <1>2, <1>3, WaitsQuiet DEF Quiet, Underway, Kept, Clearing
  <1>9. DeliverInv'
    BY <1>2, <1>8, DeliverQuiet DEF FlowInv, DeliverInv
  <1>10. \A d \in live' : Flow(d)'
    <2> TAKE d \in live'
    <2>1. d \in Conns /\ d # c /\ Flow(d)
      BY <1>2, <1>4, <1>7 DEF FlowInv
    <2> QED
      BY <1>2, <1>6, <1>8, <2>1, FlowKept
  <1>11. GhostInv'
    BY <1>2, <1>3, <1>5, <1>6 DEF GhostInv
  <1>12. FlowInv'
    BY <1>7, <1>9, <1>10, <1>11 DEF FlowInv
  <1>13. \A d \in Conns : d # c => View'[d] = View[d]
    <2> TAKE d \in Conns
    <2> HAVE d # c
    <2>1. State(d)' = State(d)
      BY <1>2, StateValue
    <2> QED
      BY <1>2, <1>6, <1>7, <2>1, ViewKept
  <1>14. View'[c] = Stream!Off
    BY <1>2, <1>4, ViewOf
  <1>15. CASE ftp.some
    <2>1. View[c] = Stream!Off
      BY <1>4, <1>7, <1>15, ViewOf
    <2> QED
      BY <1>12, <1>13, <1>14, <2>1, ViewSame
  <1>16. CASE ~ftp.some
    <2>1. PICK st \in {"gone"} : st = State(c)
      BY <1>5, StateValue
    <2>2. PICK t \in {TRUE} : t = Deleting(c)
      BY <1>7 DEF Deleting
    <2>3. PICK r \in Int, s \in Int : r = read[c] /\ s = sent[c]
      BY <1>3, <1>4 DEF SocketTypes, GhostInv
    <2>4. View[c] = Look(st, s, r, t) /\ t \in BOOLEAN /\ t
      BY <1>4, <1>16, <2>1, <2>2, <2>3, ViewOf
    <2>5. \A d \in Conns \ {c} : View'[d] = View[d]
      BY <1>13
    <2>6. Stream!Close(c)
      BY <1>4, <1>14, <2>3, <2>4, <2>5, StreamSteps
    <2> QED
      BY <1>4, <1>12, <2>6 DEF Stream!Some
  <1> QED
    BY <1>15, <1>16

\* The task tells the end, or returns what it has.
LEMMA ToldFlow ==
    ASSUME IInv, AccInv, FlowInv, 
           \/ Receive /\ fatal[ftp.c] /\ ~lastdata[ftp.i] /\ Told
           \/ Ended
    PROVE  FlowInv' /\ (Stream!Some \/ View' = View)
  <1>1. /\ ftp.pc \in {"receive", "ended"} /\ ftp \in TaskRecord
        /\ UNCHANGED <<mbox, pcb, refused, sent, read, live, todo>>
        /\ Told
    BY TaskTypesUnfold DEF Receive, Ended, At, IInv, netconns, ghosts, tcpip
  <1>2. ftp.c \in live /\ \A d : ~Deleting(d)
    <2>1. HasSocket /\ ftp.i # 0
      BY <1>1 DEF HasSocket, IInv, TaskInv
    <2>2. \A d : ~Deleting(d)
      BY <1>1 DEF Deleting
    <2> QED
      BY <2>1, <2>2 DEF AccInv, SocketInv
  <1>3. EndDue(ftp.c)
    <2>1. CASE Ended
      <3>1. Meets
        BY <2>1 DEF Ended, At, Meets
      <3> QED
        BY <3>1 DEF FlowInv
    <2>2. CASE Receive /\ fatal[ftp.c] /\ ~lastdata[ftp.i] /\ Told
      <3>1. Flow(ftp.c)
        BY <1>2 DEF FlowInv
      <3> QED
        BY <2>2, <3>1 DEF Flow
    <2> QED
      BY <2>1, <2>2
  <1>4. \A d \in live : fatal'[d] => fatal[d] \/ d = ftp.c
    <2>1. fatal' = fatal \/ fatal' = [fatal EXCEPT ![ftp.c] = TRUE]
      BY DEF Receive, Ended, netconns
    <2>2. fatal \in [Conns -> BOOLEAN] /\ live \subseteq Conns
      BY DEF AccInv, PcbInv, AcceptInv
    <2> QED
      BY <2>1, <2>2
  <1>5. CASE ftp.some /\ Return
    <2>1. ftp'.pc = "serve"
      BY <1>5 DEF Return, Start
    <2>2. (\A d : ~Deleting(d)') /\ ~Meets'
      BY <2>1 DEF Deleting, Meets
    <2>3. DeliverInv' /\ \A d : Underway(d)' <=> Underway(d)
      BY <1>1 DEF FlowInv, DeliverInv, Full, Quiet, Underway, Kept, Clearing
    <2>4. FlowInv'
      BY <1>1, <1>2, <1>3, <1>4, <2>2, <2>3, FlowFrame
    <2>5. \A d \in Conns : View'[d] = View[d]
      <3> TAKE d \in Conns
      <3>1. State(d)' = State(d)
        BY <1>1, StateValue
      <3> QED
        BY <1>1, <1>2, <2>2, <3>1, ViewKept
    <2> QED
      BY <2>4, <2>5, ViewSame
  <1>6. CASE ~ftp.some /\ ftp' = [ftp EXCEPT !.pc = "delete", !.m = None]
    <2>1. ftp'.pc = "delete" /\ ftp'.c = ftp.c
      BY <1>1, <1>6 DEF TaskRecord
    <2> QED
      BY <1>1, <1>2, <1>3, <1>4, <2>1, DepartsFlow
  <1> QED
    BY <1>1, <1>5, <1>6 DEF Told

LEMMA CopyFlow ==
    ASSUME IInv, AccInv, FlowInv, NEW more \in BOOLEAN, Copy(more)
    PROVE  FlowInv' /\ (Stream!Some \/ View' = View)
  <1>1. /\ ftp.pc = "copy" /\ ftp \in TaskRecord
        /\ UNCHANGED <<mbox, pcb, refused, sent, read, live, todo, fatal>>
    BY TaskTypesUnfold DEF Copy, At, IInv, netconns, ghosts, tcpip
  <1>2. ftp.c \in live /\ \A d : ~Deleting(d)
    <2>1. HasSocket /\ ftp.i # 0
      BY <1>1 DEF HasSocket, IInv, TaskInv, Going
    <2>2. \A d : ~Deleting(d)
      BY <1>1 DEF Deleting
    <2> QED
      BY <2>1, <2>2 DEF AccInv, SocketInv
  <1>3. CASE Quit
    <2>1. ftp'.pc = "delete" /\ ftp'.c = ftp.c /\ ftp'.some
      BY <1>1, <1>3 DEF TaskRecord, Quit
    <2> QED
      BY <1>1, <1>2, <2>1, DepartsFlow
  <1>4. CASE ~Quit
    <2>1. ftp'.pc \in {"serve", "receive"}
      <3>1. Return \/ ftp' = [ftp EXCEPT !.pc = "receive", !.some = TRUE]
        BY <1>4 DEF Copy
      <3>2. Start.pc = "serve"
        BY DEF Start
      <3> QED
        BY <1>1, <3>1, <3>2 DEF Return, TaskRecord
    <2>2. (\A d : ~Deleting(d)') /\ ~Meets'
      BY <2>1 DEF Deleting, Meets
    <2> QED
      BY <1>1, <1>2, <2>2, TaskFlow
  <1> QED
    BY <1>3, <1>4

\* Where the task has nothing to delete and nothing to tell.
Neutral == {"serve", "select", "scan", "list", "sleep", "unlist", "unlink", "rescan",
            "fetch", "taken", "peer", "alloc", "slot", "accept", "hand over", "receive", "copy",
            "close", "closed"}

LEMMA NeutralFlow ==
    ASSUME IInv, AccInv, FlowInv, ftp.pc \in Neutral \cup {"less"}, ftp'.pc \in Neutral,
           UNCHANGED <<mbox, pcb, refused, sent, read, live, todo, fatal>>
    PROVE  FlowInv' /\ View' = View
  <1>1. (\A d : ~Deleting(d) /\ ~Deleting(d)') /\ ~Meets'
    BY DEF Neutral, Deleting, Meets
  <1> QED
    BY <1>1, TaskFlow

LEMMA SelectFlow ==
    ASSUME IInv, AccInv, FlowInv,
           SelectLock \/ SelectScan \/ SelectList \/ SelectWake \/ SelectRelock
           \/ SelectUnlink \/ SelectRescan \/ Serve
    PROVE  FlowInv' /\ View' = View
  <1>1. ftp.pc \in Neutral /\ ftp \in TaskRecord
        /\ UNCHANGED <<mbox, pcb, refused, sent, read, live, todo, fatal>>
    BY TaskTypesUnfold
    DEF SelectLock, SelectScan, SelectList, SelectWake, SelectRelock, SelectUnlink, SelectRescan,
        Serve, At, Neutral, IInv, netconns, ghosts, tcpip
  <1>2. ftp'.pc \in Neutral
    <2>1. \/ Return \/ \E pc \in {"select", "scan", "list", "sleep", "unlist", "unlink", "rescan"} : Goto(pc)
          \/ \E i \in ready : ftp' = [ftp EXCEPT !.pc = IF i = 0 THEN "fetch" ELSE "receive",
                                                 !.i = i, !.c = conn[i], !.some = FALSE]
      BY DEF SelectLock, SelectScan, SelectList, SelectWake, SelectRelock, SelectUnlink, SelectRescan, Serve
    <2>2. CASE Return
      BY <2>2 DEF Return, Start, Neutral
    <2>3. CASE \E pc \in {"select", "scan", "list", "sleep", "unlist", "unlink", "rescan"} : Goto(pc)
      BY <1>1, <2>3 DEF Goto, TaskRecord, Neutral
    <2>4. CASE \E i \in ready : ftp' = [ftp EXCEPT !.pc = IF i = 0 THEN "fetch" ELSE "receive",
                                                   !.i = i, !.c = conn[i], !.some = FALSE]
      BY <1>1, <2>4 DEF TaskRecord, Neutral
    <2> QED
      BY <2>1, <2>2, <2>3, <2>4
  <1> QED
    BY <1>1, <1>2, NeutralFlow

LEMMA LockFlow ==
    ASSUME IInv, AccInv, FlowInv, ReadableIsRead,
           AllocLock \/ Alloc \/ AcceptLock \/ Accept \/ CloseLock \/ Closed
    PROVE  FlowInv' /\ View' = View
  <1>1. ftp.pc \in Neutral /\ ftp \in TaskRecord
        /\ UNCHANGED <<mbox, pcb, refused, sent, read, live, todo, fatal>>
    BY TaskTypesUnfold
    DEF AllocLock, Alloc, AcceptLock, Accept, CloseLock, Closed, At, Neutral, IInv, netconns, ghosts, tcpip
  <1>2. ftp'.pc \in Neutral
    <2>1. CASE Accept \/ Closed
      <3>1. Return
        BY <2>1 DEF Accept, Closed
      <3> QED
        BY <3>1 DEF Return, Start, Neutral
    <2>2. CASE AllocLock \/ AcceptLock \/ CloseLock
      BY <1>1, <2>2 DEF AllocLock, AcceptLock, CloseLock, Goto, TaskRecord, Neutral
    <2>3. CASE Alloc
      <3>1. FreeIndices # {}
        BY <2>3 DEF Alloc, At, ReadableIsRead
      <3> QED
        BY <1>1, <2>3, <3>1 DEF Alloc, TaskRecord, Neutral
    <2> QED
      BY <2>1, <2>2, <2>3
  <1> QED
    BY <1>1, <1>2, NeutralFlow

LEMMA MinusFlow ==
    ASSUME IInv, AccInv, FlowInv, MinusLock \/ Minus
    PROVE  FlowInv' /\ View' = View
  <1>1. ftp.pc \in {"minus", "less"} /\ ftp \in TaskRecord
        /\ UNCHANGED <<mbox, pcb, refused, sent, read, live, todo, fatal>>
    BY TaskTypesUnfold DEF MinusLock, Minus, At, IInv, netconns, ghosts, tcpip
  <1>2. ftp'.c = ftp.c /\ ftp'.i = ftp.i /\ ftp'.m = ftp.m
        /\ \/ ftp'.pc \in {"less", "taken"}
           \/ ftp'.pc = "ended" /\ ftp.i # 0 /\ ftp.m = End
    <2>1. CASE MinusLock
      BY <1>1, <2>1 DEF MinusLock, Goto, TaskRecord
    <2>2. CASE Minus
      BY <1>1, <2>2 DEF Minus, Goto, TaskRecord
    <2> QED
      BY <2>1, <2>2
  <1>3. \A d : ~Deleting(d) /\ ~Deleting(d)'
    BY <1>1, <1>2 DEF Deleting
  <1>4. Meets' => Meets
    BY <1>1, <1>2 DEF Meets
  <1> QED
    BY <1>1, <1>2, <1>3, <1>4, TaskFlow DEF FlowInv

LEMMA AskFlow ==
    ASSUME IInv, AccInv, FlowInv, Taken \/ Peer \/ Delete
    PROVE  FlowInv' /\ View' = View
  <1>1. ftp.pc \in {"taken", "peer", "delete"} /\ ftp \in TaskRecord
        /\ UNCHANGED <<mbox, pcb, refused, sent, read, live, todo, fatal>>
    BY TaskTypesUnfold DEF Taken, Peer, Delete, At, IInv, netconns, ghosts, tcpip
  <1>2. CASE Taken
    <2>1. ftp'.pc = "asked" /\ ftp'.then \in {"peer", "copy"} /\ ftp.pc = "taken"
      BY <1>1, <1>2 DEF Taken, At, TaskRecord
    <2>2. (\A d : ~Deleting(d) /\ ~Deleting(d)') /\ ~Meets'
      BY <2>1 DEF Deleting, Meets
    <2> QED
      BY <1>1, <2>2, TaskFlow
  <1>3. CASE Peer
    <2>1. /\ ftp'.pc = "asked" /\ ftp.pc = "peer" /\ ftp'.c = ftp.m
          /\ ftp'.then = IF pcb[ftp.m] = "none" THEN "delete" ELSE "alloc"
      BY <1>1, <1>3 DEF Peer, At, TaskRecord
    <2>2. (\A d : ~Deleting(d) /\ ~Deleting(d)') /\ (Meets' => EndDue(ftp'.c))
      BY <2>1 DEF Deleting, Meets, EndDue
    <2> QED
      BY <1>1, <2>2, TaskFlow
  <1>4. CASE Delete
    <2>1. /\ ftp'.pc = "asked" /\ ftp.pc = "delete" /\ ftp'.then = "free"
          /\ ftp'.c = ftp.c /\ ftp'.some = ftp.some
      BY <1>1, <1>4 DEF Delete, At, TaskRecord
    <2>2. (\A d : Deleting(d)' <=> Deleting(d)) /\ ~Meets'
      BY <2>1 DEF Deleting, Meets
    <2> QED
      BY <1>1, <2>1, <2>2, TaskFlow
  <1> QED
    BY <1>2, <1>3, <1>4

LEMMA ReceiveFlow ==
    ASSUME IInv, AccInv, FlowInv, Receive
    PROVE  FlowInv' /\ (Stream!Some \/ View' = View)
  <1>1. CASE ~lastdata[ftp.i] /\ fatal[ftp.c] /\ Told
    BY <1>1, ToldFlow
  <1>2. CASE Goto("copy") \/ Goto("fetch")
    <2>1. ftp.pc = "receive" /\ ftp \in TaskRecord
          /\ UNCHANGED <<mbox, pcb, refused, sent, read, live, todo, fatal>>
      BY TaskTypesUnfold DEF Receive, At, IInv, netconns, ghosts, tcpip
    <2>2. ftp.pc \in Neutral /\ ftp'.pc \in Neutral
      BY <1>2, <2>1 DEF Goto, TaskRecord, Neutral
    <2> QED
      BY <2>1, <2>2, NeutralFlow
  <1> QED
    BY <1>1, <1>2 DEF Receive

LEMMA AllTasksFlow ==
    ASSUME IInv, AccInv, FlowInv, ReadableIsRead, Task
    PROVE  FlowInv' /\ (Stream!Some \/ View' = View)
  BY SelectFlow, LockFlow, MinusFlow, AskFlow, ReceiveFlow, ToldFlow, CopyFlow, FetchFlow, FreeFlow
  DEF Task

LEMMA FlowInit == Init => FlowInv /\ View = [c \in Conns |-> Stream!Off]
  <1> SUFFICES ASSUME Init PROVE FlowInv /\ View = [c \in Conns |-> Stream!Off]
    OBVIOUS
  <1>1. /\ refused = [c \in Conns |-> 0] /\ read = [c \in Conns |-> 0] /\ sent = [c \in Conns |-> 0]
        /\ live = {} /\ todo = <<>> /\ ftp.pc = "serve"
    BY DEF Init, Start
  <1>2. GhostInv /\ ~Meets
    BY <1>1 DEF GhostInv, Meets
  <1>3. DeliverInv
    <2>1. Len(<<>>) = 0 /\ 1 .. 0 = {} /\ ToSet(<<>>) = {}
      BY OrderedEmpty
    <2> QED
      BY <1>1, <2>1 DEF DeliverInv
  <1>4. \A c \in Conns : View[c] = Stream!Off
    BY <1>1, ViewOf
  <1> QED
    BY <1>1, <1>2, <1>3, <1>4 DEF FlowInv, View

\* Once data has been posted twice nothing is followed any more.
LEMMA Stops == Next => ~twice
  <1>1. Network => ~twice
    BY DEF Network, Connected, LastAck, Reset, CloseAgain, OfferAgain, NestedOffer, Segment,
           First, Idle, Whole
  <1>2. Thread => ~twice
    BY DEF Thread, ApiCall, Deliver, Post, Count, Add, Scan, Clear, Done, First, Whole
  <1>3. Task => Waits
    BY DEF Task, SelectLock, SelectScan, SelectList, SelectWake, SelectRelock, SelectUnlink,
           SelectRescan, Serve, Fetch, MinusLock, Minus, Taken, Peer, AllocLock, Alloc, AcceptLock,
           Accept, Receive, Ended, Copy, Delete, Free, CloseLock, Closed, At
  <1>4. Waits => ~twice
    BY DEF Waits, Idle, First, Whole
  <1> QED
    BY <1>1, <1>2, <1>3, <1>4 DEF Next

FlowOrTwice == twice \/ FlowInv

\* The sockets implement streams: whatever is refused, retried, left over or
\* reset, messages are read in the order they were sent, none twice and none
\* left out, and the end is told after them, as long as none has been posted
\* twice (tcp_in.c:276-337, api_msg.c:200-232).
THEOREM Refinement == Spec => ImplementsStreams
  <1>1. Init => FlowOrTwice /\ Stream!Init
    <2> SUFFICES ASSUME Init PROVE FlowInv /\ Stream!Init
      BY DEF FlowOrTwice
    <2>1. FlowInv /\ View = [c \in Conns |-> Stream!Off] /\ twice = FALSE
      BY FlowInit DEF Init
    <2> QED
      BY <2>1 DEF Stream!Init, View
  <1>2. IInv /\ AccInv /\ MailInv /\ ReadableIsRead /\ FlowOrTwice /\ [Next]_vars
        /\ TwiceIsFlag /\ TwiceIsFlag'
           => FlowOrTwice' /\ [Stream!Next]_<<View, twice>>
    <2> SUFFICES ASSUME IInv, AccInv, MailInv, ReadableIsRead, FlowOrTwice, [Next]_vars,
                        TwiceIsFlag, TwiceIsFlag'
                 PROVE  FlowOrTwice' /\ [Stream!Next]_<<View, twice>>
      OBVIOUS
    <2>1. CASE UNCHANGED vars
      <3>1. UNCHANGED <<mbox, pcb, refused, sent, read, live, todo, fatal, ftp, twice>>
        BY <2>1 DEF vars, sockets, netconns, ghosts, tcpip, task
      <3>2. View' = View
        BY <3>1, ThreadView
      <3>3. FlowInv => FlowInv'
        <4> HAVE FlowInv
        <4>1. \A d : Deleting(d)' <=> Deleting(d)
          BY <3>1 DEF Deleting
        <4>2. Meets' => EndDue(ftp'.c)
          BY <3>1 DEF FlowInv, Meets
        <4> QED
          BY <3>1, <4>1, <4>2, TaskFlow
      <3> QED
        BY <3>1, <3>2, <3>3 DEF FlowOrTwice
    <2>2. CASE Next /\ twice'
      <3>1. twice' = TRUE
        BY <2>2 DEF TwiceIsFlag
      <3> QED
        BY <3>1 DEF FlowOrTwice, Stream!Next, Stream!Break
    <2>3. CASE Next /\ ~twice'
      <3>1. ~twice /\ FlowInv
        BY <2>3, Stops DEF FlowOrTwice
      <3>2. twice' = twice
        BY <2>3, <3>1 DEF TwiceIsFlag
      <3>3. FlowInv' /\ (Stream!Some \/ View' = View)
        BY <2>3, <3>1, NetworkFlow, ThreadFlow, AllTasksFlow DEF Next
      <3> QED
        BY <3>2, <3>3 DEF FlowOrTwice, Stream!Next
    <2> QED
      BY <2>1, <2>2, <2>3
  <1> QED
    BY <1>1, <1>2, Invariance, Ownership, SelectTellsTheTruth, TwiceType, PTL
    DEF Spec, ImplementsStreams, Stream!Spec, View
=============================================================================
