---------------------------- MODULE LwipTimeouts ----------------------------
(***************************************************************************)
(* The timers of lwIP (core/sys.c, api/tcpip.c, the port's sys_arch.c):    *)
(* the delta list of the TCP/IP thread, the pool its elements come from,   *)
(* and the threads that wait with a time-out.                              *)
(*                                                                         *)
(* Timers are run while the TCP/IP thread waits: for a message, or for a   *)
(* semaphore in the middle of handling a message or of another timer.      *)
(* Only threads made by sys_thread_new have a list, and the TCP/IP thread  *)
(* is the only one: the FTP task, made by xTaskCreate, has none, and what  *)
(* it takes from the pool for a timed wait is lost.                        *)
(*                                                                         *)
(* SYS_LIGHTWEIGHT_PROT is 0, so nothing protects the list of the pool:    *)
(* the TCP/IP thread, of a higher priority, may come between the two steps *)
(* in which the FTP task takes an element.  If that is no longer the head  *)
(* when the task stores the new one, the pool is torn: an element has two  *)
(* users, or is lost.  From there on timers are written over, and the      *)
(* model does not follow it.                                               *)
(***************************************************************************)
EXTENDS Integers, Sequences, SequencesExt, FiniteSets, Sums

CONSTANTS
    NumTimeouts,  \* MEMP_NUM_SYS_TIMEOUT: elements in the pool
    Interval      \* of each handler: the time it is armed for

Handlers == {"arp", "coarse", "fine", "tcp"}
Periodic == Handlers \ {"tcp"}

ASSUME TimeoutsAssumption ==
    /\ NumTimeouts \in Nat /\ NumTimeouts > Cardinality(Handlers)
    /\ Interval \in [Handlers -> Nat \ {0}]

VARIABLES
    timers,   \* the list: handlers, each with the time after its predecessor
    waited,   \* how long the thread has waited for what it waits for now
    stack,    \* what the thread is in the middle of, innermost last
    free,     \* elements left in the pool
    leaked,   \* ghost: elements taken for threads that have no list
    active,   \* tcpip_tcp_timer_active
    pcbs,     \* there are active or time-wait connections
    ftp,      \* the FTP task: in its loop, in a command, in memp_malloc, or in
              \* a timed wait
    seen,     \* elements in the list of the pool whose head it has read
    stale,    \* the thread has changed that list since
    torn,     \* the FTP task has stored a head into a list that was not that one
    left      \* ghost: of each handler in the list, what is left of its time

vars == <<timers, waited, stack, free, leaked, active, pcbs, ftp, seen, stale,
          torn, left>>
ftpTask == <<ftp, seen, torn>>

Entries == [h : Handlers, time : Nat]
Frames == Handlers \cup {"message", "sem"}

Listed == {e.h : e \in ToSet(timers)}
InProgress == ToSet(stack)

TypeOK ==
    /\ timers \in Seq(Entries)
    /\ waited \in Nat /\ (timers # <<>> => waited <= timers[1].time)
    /\ stack \in Seq(Frames)
    /\ {free, seen} \subseteq 0 .. NumTimeouts /\ leaked \in 0 .. NumTimeouts + 1
    /\ {active, pcbs, stale, torn} \subseteq BOOLEAN
    /\ ftp \in {"loop", "command", "taking", "waiting"}
    /\ left \in [Handlers -> Nat]

-----------------------------------------------------------------------------
(* The delta list                                                          *)

\* Time of the i-th entry from now.
Times(list) == [k \in 1 .. Len(list) |-> list[k].time]
Due(list, i) == PrefixSums(Times(list))[i]

\* Mutant: the entry behind the new one keeps its time.
InsertUnadjusted(list, h, ms) ==
    LET before == Cardinality({i \in 1 .. Len(list) : Due(list, i) <= ms})
    IN  InsertAt(list, before + 1, [h |-> h, time |-> ms - Due(list, before)])

\* sys_timeout: the new entry goes behind those that are due no later.
Insert(list, h, ms) ==
    LET before == Cardinality({i \in 1 .. Len(list) : Due(list, i) <= ms})
        time   == ms - Due(list, before)
        behind == before + 1
        rest   == IF before = Len(list) THEN list
                  ELSE [list EXCEPT ![behind].time = @ - time]
    IN  InsertAt(rest, behind, [h |-> h, time |-> time])

\* Mutant: the millisecond that has begun is counted as well.
ShortenedTooMuch ==
    IF timers = <<>> THEN timers ELSE [timers EXCEPT ![1].time = @ - waited - 1]

\* Mutant: the time that has passed is not taken off.
ShortenedNever == timers

\* The thread was woken before its first timer: less is left of its time.
Shortened ==
    IF timers = <<>> THEN timers ELSE [timers EXCEPT ![1].time = @ - waited]

\* Nothing is followed further than a tear.
Whole == ~torn

\* The thread puts n elements back, or takes them; nothing the FTP task does
\* comes in between.
Pool(n) == free' = free + n /\ stale' = (ftp = "taking")

\* sys_timeout on the TCP/IP thread: without an element the timer is lost.
SysTimeout(h) ==
    \/ /\ free > 0
       /\ Pool(-1)
       /\ timers' = Insert(timers, h, Interval[h])
       /\ left' = [left EXCEPT ![h] = Interval[h]]
    \/ /\ free = 0
       /\ UNCHANGED <<free, stale, timers, left>>

\* When the scheduler starts: the ARP timer of ethernetif_init went to a task
\* without a list, and the TCP/IP thread, the first to run, has armed its own.
Init ==
    /\ timers = Insert(Insert(Insert(<<>>,
                    "arp", Interval["arp"]), "coarse", Interval["coarse"]),
                    "fine", Interval["fine"])
    /\ waited = 0 /\ stack = <<>>
    /\ leaked = 1 /\ free = NumTimeouts - 4
    /\ active = FALSE /\ pcbs = FALSE
    /\ ftp = "loop" /\ seen = 0 /\ stale = FALSE /\ torn = FALSE
    /\ left = [h \in Handlers |-> IF h \in Periodic THEN Interval[h] ELSE 0]

-----------------------------------------------------------------------------
(* The TCP/IP thread                                                       *)

In(frame) == stack # <<>> /\ Last(stack) = frame
Waiting == stack = <<>> \/ In("sem")

\* A first timer whose time is up is run before anything is looked at.
MayBeWoken == timers # <<>> => timers[1].time > 0

\* sys_mbox_fetch returns a message.
FetchMessage ==
    /\ Whole /\ stack = <<>> /\ MayBeWoken
    /\ timers' = Shortened /\ waited' = 0
    /\ stack' = <<"message">>
    /\ UNCHANGED <<free, leaked, active, pcbs, ftpTask, stale, left>>

\* event_callback waits for socksem or selectsem, out of a message or of what
\* tcp_tmr calls.
SemWait ==
    /\ Whole /\ (In("message") \/ In("tcp"))
    /\ stack' = Append(stack, "sem") /\ waited' = 0
    /\ UNCHANGED <<timers, free, leaked, active, pcbs, ftpTask, stale, left>>

SemTaken ==
    /\ Whole /\ In("sem") /\ MayBeWoken
    /\ timers' = Shortened /\ waited' = 0
    /\ stack' = Front(stack)
    /\ UNCHANGED <<free, leaked, active, pcbs, ftpTask, stale, left>>

\* Mutant: the element goes back to the pool when the handler has returned,
\* which for a handler that arms itself again is never.
TimerExpiredKept ==
    /\ Whole /\ Waiting
    /\ timers # <<>> /\ waited = timers[1].time
    /\ timers' = Tail(timers) /\ waited' = 0
    /\ stack' = Append(stack, timers[1].h)
    /\ UNCHANGED <<free, leaked, active, pcbs, ftpTask, stale, left>>

\* The time of the first timer is up: it is unlinked, its element freed, and
\* its handler called, in the middle of whatever the thread waits in.
TimerExpired ==
    /\ Whole /\ Waiting
    /\ timers # <<>> /\ waited = timers[1].time
    /\ timers' = Tail(timers) /\ waited' = 0
    /\ Pool(1)
    /\ stack' = Append(stack, timers[1].h)
    /\ UNCHANGED <<leaked, active, pcbs, ftpTask, left>>

\* A handler arms itself again at its end.
PeriodicDone(h) ==
    /\ Whole /\ In(h) /\ SysTimeout(h)
    /\ stack' = Front(stack)
    /\ UNCHANGED <<waited, leaked, active, pcbs, ftpTask>>

\* tcp_tmr has run; the timer goes on while there are connections.
TcpTimerDone ==
    /\ Whole /\ In("tcp")
    /\ \/ pcbs /\ SysTimeout("tcp") /\ UNCHANGED active
       \/ ~pcbs /\ active' = FALSE /\ UNCHANGED <<timers, free, stale, left>>
    /\ stack' = Front(stack)
    /\ UNCHANGED <<waited, leaked, pcbs, ftpTask>>

\* Mutant: tcp_timer_needed does not look whether the timer runs.
ConnectionMadeAlways ==
    /\ Whole /\ In("message")
    /\ pcbs' = TRUE /\ active' = TRUE /\ SysTimeout("tcp")
    /\ UNCHANGED <<waited, stack, leaked, ftpTask>>

\* TCP_REG while a message is handled, and tcp_timer_needed.
ConnectionMade ==
    /\ Whole /\ In("message")
    /\ pcbs' = TRUE
    /\ active' = TRUE
    /\ \/ active /\ UNCHANGED <<timers, free, stale, left>>
       \/ ~active /\ SysTimeout("tcp")
    /\ UNCHANGED <<waited, stack, leaked, ftpTask>>

\* The last connection goes, by a segment, by a call or by tcp_tmr.
ConnectionsGone ==
    /\ Whole /\ (In("message") \/ In("tcp"))
    /\ pcbs /\ pcbs' = FALSE
    /\ UNCHANGED <<timers, waited, stack, free, leaked, active, ftpTask, stale,
                   left>>

MessageDone ==
    /\ Whole /\ In("message")
    /\ stack' = <<>>
    /\ UNCHANGED <<timers, waited, free, leaked, active, pcbs, ftpTask, stale, left>>

-----------------------------------------------------------------------------
(* The FTP task and the clock                                              *)

thread == <<timers, waited, stack, active, pcbs, left>>

\* The FTP task has the lowest priority: it runs while the TCP/IP thread waits
\* for a message or, where it sends, for the transmitter, which the DHCP task
\* may have.  While the thread waits for a semaphore, the FTP task only gives
\* that back, and loses the processor.
ThreadBlocks == ~In("arp") /\ ~In("sem")

\* A command comes over a connection, which may be gone before it is done.
CommandRead ==
    /\ Whole /\ ftp = "loop" /\ ThreadBlocks /\ pcbs
    /\ ftp' = "command"
    /\ UNCHANGED <<thread, free, leaked, seen, stale, torn>>

CommandDone ==
    /\ Whole /\ ftp = "command" /\ ThreadBlocks
    /\ ftp' = "loop"
    /\ UNCHANGED <<thread, free, leaked, seen, stale, torn>>

\* lwip_select with a time-out and nothing ready, down to sys_timeout, where
\* memp_malloc reads the head of the list, if there is any.
TimedWait ==
    /\ Whole /\ ftp = "command" /\ ThreadBlocks
    /\ ftp' = IF free > 0 THEN "taking" ELSE "waiting"
    /\ seen' = free /\ stale' = FALSE
    /\ UNCHANGED <<thread, free, leaked, torn>>

\* What is behind it is stored as the head, and no list is found to put the
\* element into; without a list the semaphore is waited for without a limit.
\* In a list that has changed meanwhile it may be the head again, or not.
Taken ==
    /\ Whole /\ ftp = "taking" /\ ThreadBlocks
    /\ ftp' = "waiting"
    /\ \/ free > 0 /\ free' = free - 1 /\ UNCHANGED torn
       \/ stale /\ free' = seen - 1 /\ torn' = TRUE
    /\ leaked' = leaked + 1
    /\ seen' = 0 /\ stale' = FALSE
    /\ UNCHANGED thread

\* Something is ready: sys_untimeout finds no list and frees nothing.
TimedWaitSignalled ==
    /\ Whole /\ ftp = "waiting" /\ ThreadBlocks
    /\ ftp' = "command"
    /\ UNCHANGED <<thread, free, leaked, seen, stale, torn>>

\* A millisecond passes.  What the thread spends on a handler or behind the
\* end of its wait is not counted against the list; a semaphore is only waited
\* for when the FTP task has it.
Counted ==
    /\ Waiting /\ (In("sem") => ftp \in {"loop", "command"})
    /\ timers # <<>> /\ waited < timers[1].time

Tick ==
    /\ Whole
    /\ left' = [h \in Handlers |-> IF left[h] > 0 THEN left[h] - 1 ELSE 0]
    /\ waited' = IF Counted THEN waited + 1 ELSE waited
    /\ UNCHANGED <<timers, stack, free, leaked, active, pcbs, ftpTask, stale>>

Thread ==
    \/ FetchMessage \/ SemWait \/ SemTaken \/ TimerExpired
    \/ \E h \in Periodic : PeriodicDone(h)
    \/ TcpTimerDone \/ ConnectionMade \/ ConnectionsGone \/ MessageDone

FtpTask ==
    CommandRead \/ CommandDone \/ TimedWait \/ Taken \/ TimedWaitSignalled

Torn == torn /\ UNCHANGED vars

Next == Thread \/ FtpTask \/ Tick \/ Torn

Spec == Init /\ [][Next]_vars

\* The thread of the highest priority but one ends what it does, semaphores
\* are given back, and time passes.
FairSpec ==
    /\ Spec
    /\ SF_vars(MessageDone) /\ SF_vars(SemTaken) /\ WF_vars(TimerExpired)
    /\ SF_vars(TcpTimerDone) /\ \A h \in Periodic : WF_vars(PeriodicDone(h))
    /\ SF_vars(Tick /\ Counted)
-----------------------------------------------------------------------------
(* Properties                                                              *)

\* As long as the pool is whole, and whatever interrupts what, no handler is
\* called before its time, twice for one arming, or while it is being run
\* already (sys.c:98-105, 139-146, which run handlers in the middle of others).
TimerSet == INSTANCE TimerSet WITH
    broken <- torn,
    timer <- [h \in Handlers |->
                 CASE h \in Listed     -> [state |-> "armed", left |-> left[h]]
                   [] h \in InProgress -> [state |-> "running", left |-> 0]
                   [] OTHER            -> [state |-> "off", left |-> 0]]
ImplementsTimerSet == TimerSet!Spec

\* The deltas of the list add up (sys.c:213-234): by the list no timer is due
\* before its time, and none is put off by the timers armed after it.
DeltasAddUp ==
    ~torn => \A i \in 1 .. Len(timers) :
        /\ Due(timers, i) - waited >= left[timers[i].h]
        /\ Due(timers, i) <= Interval[timers[i].h]

\* The pool is whole, and has as many elements as there are timers to spare for
\* waits of threads without a list.
PoolLasts == ~torn /\ leaked <= NumTimeouts - Cardinality(Handlers)
Scheduled(h) == h \in Listed \cup InProgress

\* As long as the pool lasts no timer is lost: an element is freed before its
\* handler takes it again, and nothing gets in between (tcpip.c:76-178).
NoTimerLost ==
    PoolLasts => /\ \A h \in Periodic : Scheduled(h)
                 /\ active => Scheduled("tcp")

\* As long as the pool lasts every periodic timer is run again and again, and
\* so is TCP's as long as there are connections.
TimersGoOn ==
    [](PoolLasts) => /\ \A h \in Periodic : []<>(h \in InProgress)
                     /\ pcbs ~> ("tcp" \in InProgress \/ ~pcbs)

(* What the sources say and the code does not do                           *)

\* tcpip.c:68, of tcpip_tcp_timer_active: it "shows if the tcp timer is
\* currently scheduled or not".
ActiveMeansScheduled == active => Scheduled("tcp")
=============================================================================
