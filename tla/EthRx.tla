------------------------------- MODULE EthRx --------------------------------
(***************************************************************************)
(* The way of a received frame (the port's ethernetif.c, the ETH driver,   *)
(* stm32f4xx_it.c, api/tcpip.c): the DMA puts it into the ring, the        *)
(* interrupt gives the semaphore, the Eth_if task copies it into a pbuf    *)
(* and posts it to the TCP/IP thread.                                      *)
(*                                                                         *)
(* The interrupt and the DMA come between any two steps; the Eth_if task   *)
(* has the highest priority, so the TCP/IP thread runs only while that     *)
(* waits, and the FTP task only while the thread waits as well.  All       *)
(* frames fit one buffer of the ring and one pbuf of the pool.             *)
(*                                                                         *)
(* SYS_LIGHTWEIGHT_PROT is 0, so nothing protects the lists of the pools:  *)
(* whoever puts an element back reads the head, and may be interrupted     *)
(* before it stores the new one.  If another element is the head by then,  *)
(* the pool is torn: an element that somebody uses is free as well, or one *)
(* is lost.  The model does not follow what then happens.                  *)
(***************************************************************************)
EXTENDS Integers, Sequences, SequencesExt, FiniteSets

CONSTANTS
    RingSize,   \* ETH_RXBUFNB
    MaxTokens,  \* what s_xSemaphore counts to
    MboxSize,   \* messages the thread's mailbox holds
    Size,       \* of each pool: its elements
    MaxFrames,  \* bound: frames on the wire
    None,       \* NULL in the place of a frame
    Api,        \* a message that brings no frame
    PoolEmpty,  \* the message that calls pbuf_free_ooseq
    Idle        \* the thread waits

\* PBUF_POOL, MEMP_TCPIP_MSG_INPKT and MEMP_TCPIP_MSG_API.
Pools == {"pbuf", "inpkt", "api"}

ASSUME RxAssumption ==
    /\ {RingSize, MaxTokens, MboxSize} \subseteq Nat \ {0}
    /\ Size \in [Pools -> Nat \ {0}]
    /\ MaxFrames \in Nat
    /\ RingSize <= MaxTokens /\ MboxSize + 1 <= Size["inpkt"]
    /\ {None, Api, PoolEmpty, Idle} \cap 1 .. MaxFrames = {}
    /\ None # Api /\ None # Idle /\ Api # Idle
    /\ PoolEmpty \notin {None, Api, Idle}

Frames == 1 .. MaxFrames

VARIABLES
    sent,     \* frames that have come over the wire
    ring,     \* frames in descriptors the CPU owns
    flag,     \* the receive flag of the DMA, which requests the interrupt
    irq,      \* the handler has given the semaphore, and not cleared the flag
    tokens,   \* the count of s_xSemaphore
    eth,      \* Eth_if: it waits, has a token, or has called low_level_input
    hand,     \* the frame it holds, in a pbuf
    mbox,     \* the thread's mailbox
    thread,   \* what the thread handles
    load,     \* and has not dealt with: the pbuf, or pbuf_free_ooseq_queued
    freeing,  \* the thread puts an element back: the pool, and the elements in
              \* the list whose head it has read
    asked,    \* pbuf_free_ooseq_queued
    kept,     \* pbufs that sockets and connections hold
    ftp,      \* the FTP task: elsewhere, or putting a pbuf back
    seen,     \* elements in the list whose head it has read
    stale,    \* that list has been changed since
    left,     \* of each pool: elements in its list
    torn,     \* a head was stored into a list that was not the one it is of
    got       \* ghost: the frames ethernet_input was called with

vars == <<sent, ring, flag, irq, tokens, eth, hand, mbox, thread, load, freeing,
          asked, kept, ftp, seen, stale, left, torn, got>>

Packets == Frames \cup {None}
Messages == Packets \cup {Api, PoolEmpty}
Nothing == [pool |-> "none", seen |-> 0]

TypeOK ==
    /\ sent \in 0 .. MaxFrames
    /\ ring \in Seq(Frames) /\ Len(ring) <= RingSize
    /\ tokens \in 0 .. MaxTokens
    /\ {flag, irq, load, asked, stale, torn} \subseteq BOOLEAN
    /\ eth \in {"waiting", "token", "input"} /\ hand \in Packets
    /\ mbox \in Seq(Messages) /\ Len(mbox) <= MboxSize
    /\ thread \in Messages \cup {Idle}
    /\ freeing \in [pool : Pools \cup {"none"}, seen : Nat]
    /\ ftp \in {"elsewhere", "freeing"} /\ seen \in 0 .. Size["pbuf"]
    /\ kept \in 0 .. Size["pbuf"]
    /\ left \in [Pools -> Nat] /\ \A p \in Pools : left[p] <= Size[p]
    /\ got \in Seq(Frames)

Init ==
    /\ sent = 0 /\ ring = <<>> /\ flag = FALSE /\ irq = FALSE
    /\ tokens = 0 /\ eth = "waiting" /\ hand = None
    /\ mbox = <<>> /\ thread = Idle /\ load = FALSE /\ freeing = Nothing
    /\ asked = FALSE /\ kept = 0
    /\ ftp = "elsewhere" /\ seen = 0 /\ stale = FALSE
    /\ left = Size /\ torn = FALSE
    /\ got = <<>>

interrupt == <<flag, irq>>
threadVars == <<thread, load, freeing, got>>
ftpTask == <<ftp, seen>>
stack == <<mbox, threadVars, asked, kept, ftpTask, stale, left, torn>>

\* Nothing is followed further than a tear.
Whole == ~torn

\* The list of pool p has n elements from now on.
Listed(p, n) ==
    /\ left' = [left EXCEPT ![p] = n]
    /\ stale' = IF p = "pbuf" THEN ftp = "freeing" ELSE stale

-----------------------------------------------------------------------------
(* The DMA and its interrupt                                               *)

\* Mutant: the DMA goes round the ring without a look at the owner.
FrameArrivesAlways ==
    /\ Whole /\ sent < MaxFrames /\ sent' = sent + 1
    /\ ring' = Append(ring, sent') /\ flag' = TRUE
    /\ UNCHANGED <<irq, tokens, eth, hand, stack>>

\* A frame goes into the next descriptor of the ring, or is lost for want of
\* one: the interrupt for that is not enabled.
FrameArrives ==
    /\ Whole /\ sent < MaxFrames /\ sent' = sent + 1
    /\ \/ /\ Len(ring) < RingSize
          /\ ring' = Append(ring, sent')
          /\ flag' = TRUE
       \/ /\ Len(ring) = RingSize
          /\ UNCHANGED <<ring, flag>>
    /\ UNCHANGED <<irq, tokens, eth, hand, stack>>

\* ETH_IRQHandler: one token for the flag, however many frames set it ...
Interrupt ==
    /\ Whole /\ flag /\ ~irq /\ irq' = TRUE
    /\ tokens' = IF tokens < MaxTokens THEN tokens + 1 ELSE tokens
    /\ UNCHANGED <<sent, ring, flag, eth, hand, stack>>

\* Mutant: the handler forgets to clear the flag.
ClearNothing ==
    /\ Whole /\ irq /\ irq' = FALSE
    /\ UNCHANGED <<sent, ring, flag, tokens, eth, hand, stack>>

\* ... which is cleared after that, with what has set it meanwhile.
ClearFlag ==
    /\ Whole /\ irq /\ irq' = FALSE
    /\ flag' = FALSE
    /\ UNCHANGED <<sent, ring, tokens, eth, hand, stack>>

-----------------------------------------------------------------------------
(* The Eth_if task; the handler is not preempted by it                     *)

\* The wait ends every 100 ms, which changes nothing without a token.
TakeToken ==
    /\ Whole /\ ~irq /\ eth = "waiting" /\ tokens > 0
    /\ tokens' = tokens - 1
    /\ eth' = "token"
    /\ UNCHANGED <<sent, ring, interrupt, hand, stack>>

\* pbuf_pool_is_empty: a message for the thread, unless one is on its way, or
\* there is no element or no room for it.
AskForPbufs ==
    \/ /\ ~asked /\ left["api"] > 0 /\ Len(mbox) < MboxSize
       /\ asked' = TRUE
       /\ Listed("api", left["api"] - 1)
       /\ mbox' = Append(mbox, PoolEmpty)
    \/ /\ asked \/ left["api"] = 0 \/ Len(mbox) = MboxSize
       /\ UNCHANGED <<asked, left, stale, mbox>>

\* Mutant: the descriptor is not given back.
ReadKept ==
    /\ Whole /\ ~irq /\ eth = "token" /\ ring # <<>>
    /\ \/ /\ left["pbuf"] > 0 /\ Listed("pbuf", left["pbuf"] - 1)
          /\ hand' = Head(ring)
          /\ UNCHANGED <<asked, mbox>>
       \/ left["pbuf"] = 0 /\ AskForPbufs /\ hand' = None
    /\ eth' = "input"
    /\ UNCHANGED <<sent, ring, interrupt, tokens, threadVars, kept, ftpTask, torn>>

\* low_level_input: the first frame of the ring goes into a pbuf, if there is
\* one, and its descriptor back to the DMA.  Without a frame the driver hands
\* out a null descriptor, which is looked into: FrameForEveryToken excludes it.
Read ==
    /\ Whole /\ ~irq /\ eth = "token" /\ ring # <<>>
    /\ ring' = Tail(ring)
    /\ \/ /\ left["pbuf"] > 0 /\ Listed("pbuf", left["pbuf"] - 1)
          /\ hand' = Head(ring)
          /\ UNCHANGED <<asked, mbox>>
       \/ left["pbuf"] = 0 /\ AskForPbufs /\ hand' = None
    /\ eth' = "input"
    /\ UNCHANGED <<sent, interrupt, tokens, threadVars, kept, ftpTask, torn>>

\* Mutant: what tcpip_input does not take stays with nobody.
InputForgets ==
    /\ Whole /\ ~irq /\ eth = "input" /\ eth' = "waiting" /\ hand' = None
    /\ \/ /\ left["inpkt"] > 0 /\ Len(mbox) < MboxSize
          /\ Listed("inpkt", left["inpkt"] - 1)
          /\ mbox' = Append(mbox, hand)
       \/ /\ left["inpkt"] = 0 \/ Len(mbox) = MboxSize
          /\ UNCHANGED <<left, stale, mbox>>
    /\ UNCHANGED <<sent, ring, interrupt, tokens, threadVars, asked, kept, ftpTask,
                   torn>>

\* Mutant: the task waits until the mailbox has room.
InputBlocks ==
    /\ Whole /\ ~irq /\ eth = "input" /\ left["inpkt"] > 0 /\ Len(mbox) < MboxSize
    /\ Listed("inpkt", left["inpkt"] - 1)
    /\ mbox' = Append(mbox, hand)
    /\ eth' = "waiting" /\ hand' = None
    /\ UNCHANGED <<sent, ring, interrupt, tokens, threadVars, asked, kept, ftpTask,
                   torn>>

\* tcpip_input: a message for the thread, be it with no pbuf; the pbuf is freed
\* when there is no message, or no room in the mailbox.
Input ==
    /\ Whole /\ ~irq /\ eth = "input"
    /\ \/ /\ left["inpkt"] > 0 /\ Len(mbox) < MboxSize
          /\ Listed("inpkt", left["inpkt"] - 1)
          /\ mbox' = Append(mbox, hand)
       \/ /\ left["inpkt"] = 0 \/ Len(mbox) = MboxSize
          /\ \/ hand = None /\ UNCHANGED <<left, stale>>
             \/ hand # None /\ Listed("pbuf", left["pbuf"] + 1)
          /\ UNCHANGED mbox
    /\ eth' = "waiting" /\ hand' = None
    /\ UNCHANGED <<sent, ring, interrupt, tokens, threadVars, asked, kept, ftpTask,
                   torn>>

-----------------------------------------------------------------------------
(* The TCP/IP thread                                                       *)

device == <<sent, ring, interrupt, tokens, eth, hand>>

\* Eth_if has nothing to do, and the thread is not in memp_free.
Below == ~irq /\ eth = "waiting" /\ tokens = 0
Free == Below /\ freeing = Nothing

Fetch ==
    /\ Whole /\ Free /\ thread = Idle /\ mbox # <<>>
    /\ thread' = Head(mbox) /\ mbox' = Tail(mbox)
    /\ load' = (Head(mbox) \in Frames \cup {PoolEmpty})
    /\ got' = IF Head(mbox) \in Frames THEN Append(got, Head(mbox)) ELSE got
    /\ UNCHANGED <<device, freeing, asked, kept, ftpTask, stale, left, torn>>

\* memp_free begins: the element is linked to the head of the list.
BeginFree(p) == freeing' = [pool |-> p, seen |-> left[p]]

\* ethernet_input frees the pbuf, or gives it to a socket or a connection.
FrameDone ==
    /\ Whole /\ Free /\ thread \in Frames /\ load
    /\ load' = FALSE
    /\ \/ BeginFree("pbuf") /\ UNCHANGED kept
       \/ kept' = kept + 1 /\ UNCHANGED freeing
    /\ UNCHANGED <<device, mbox, thread, asked, ftpTask, stale, left, torn, got>>

\* pbuf_free_ooseq begins.
AskedCleared ==
    /\ Whole /\ Free /\ thread = PoolEmpty /\ load
    /\ load' = FALSE /\ asked' = FALSE
    /\ UNCHANGED <<device, mbox, thread, freeing, kept, ftpTask, stale, left, torn,
                   got>>

\* The thread frees a pbuf that was kept: out-of-order segments here, with
\* their connection, or when the gap is filled; data nobody has taken.
KeptFreed ==
    /\ Whole /\ Free /\ kept > 0
    /\ kept' = kept - 1 /\ BeginFree("pbuf")
    /\ UNCHANGED <<device, mbox, thread, load, asked, ftpTask, stale, left, torn, got>>

\* At last the message is freed; that of an API call is its caller's.  What is
\* found behind a null pbuf is no frame for ethernet_input.
MessageDone ==
    /\ Whole /\ Free /\ thread # Idle /\ ~load
    /\ thread' = Idle
    /\ \/ thread \in Packets /\ BeginFree("inpkt")
       \/ thread = PoolEmpty /\ BeginFree("api")
       \/ thread = Api /\ UNCHANGED freeing
    /\ UNCHANGED <<device, mbox, load, asked, kept, ftpTask, stale, left, torn, got>>

\* memp_free ends: the element is the head, and behind it is what was there
\* when it was linked.
Store ==
    /\ Whole /\ Below /\ freeing # Nothing
    /\ Listed(freeing.pool, freeing.seen + 1)
    /\ torn' = (left[freeing.pool] # freeing.seen)
    /\ freeing' = Nothing
    /\ UNCHANGED <<device, mbox, thread, load, asked, kept, ftpTask, got>>

-----------------------------------------------------------------------------
(* The FTP task                                                            *)

\* The thread waits, for a message or in the middle of one.
Lowest == Free /\ (thread = Idle => mbox = <<>>)

\* It calls the API, and waits for the answer.
ApiCall ==
    /\ Whole /\ Lowest /\ ftp = "elsewhere" /\ Len(mbox) < MboxSize
    /\ thread # Api /\ Api \notin ToSet(mbox)
    /\ mbox' = Append(mbox, Api)
    /\ UNCHANGED <<device, threadVars, asked, kept, ftpTask, stale, left, torn>>

\* It has read what was kept for a socket, and frees it: memp_free begins ...
ReadFreed ==
    /\ Whole /\ Lowest /\ ftp = "elsewhere" /\ kept > 0
    /\ kept' = kept - 1
    /\ ftp' = "freeing" /\ seen' = left["pbuf"] /\ stale' = FALSE
    /\ UNCHANGED <<device, mbox, threadVars, asked, left, torn>>

\* ... and ends.  A list that has changed meanwhile may have the same head
\* again, or not.
ReadStored ==
    /\ Whole /\ Lowest /\ ftp = "freeing"
    /\ \/ left' = [left EXCEPT !["pbuf"] = @ + 1] /\ UNCHANGED torn
       \/ stale /\ left' = [left EXCEPT !["pbuf"] = seen + 1] /\ torn' = TRUE
    /\ ftp' = "elsewhere" /\ seen' = 0 /\ stale' = FALSE
    /\ UNCHANGED <<device, mbox, threadVars, asked, kept>>

Device == FrameArrives \/ Interrupt \/ ClearFlag
EthTask == TakeToken \/ Read \/ Input
Thread == Fetch \/ FrameDone \/ AskedCleared \/ KeptFreed \/ MessageDone \/ Store
FtpTask == ApiCall \/ ReadFreed \/ ReadStored

Next == Device \/ EthTask \/ Thread \/ FtpTask

Spec == Init /\ [][Next]_vars

\* A requested interrupt is taken, and the task of the highest priority is
\* scheduled.
FairSpec ==
    /\ Spec
    /\ WF_vars(Interrupt \/ ClearFlag) /\ WF_vars(EthTask)

-----------------------------------------------------------------------------
(* Properties                                                              *)

One(b) == IF b THEN 1 ELSE 0

\* Frames of the ring nothing stands for: no token, no request.
InHand == One(eth = "token")
Requested == One(flag /\ ~irq)
Behind == Len(ring) - tokens - InHand - Requested

\* The Eth_if task never comes to an empty ring, where the driver's frame has
\* a null descriptor (stm32f4x7_eth.c:1033, ethernetif.c:235).
FrameForEveryToken == Behind >= 0

Count(s, S) == Cardinality({i \in DOMAIN s : s[i] \in S})
Held(S) == Count(mbox, S) + One(thread \in S)

\* Elements that are not in the list of their pool.
Taken(p) ==
    One(freeing.pool = p) +
    CASE p = "pbuf"  -> One(hand # None) + Count(mbox, Frames) + kept
                        + One(thread \in Frames /\ load) + One(ftp = "freeing")
      [] p = "inpkt" -> Held(Packets)
      [] p = "api"   -> Held({PoolEmpty})

\* As long as no pool is torn, where its elements are and what is left adds up,
\* on the error paths of tcpip_input too (ethernetif.c:310-312,
\* tcpip.c:328-337), and through both steps of memp_free.
NothingLeaks == ~torn => \A p \in Pools : left[p] + Taken(p) = Size[p]

\* Unless it is torn, the pool of messages never runs out before the mailbox is
\* full: a frame that is handled or just freed has one, too (lwipopts.h).
MessagesSuffice ==
    ~torn /\ eth = "input" /\ Len(mbox) < MboxSize => left["inpkt"] > 0

\* As long as no pool is torn, frames reach ethernet_input in the order of the
\* wire, none twice (ethernetif.c:229-275, 304-315; tcpip.c:316-342).
Passing == (ToSet(mbox) \cup {hand} \cup ToSet(ring)) \cap Frames
Link == INSTANCE Link WITH wire <- sent + 1 .. MaxFrames, passing <- Passing,
                            broken <- torn
ImplementsLink == Link!Spec

\* What the interrupt has left behind stays behind: no later frame, and no
\* time-out of the wait, makes up for it (ethernetif.c:306).
NeverCaughtUp == [][Behind' >= Behind]_vars

\* As long as no interrupt stands for two frames, and the pools are whole, each
\* is read.
ReadUnlessCoalesced ==
    [](Behind = 0 /\ ~torn) => [](ring # <<>> => <>(eth = "token"))
=============================================================================
