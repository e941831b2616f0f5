# A model of the STM32 FTP server

The repository is the firmware of an FTP server on an STM32F4 board: one FTP task (`ftp/`), FatFs
on a memory card, lwIP with its socket interface, FreeRTOS. This directory holds TLA+ modules of the
parts with a logic of their own, TLC configurations for small instances, and theorems that TLAPS checks.

    tlc -workers 2 -config MCFtpServer_isolation.cfg MCFtpServer     # a run
    tlapm FtpServerProofs.tla                                        # the proofs of a module

## 1. Inventory

| Component | State | Operations | Interacts with |
|---|---|---|---|
| FTP control loop `ftp/ftpd.c` (62-180) | `conn_list`; `readfds`, `tmpfds`; the walk's `conn`, `next`; per session `sockfd`, `pasv_sockfd` | select, accept, recv, dispatch, disconnect | socket layer; heap |
| Data connections `ftp/ftpd.c` (278-294, 306-387, 438-484, 527-597) | `pasv_sockfd`; a local listener in PASV | PASV, PORT, LIST, NLST, RETR, STOR | socket layer; they block the loop |
| Commands on files `ftp/ftpd.c`, `ftp/cmds.c` | `currentdir`, `offset`; the volume | LIST NLST RETR STOR SIZE CWD CDUP REST MKD DELE RMD | FatFs |
| Replies only | none | USER PASS TYPE MDTM SYST PWD FEAT, unknown | control connection |
| FatFs `library/FatFs/ff.c` (vendored) | directory tree, file sizes | f_open, f_read, f_write, f_close, f_opendir, f_mkdir, f_unlink | medium |
| lwIP sockets `library/lwip/src/api` (vendored) | `sockets[]`, netconn pool, mailboxes | socket, bind, listen, accept, connect, recv, send, close, select | TCP/IP task by messages, FTP task by semaphores |
| lwIP TCP `library/lwip/src/core/tcp*.c` (vendored) | pcb lists, `accepts_pending`; per connection the queues `unsent` and `unacked`, windows, timers | write, close, segments, slow and fast timer | mailboxes; `do_writemore`, `sent_tcp`, `poll_tcp` |
| lwIP timers `sys.c`, `tcpip.c` (vendored) | the delta list of the TCP/IP thread, a pool of ten elements, `tcpip_tcp_timer_active` | sys_timeout, sys_untimeout, timers run inside waits, tcp_timer_needed | every waiting thread; TCP, ARP, DHCP handlers |
| lwIP port `sys_arch.c` | mailboxes of 6, semaphores, time-out lists by thread | post, trypost, fetch, wait | FreeRTOS queues |
| Ethernet interface `ethernetif.c`, `stm32f4xx_it.c`, `stm32f4x7_eth.c` | descriptor ring of 5, counting semaphore, pbuf and message pools | interrupt, input task, output | TCP/IP thread's mailbox |
| DHCP task `tasks/netconf.c` | `DHCP_state`, `my_ipaddr` | start, wait for an address, stop, fall back | lwIP's structures, without its thread |
| DHCP client `dhcp.c` (vendored) | `netif->dhcp`: state, tries, time-outs, offer, message being sent | discover, request, check, bind, decline, stop | interface; fine timer; UDP |
| `main.c`, `periph/`, `sys/`, `utils/` | - | set-up, formatting | - |

Priorities: `Eth_if` 6, TCP/IP thread 5, FTP and DHCP tasks 2 (the two below share the processor by time slices of 1 ms).

What makes it hard:

* **One task, many actors.** The FTP task serves all sessions, and PASV, PORT, STOR and every transfer block it in the
  middle of a command. Between any two of its steps the TCP/IP task delivers connections, data, FINs and resets.
* **Descriptor numbers are reused at once.** `alloc_socket` takes the lowest free one. A number that is
  kept after `close()` (`pasv_sockfd`, a bit of `readfds`, `tmpfds` during the walk) may be another session's.
* **Everything is scarce.** Four netconns and four descriptors (`MEMP_NUM_NETCONN`, `NUM_SOCKETS`) for the
  listener, two sessions, a PASV listener and data connections.
* **The TCP/IP thread interrupts the FTP task between any two instructions**, and what the two share is
  protected by two semaphores only for part of the way (`event_callback` against `lwip_select`, `lwip_accept`).
* **The TCP/IP thread itself may wait in the middle of its work**: for a semaphore, which runs timers inside of handlers (among them
  `tcp_fasttmr`, which offers the data that is just being offered), or for room in a mailbox that only the FTP task can empty.
* **No pool is protected.** `SYS_LIGHTWEIGHT_PROT` is 0 (`lwipopts.h:32`), so `memp_malloc` and `memp_free` are two steps each, between which
  a task of a higher priority may use the same list.
* **Some tasks have no time-out list.** Only threads made by `sys_thread_new` get one (`sys_arch.c:324-342`); the FTP
  and DHCP tasks are made by `xTaskCreate`. A time-out they ask for never expires, and its pool element is lost.
* **One interrupt may stand for several frames**, and one token of the semaphore takes one frame out of the ring.
* **The network loses, repeats and reorders**, and the sender has three ways to repeat (time-out, three duplicate ACKs, probe of a shut
  window) that move segments between two queues while the application goes on writing.
* **Errors are mostly ignored.** `recv()` returns 0 for a reset as for an end; `f_write()` results are dropped.
* **The directory is a string** that commands rewrite, now with and now without the first `/`.

What would make each part correct: the list walk never touches freed memory; a session only ever uses
and closes its own connections; the loop never blocks in `recv()` or `accept()`;
every command is read (control loop). A command acts on the object its parameter names from where the
session is (file commands). A counter that bounds a queue covers the queue; no wake-up gets lost; a stream is read in order, to its end (lwIP sockets).
What is written into a connection that is closed in good order arrives, and the sender never stops for ever (lwIP TCP).
No timer is lost or early (lwIP timers). The board ends with one configuration, and announces the address that is in use (DHCP).
Every received frame is read once, in order, and its buffer comes back (Ethernet).

## 2. Modules

| Module | What it is | Stands for |
|---|---|---|
| `FtpServer` | control loop, descriptors, lwIP as the server sees it; properties | `ftpd.c`; `sockets.c`, `api_lib.c`, `api_msg.c`, `tcp.c`, `tcp_in.c` |
| `MCFtpServer` | instances for TLC | |
| `SequenceElements` | lemmas on elements, occurrences and prefix sums of sequences; induction and recursion along the numbers | |
| `Sums` | sums along a sequence | |
| `FtpServerProofs` | list invariant, types of every action; ownership of descriptors, isolation of sessions; what a turn of the walk does to other sessions' control connections; the count of netconns | |
| `FtpPaths` | path strings as sequences of separators and names | `cmds.c`, path syntax of `ff.c` |
| `FatVolume` | a volume as a function from paths to files and directories | `ff.c` |
| `FtpFiles` | the file commands of all sessions; properties | `ftpd.c`, `cmds.c` |
| `FtpStore` | abstract: each session is at a place in one tree | |
| `FtpFilesProofs` | no command cuts the tree or overfills the volume, and it implements `FtpStore`, for all paths and volumes | |
| `MCFtpFiles` | instances for TLC | |
| `LwipSockets` | the FTP task in select, accept, recv, close against the TCP/IP thread, one shared access a step | `sockets.c`, `api_lib.c`, `api_msg.c`, `tcp_in.c`, `tcp.c` |
| `Streams` | abstract: connections whose messages are read once, in order, and then their end | |
| `LwipSocketsProofs` | no wake-up and no event is lost, `select()` tells the truth, it implements `Streams`, for all sizes | |
| `LwipTimeouts` | delta list, element pool, timers inside waits, tasks without a list | `sys.c`, `tcpip.c`, `sys_arch.c` |
| `TimerSet` | abstract: timers that are off, armed with time left, or running | |
| `LwipTimeoutsProofs` | the pool, the list and its times, and that it implements `TimerSet`, for all sizes | |
| `EthRx` | ring, interrupt, semaphore, input task, mailbox, pools | `ethernetif.c`, `stm32f4xx_it.c`, `stm32f4x7_eth.c`, `tcpip.c` |
| `Link` | abstract: frames come in order, some are dropped | |
| `EthRxProofs` | the invariants of `EthRx` for all sizes, and that it implements `Link` | |
| `Dhcp` | the DHCP task against lwIP's DHCP client, and the interface | `netconf.c`, `dhcp.c`, `netif.c` |
| `DhcpProofs` | the invariants of `Dhcp` for all addresses and bounds | |
| `TcpSend` | a connection that is written to and closed: queues, windows, retransmission, persist timer; a client and a network | `tcp_out.c`, `tcp_in.c`, `tcp.c`, `api_msg.c` |
| `TcpSendProofs` | queues and their order, counts, window and timer of `TcpSend`, and that it implements `Pipe`, for all sizes | |
| `Pipe` | abstract: the peer gets a prefix of what was written, and all of it after a close in good order | |
| `MCLwipSockets`, `MCLwipTimeouts`, `MCEthRx`, `MCDhcp`, `MCTcpSend` | instances for TLC | |

`FtpServer` and `FtpFiles` are two views of the same task. In `FtpServer` a command is what it does to
descriptors, with the blocking points of PASV, PORT and STOR as states (`pc`). In `FtpFiles` it is what it
does to the volume and to `struct conn`. One view does not constrain the other: whether a file can be opened
is a free choice in `FtpServer`, how an upload ends is a free choice in `FtpFiles`; so each is
sound without the other. Both have all interleavings of sessions.

### FtpServer

| TLA+ | C |
|---|---|
| `pc` | the place where the task is: `select`, `accept`, `walk` of `ftpd_thread`; `pasv`, `port`, `stor`, `send` where a handler blocks; `returned` when the volume cannot be mounted |
| `connList`, `todo` | `conn_list`; `conn` and what follows it in this walk |
| `sess[c].fd`, `.pasv` | `sockfd`, `pasv_sockfd`; a fresh `pasv_sockfd` is any member of `Unset`, since `malloc` does not write it |
| `slot` | `sockets[]`: what a descriptor refers to, whether there is unread data, the state of the other end |
| `backlog`, `pending` | accept mailbox of the control listener; `accepts_pending` |
| `lfd`, `pwait`, `ppending` | the local `sockfd` of PASV, its listener's mailbox and counter |
| `linger` | a closed connection that still occupies port 10000 (`tcp_bind` then fails) |

`Boot`, `Select`, `AcceptSkip/Conn/Error`, `WalkSkip`, `Disconnect`, `EndWalk` are the loop; `Cmd...` are the
commands up to their first blocking point; `SendEnd`, `Stor...`, `Port...`, `Pasv...` what comes after it;
`Connect...`, `Leave...`, `Data...`, `Peer...`, `LingerEnds` are the clients and the TCP/IP task.
`recv()` and `accept()` are inside the step that needs them; `LoopNeverBlocks` is what makes this sound, and
`ReadableIsRead` of `LwipSockets` shows the same for the calls themselves. There is no action for the 3 s of
`select()` in PASV (`ftpd.c:572`) nor for those of `recv()` in STOR (366): they never expire, see `LwipTimeouts`.
PASV waits until its client comes, STOR until the data connection ends; without either the task hangs (`Hangs`).
LIST, NLST and RETR with something to send on a connection (`CmdSendData`) keep the task in `send`, as `do_writemore` does until the client has read what
the send buffer cannot hold (`WaitsForReader`); only a reset makes `send()` return without that. On anything else than a connection
every `send()` fails at once (`CmdSendNothing`).

Two ghosts say which histories a property is about. `sess[c].holds`: `pasv` is a socket that this session
obtained and has not closed. `clean`: so far no session has used a `pasv_sockfd` that it did not hold and
that referred to something open. The code does not keep the server `clean`; see `foreign_close`.

Not in the model: replies on the control connection (`do_send_reply`, `cmds.c:45`, waits likewise when a client leaves replies of more than two
segments unread), two tasks in the unprotected pool of netconns at once, SYNs that never complete, the limit on TCP pcbs (10, never reached with 4 netconns but for
connections in TIME_WAIT, which lwIP recycles), `SLEEP`, the login (switched off in the code by `#if 0`).

### FtpFiles, FtpPaths, FatVolume, FtpStore

A path is a sequence of `"/"`, `".."` and names; `/a/b` is `<<"/", a, "/", b>>`. `FullPath`, `StepDown`,
`TrimSlash` are `do_full_path`, `do_step_down` and the start of `do_full_list`, with the side effect of the first
on `currentdir` (`DirAfterFullPath`). `FatAccepts` is what FatFs without relative paths takes. A file is the
sequence of its sectors, each the number of the upload that wrote it, so that who wrote what stays visible.
The volume has a number of clusters (`Capacity`, one sector each); `Clusters` are those allocated, each as an object and a number, and `Used` is how many: an upload stores what there is room for and is
acknowledged with 226 all the same (`StorFinished`, `ftpd.c:372`, 386), which `FtpStore`'s `Upload` says openly. `Leave` does not clear the memory and `Connect` sets only what
`alloc_new_conn` and the loop set.

`FtpStore` knows a place (a sequence of names) and a mark for each session and resolves a parameter the way
a user reads it (`Resolve`). `FtpFiles` implements it under `place <- Segments(currentdir)`, for parameters
without `..` and without a separator at the end (`IsPlain`; a lone `/` is plain). For others it does not; section 4 says what happens then.

Not in the model: lengths (`currentdir` of 512 bytes, `spare_buf` of 256), names that only begin with two
dots, commands without their parameter (`parameter_ptr == NULL`), failing media, growth of directories, dates and sizes in
listings, `\` as separator.

### LwipSockets, Streams

What `FtpServer` takes as one step, `lwip_select`, `lwip_accept`, `lwip_recvfrom` and `lwip_close`, is here every access
to what the FTP task shares with the TCP/IP thread.

| TLA+ | C |
|---|---|
| `conn`, `rcvevent`, `lastdata` | the fields of `sockets[]` |
| `socket` | `conn->socket`: the index, or below 0 the events counted before `accept()` |
| `mbox`, `refused` | `recvmbox`, `acceptmbox`; `pcb->refused_data` |
| `fatal`, `pcb`, `closing` | `conn->err`, what became of `conn->pcb`, netconns in state `NETCONN_CLOSE` |
| `held`, `scb` | `socksem`, `selectsem` and who has them; the entry of `select_cb_list` |
| `todo`, `api` | what the TCP/IP thread has still to do of a callback; the message in its mailbox |
| `ftp` | the place in the task's call, its socket and netconn |

`Connected`, `Segment`, `OfferAgain`, `Reset`, `LastAck`, `CloseAgain`, `ApiCall` start what the thread does; `Deliver`, `Post`,
`Count`, `Add`, `Scan`, `Clear`, `Done` are the places of `recv_tcp`, `err_tcp` and `event_callback` where it may wait.
Refused data is offered again by `tcp_input` or by `tcp_fasttmr` (`Offer`), and cleared only when the event has been told (`Clear`, `tcp_in.c:280`). Every wait
for a semaphore in between may run `tcp_fasttmr` (`NestedOffer`, `sys.c:141-158`), which knows nothing of that: if it posts what `tcp_input` has posted and not cleared yet,
its pbuf will be freed twice. The ghost `twice` says so, and the model goes no further. `tcp_fasttmr` is not run inside itself: its timer is armed when it has ended.
The thread has the higher priority, so a step of the task needs `Waits`. The
server accepts on what is readable and receives from the rest; it closes when `recv()` tells the end, or, as for QUIT and STOR,
with data in hand (`Quit`). `Streams` knows of each connection how far it was sent and read and whether the server
has been told of its end.

Not in the model: sending, `connect()`, UDP, `SO_RCVTIMEO`, memory that is wanting except in `tcp_close`, two tasks in the unprotected pool of netconns at once. `tcp_slowtmr`
inside a wait: resets, and closes tried again, come only while the thread is idle.

### LwipTimeouts, TimerSet

`timers` is the list with its deltas, `waited` the time of the current wait, `stack` what the thread is in the middle of: a
message, a handler, a wait for a semaphore inside of either (`sys_sem_wait` runs timers, `sys.c:126-174`). `free`
counts the pool, `leaked` what tasks without a list took of it: one at boot (`ethernetif.c:348`, before the
scheduler runs), one for each timed wait. `left`, a ghost, is the true time; `DeltasAddUp` compares the list with it.
`FetchMessage`, `SemWait`, `SemTaken`, `TimerExpired`, `PeriodicDone`, `TcpTimerDone`, `ConnectionMade`, `ConnectionsGone`,
`MessageDone` are the thread, `CommandRead/Done`, `TimedWait`, `Taken`, `TimedWaitSignalled` the FTP task, `Tick` the clock.
The FTP task takes its element in two steps: `TimedWait` reads the head of the free list (`memp.c:322`), `Taken` makes what is behind it the new head (325). The thread may
come between. `seen` is how long the list was that was read, `stale` whether the thread has changed it since. In a list that was changed the element may be the head again, which does no harm;
otherwise the pool is `torn`: an element has two users or is lost. Elements have no names here, so `Taken` leaves open which it is. What a torn list leads to (timers written over each other) is not followed.
`TimerSet` is a set of timers that run when their time is up and not while they run.

Not in the model: a wrapping tick count (49 days), `sys_msleep`, the pool after a tear, timers of PPP and IP reassembly (not in the build).

### EthRx, Link

`ring` holds the frames in descriptors of the CPU; `FrameArrives` puts one in and sets `flag`, `Interrupt` gives a token,
`ClearFlag` comes after it (`stm32f4xx_it.c:188`), so that a frame between the two sets a flag that is cleared unseen.
`eth` and `hand` are the input task: it takes a token, reads one frame (`Read`; without a pbuf
its descriptor is given back to the DMA, the pointer is NULL, and `AskForPbufs` posts the callback that shall free out-of-order segments, `pbuf.c:128-146`), and passes it to
`tcpip_input` (`Input`), which needs a message and a place in the mailbox. `thread` and `load` are what the TCP/IP thread handles and has still to free, `kept` the pbufs that connections hold.
There are three pools (`Pools`): pbufs, messages with frames, messages with callbacks; `left` counts the list of each. Eth_if has the highest priority, so what it takes and gives is
one step. `memp_free` of the thread (`BeginFree`, `Store`) and of the FTP task (`ReadFreed`, `ReadStored`) is two: the element is linked to the head that was read (376), and stored as
the new head (377). If another element is the head by then the pool is `torn`, and the model stops. Behind `Store` only Eth_if has been, which puts back what it took
or keeps it, so that counting tells the two apart; behind `ReadStored` the thread has been, too, and both are possible. `Behind` is the number of frames in the ring that
no token and no flag stands for. `Link` is a wire on which frames come in order and some are dropped; under `passing` are the frames in ring, hand and mailbox.
Only receive interrupts are enabled and the MAC drops bad frames, so `low_level_input` returns NULL only for want of a pbuf.

Not in the model: frames larger than one buffer, transmission, the copy itself, the pools after a tear.

### Dhcp

One action for each statement of `lwip_dhcp_task` and of the `dhcp_start` and `dhcp_stop` it calls where the thread may come between
(`dhcp_start`, `DiscoverSent/Freed/Counted`, `Poll`, `PollTries`, `dhcp_stop`, `ClientFreed`, `ClientForgotten`,
`Assigned`, `StaticChosen`, `StaticSet`); one for each message and time-out of the client (`dhcp_handle_offer`, `_ack`, `_nak`,
`dhcp_arp_reply`, `dhcp_timeout`). `memory` tells a client that was freed from none: the fine timer may find the former.
Servers may offer any address at any time, refuse, be silent; hosts may answer the ARP check.

What it takes for granted: `mem_malloc` gives zeroed memory to the first client; lease times are long enough (T1 of 90 s or
more) for renewal not to come before the task stops the client; a time-out of two seconds or more does not elapse between two
statements of the task; memory freed in `dhcp_stop` is not handed out again before `dhcp_stop` clears the pointer two statements
later; servers follow RFC 2131; there are no TCP connections yet when the address changes.

### TcpSend, Pipe

RETR's side of a data connection: the server writes `Total` units with `send()` and closes. The TCP/IP thread does one thing at a
time, so a step is a whole call of it: `Write` (`do_write`), `CloseConnection` (`do_delconn`), `Receive` (`tcp_input`), `SlowTimer`
(`tcp_slowtmr`, in which one counter has reached its limit), `Reset`. Below them are operators with the names and the order of the C functions, each from a pcb to a pcb.

| TLA+ | C |
|---|---|
| `unsent`, `unacked` | the queues; a segment has its first unit, its length, a FIN or none, its pbufs |
| `lastack`, `nxt`, `lbb` | `lastack`, `snd_nxt`, `snd_lbb` |
| `wnd`, `wl1`, `wl2`, `cwnd` | the client's window, what it was last learned from, the congestion window (a full send buffer stands for all above it) |
| `buf`, `qlen` | `snd_buf` (16 bits), `snd_queuelen` |
| `running`, `persist` | `rtime >= 0`, `persist_backoff > 0` |
| `infr`, `memerr`, `fin`, `acknow` | `TF_INFR`, `TF_NAGLEMEMERR`, `TF_FIN`, `TF_ACK_NOW` |
| `left`, `closing` | what `do_writemore` has still to enqueue (`NETCONN_WRITE`); a close to be tried again (`NETCONN_CLOSE`) |
| `input`, `out`, `acked` | `tcp_input_pcb`, what the step sends, `pcb->acked`: empty between steps |

The client (external) keeps what its window has room for, answers every segment, reads when it likes, and may end its own side at any time
without ceasing to read. The network loses segments and delivers them in any order; that one is delivered twice is the sender's repeating it.
The ghost `early` remembers that an ACK of `snd_nxt` was taken for the ACK of the FIN while something was unsent; see `unsent_purged`.

Not in the model: the handshake, data of the client and the out-of-order queue, round trip times and the length of time-outs, wrapping sequence numbers, keep-alive (off),
allocations that fail in `tcp_enqueue` (the limits of buffer and queue come first), two timers of one tick at once.

## 3. Runs

| Run | Instance | States | Question |
|---|---|---|---|
| `server_isolation` | 2 clients that end or reset, 4 descriptors, 4 netconns, backlog 1, fresh `pasv_sockfd` 1 or none | 2,766,605 | does descriptor reuse mix sessions up, block the loop, run the pool dry unnoticed? |
| `server_progress` | 2 clients that reset, 4 descriptors, 4 netconns, backlog 1, fairness | 904,484 | is every command read? |
| `files_store` | 1 session, 2 uploads of up to 2 sectors, 2 clusters, depth 2 | 10,308 | is the server a tree with a place in it, also when the volume is full? |
| `timeouts` | 4 timers of intervals 1 to 4, pool of 6 | 157,849 | are timers early, doubled or lost when they run inside each other's waits? |
| `sockets` | 2 connections, mailboxes of 2, 3 messages and none, fairness | 474,749 | does a wake-up, a message or an end get lost, does a call block? |
| `eth_rx` | ring of 3, 4 tokens, mailbox of 2, 3 messages, 2 pbufs, 7 frames | 655,017 | is every frame read once and in order, and its memory given back? |
| `dhcp` | 2 addresses, 5 tries, 3 refusals | 8,404 | does the board end with one configuration, and does it end? |
| `tcp_send` | file of 3 units, segments of 2, send queue and client's window of 2, 1 retransmission, 2 segments under way from the client | 150,061 | is anything forgotten, sent twice into the buffer's account or beyond the window; does the client get the file? |
| `foreign_close` | 2 clients, orderly memory | | finding: a session closes another's control connection |
| `tcp_timer` | as `timeouts` | | finding: the TCP timer is active and not scheduled |
| `reset_deadlock` | as `sockets`, mailboxes of 1, 2 messages | | finding: task and thread wait for each other |
| `unsent_purged` | as `tcp_send` | | finding: a close in good order that loses the rest of the file |

**Bounds of the build and of the runs.** Four descriptors and four netconns are the build's (`sockets.c:57`, `opt.h:302`):
two clients fill them, with a data connection too many. The backlog is 2 in the build (`ftpd.h:12`) and 1 in the passing runs, where one client
already fills it; `foreign_close` has 2, and the theorems hold for every backlog. In the isolation run the clients are symmetric; the progress
run uses no symmetry, but asks for the commands of one client, as nothing tells the two apart (`CommandServed` in `MCFtpServer`). Likewise `EndIsSeen` in `MCLwipSockets` is about the connection
that may do all that the other may. Two uploads are what it takes for one to overwrite part of another; two clusters is
a volume that the second upload may find full; depth 2 is a file in a directory. The pool of time-outs has ten elements in the build:
with six, and four timers, one wait of the FTP task can be afforded after the one leaked at boot, and the next is one too many; the intervals keep their order.
Mailboxes hold six in the build. With two, one message may be there, two be posted inside of one another, and the next be refused; three messages are more than they hold.
With one an offer inside an offer would find no room; `reset_deadlock`, where a full mailbox is all that matters, has one. The ring of 5 with
a semaphore of 20 is 3 with 4 here: all that matters is that the ring is no larger, and that there is a message more than places in the mailbox (`RxAssumption`; 2 and 3 here, 6 and 8 in the build, `tcpip.c:328`).
Two pbufs are used up by one frame in the hand and one on the way; seven frames are more than ring, mailbox and thread hold. `MaxDhcpTries` is the build's (5, as `netconf.c:130` compares).
`TCP_SND_BUF` is two segments, as in the build; segments of two units can be filled in two writes, halved by a window or a probe, and acknowledged
in the middle; three units are more than queue and window hold, so that the writer waits and the window shuts; two ACKs under way can overtake each
other, and more come one after the other, three duplicates among them. One retransmission without an answer is allowed, so that the next tick of the timer gives up.
Bounds that only the exploration knows: `FollowUnclean` (whether it goes on after a session has misused a
descriptor), `MaxSectors`, `MaxUploads`, `MaxDepth`, `MaxDir`, `MaxSegments`, `MaxFrames`, `MaxRefusals`, `WireSize`, `AcksSize`, one FIN of the client under way at a time; the server is not followed
once it has closed its own listener.

`CHECK_DEADLOCK FALSE`: the server task may return at the mount, clients need not do anything, frames and servers need not come, the
DHCP task ends, and a connection does. In `LwipSockets` a deadlock is what `reset_deadlock` is about. `LwipTimeouts` is checked for deadlock: its clock always ticks.

**What the properties say.**

* `WalkIsSound`: the `next` pointer saved at `ftpd.c:157` never dangles. Holds even after misuse.
* `SessionsAreIsolated`: while `clean`, each session's `sockfd` is its client's connection, the listener is
  open, each data socket has one holder. `ClosedInOwnTurn`: and nobody loses a control connection but in their own turn.
* `LoopNeverBlocks`: what `tmpfds` says is still true when the walk comes to it, though other sessions'
  commands ran in between.
* `AcceptFindsDescriptor` (no run has it; it is proved): `accept()` fails for a reset connection only, since a waiting connection already
  holds a netconn and there are as many descriptors. So the `continue` of `ftpd.c:135` is rare, but then
  nobody is served in that round, which is why `CommandServed` assumes that it does not happen for ever.
* `PasvNeedsRoom`: a PASV connection waits only when sessions + 3 netconns fit: with two sessions never.
* `PendingCoversBacklog`: the 8-bit `accepts_pending` never wraps.
* `CommandServed`: a command that has arrived is read, unless the task hangs for good (`Hangs`: the data connection of a PASV
  was aborted for want of a netconn, or STOR came without one; `NeverRead`: a client does not read what it asked for). Without the latter exception TLC finds
  the server standing in `send()` while another session's command waits.
* `ImplementsStore`, `VolumeIsTree`: section 2.
* `DeltasAddUp`, `ImplementsTimerSet`: whatever interrupts what, no timer runs early, twice for one arming, or inside itself.
  `NoTimerLost`, `TimersGoOn`: and none is lost, as long as the pool has an element for each. All of them hold as long as the pool is whole (`torn`, in `PoolLasts`);
  it need not stay so (section 4), and the run gets there.
* `EventsCounted`: the counts in `conn->socket` and `rcvevent` and the mailboxes agree, through `accept()` and after.
  `SleepsWhileNothingReadable`: `select()` sleeps exactly while nothing is readable. `ReadableIsRead`: what its unprotected
  second scan reported is still there. `ImplementsStreams`: order of data through refusals and retries, until refused data was posted twice, which the run reaches (section 4).
  `EndIsSeen`: the server is told of every end, unless task and thread stop each other (`MutualWait`), a close loses its
  pcb (`CloseForgotten`) the end itself is lost (`lost`), or a pbuf is freed twice (`twice`): accidents that `reset_deadlock` and section 4 show.
* `FrameForEveryToken`: the input task never looks into an empty ring. `NothingLeaks`: pbufs and messages
  come back on the error paths too, and between the two steps of `memp_free`. `ImplementsLink`: order, no frame twice. Both as long as no pool is torn, which the run reaches (section 4). `NeverCaughtUp`: what one interrupt leaves behind for two frames stays
  behind. `ReadUnlessCoalesced`: and that is the only way for a frame to stay.
* `OneConfiguration`, `LeaseIsOurs`, `QuietWhenDone`, `OneMessageLost`, `AddressAtLast`: the two threads of DHCP end with address, mask and gateway
  of one source, which PASV announces and nothing changes later; the overlap of first message and first answer costs one
  message at the most; and they do end, unless `dhcp_start` failed and the byte at the address of `tries` in a null structure
  is small (`NoClient`).

* `NothingForgotten`, `RetransmissionRuns`: every unit written and not acknowledged is in one segment, the counts agree with the
  queues, and a timer watches over them, whichever way segments are repeated, merged or acknowledged by half. `SentWithinWindow`: old windows are not taken for new.
* `ImplementsPipe`: a close that went to its end (TIME_WAIT, CLOSED, the time-out of FIN_WAIT_2) means that the client has everything, except in the histories marked `early`, where it
  may not have (run `unsent_purged`).
* `TransferEnds`: the client gets the file and its end, unless the connection is reset or given up, or `early`. It holds for clients
  whose buffer has room for what the send queue holds, which any client with a window of two segments has; with a smaller one TLC finds a stall (section 4).

**Fairness.** `FtpServer`: the task runs when it can (the tasks above it block for most of the time); the client of a PASV connects,
and an upload ends (`WF(DataConnect)`, `WF(UploadEnds)`): the code has nothing against clients that do not, since its time-outs never expire,
and then nobody else is served. That a client reads the data it asked for is not assumed: `send()` has no fairness while it waits for a reader, and the property
excepts by name the histories in which it waits for ever (`NeverRead`). That clients read the replies on their control connection is assumed, as replies are not in the model.
`LwipTimeouts`: the thread ends its messages and the handler of TCP, and a semaphore is given back, though other things come in between again and again (strong
fairness of `MessageDone`, `TcpTimerDone`, `SemTaken`); a timer that is due is run; time passes for the wait (`Tick` while `Counted`).
`LwipSockets`: thread and task run when they can; `poll_tcp` tries a close again; a partly read message is read on.
`EthRx`: the handler, the input task and the TCP/IP thread run when they can, as their priorities say.
`TcpSend`: task and timers go on when their turn has come for good (written as `<>[]E => []<><<A>>`, as E is the guard of A); the client
reads; of what is sent again and again something arrives: the client's latest word, the segment it waits for, and the others.
`Dhcp`: the task is scheduled, and the fine timer runs while the task sleeps between looks.

## 4. Findings

Each is a violation run; the sources disagree with themselves.

* `OnlyTheCurrentIsClosed`: a client makes a data connection by PORT or PASV and uses it; its number goes
  to the next client's control connection; LIST of the first client now closes the second client's session.
* `ActiveMeansScheduled`: each timed `select()` of the FTP task that has to wait, which is every PASV, takes one of ten time-out elements for ever.
  When the last is gone, `tcp_timer_needed` sets `tcpip_tcp_timer_active` before a `sys_timeout` that fails (`tcpip.c:105`):
  TCP has no timer any more and never gets one.
* `ApplicationDecides`: `err_tcp` posts to the receive mailbox with the post that waits for room. If the mailbox is full and the
  FTP task waits for the answer to a message of its own, both wait for ever.
* `UnsentDataIsSent`: the client has acknowledged all that was sent, its window is full, data and FIN wait in `unsent`; it ends its own side.
  `tcp_process` finds `ackno == snd_nxt` in FIN_WAIT_1 and goes to TIME_WAIT, and `tcp_pcb_purge` frees the rest of the file. The same ACK without a FIN leads to
  FIN_WAIT_2 early (698), whose 20 seconds may end before the client reads on.

Three accidents of interleaving that the passing runs reach, and beyond which their models do not go (TLC prints each as the violation of the invariant `~torn` or `~twice`). The sources have it
that the allocation functions "may be called from multiple threads" "since they are protected by SYS_LIGHTWEIGHT_PROT and/or semaphores" (`rawapi.txt:44`), and that refused data is
"not yet taken by upper layer" (`tcp.h:366`).

* `torn` in `timeouts`: the FTP task has read the head of the pool of time-outs; the thread, which waited for the transmitter inside of `tcp_tmr`, goes on and arms that timer again
  with the same element; the task goes on and writes its own time-out over it. With more timers in between, what the task stores as the head may be the element of an armed timer.
  TLC's shortest way: a timer expires in between, its element becomes the head, and the task's store loses it.
* `torn` in `eth_rx`: the thread frees the pbuf of a frame; between the two statements of `memp_free` Eth_if takes the head of the list for the next frame; the thread's store puts that back on the list
  while it waits in the mailbox. The frame after it is written over it. With a message in place of the pbuf one frame is delivered twice, and the other never.
* `twice` in `sockets`: `tcp_input` offers refused data; the event for it is about to wait for a semaphore (`sockets.c:1059`), and `sys_sem_wait` first runs the timers that are due (`sys.c:141-158`), among
  them `tcp_fasttmr`, which finds `refused_data` still set and room for one more. `recv()` reads the same data twice and frees its pbuf twice.

Other disagreements met on the way, which no run is spent on. The end of a stream is dropped when the mailbox is full (data would be
kept in `refused_data`, `tcp_in.c:336`), or eaten by `recv()` when it goes round its loop with data in hand (`sockets.c:519`), though "we call the
callback function with a NULL buffer to indicate EOF" (`tcp_in.c:333`). A NAK takes the interface down (`dhcp.c:172`) and the fall-back to the static
address does not bring it up, though "When the netif is fully configured this function must be called" (`netconf.c:78`).
`nrtx` steps over `TCP_MAXRTX` when a fast retransmission comes after the last time-out; `tcp_slowtmr` compares with `==` (608), never gives up
any more, and reads `tcp_backoff` behind its end (637), which `init.c:107` means to prevent. "If snd_wnd is zero, use persist timer" (612): it is
used also when the window is smaller than the next segment, and then nothing is retransmitted; with `TF_INFR` still set no fast retransmission comes
either, and if a probe alone does not fit the client's idea of progress the connection stands still (`PeerBuf = 1`, `Total = 3`). A persist timer never
gives up on a client that is silent. Out-of-order segments: `pcb->ooseq` is read where `next` is meant, after it may have been freed, when one is trimmed (`tcp_in.c:1210`). A failed PASV leaks its listener (`close(conn->pasv_sockfd)` in place of
`close(sockfd)`, `ftpd.c:593`), so that port 10000 stays taken for every later PASV, though the reply says to try PORT (590). The isolation properties hold through this: they say that nobody else is touched, not that the socket comes back.
A client that does not read its replies stops the server in `do_send_reply` (`cmds.c:45`), as one that does not read its data does in `send()`.
With two sessions the pool is empty when 227 is sent: the announced port cannot be reached (563).
An abort for want of a netconn happens in ESTABLISHED, where `tcp_pcb_purge` does not take it off `accepts_pending`
(`tcp.c:1198`): after two of them the control port refuses everyone (`rawapi.txt:140` has the backlog limit waiting connections).
"Listening %d seconds" (561) and "Waiting %d seconds for data" (366) announce time-outs that never come.
REST promises 350 for a STOR that ignores it (491). `do_full_list` cuts a slash at the end off its parameter only (`cmds.c:64`): a directory entered by
`CWD a/` is not found. `DELE ../b` in `/x/y` acts on `/x`: what follows `..` is dropped, and *any* command moves the session
(`cmds.c:246`, 255; the README of the sources knows that counting `..` is unfinished). `cmds.c:86`: `mon > 12` lets a month of 0 through as 65535.
When the pbuf pool is empty a NULL goes through `tcpip_input` and is read at `etharp.c:1153`. After an offer without a server identifier
(`dhcp.c:1454`) no time-out is set. The lease is never renewed, since the client is stopped as soon as there is an address (`netconf.c:118`).

## 5. Proofs

The theorems hold for every value of the constants, from the assumptions named in the modules: `FtpServer` (positive numbers, no more netconns than descriptors, finitely
many clients), `FtpFiles` (`ParamsAssumption`: the parameters are paths; `OffsetsAssumption`, `BoundsAssumption`, `CapacityAssumption`: offsets are integers, the bounds positive, the clusters a number), `EthRx` (`RxAssumption`: the ring no larger than what the semaphore counts to, a message more than the mailbox has places), `Dhcp`
(`DhcpAssumption`: the addresses differ, at least one try), `LwipSockets` (`SocketsAssumption`: finitely many connections, mailboxes with a place, a `None` that is nothing else), `LwipTimeouts` (`TimeoutsAssumption`: more elements than timers), `TcpSend`
(`SendAssumption`: the writer writes at most a segment at a time, the send buffer holds two and fits 16 bits, as the configuration has it).

* `FtpServerProofs`: `ListsCorrect == Spec => []ListInv`. `ListInv` strengthens `WalkIsSound` and
  `PendingCoversBacklog` by the disjointness of session list and mailbox; without it a queued client could be
  admitted twice. Every action is one of a few kinds of change to the lists (the `...ListStep` lemmas), and each
  kind keeps `ListInv`. Corollaries: `WalkStaysSound`, `PendingStaysCovering`.
  Its second part: `Invariance == Spec => []IInv` with `IInv == ListInv /\ NetTypes /\ OwnershipInv`.
  `SessionsAreIsolated` is not inductive: PASV and PORT suspend with a socket of their own (`lfd`, a raw
  `pasv`), which a later step uses; and a session that is not listed must own nothing, or its return would
  find a second owner. `OwnershipInv` adds just that. The heart is `CloseDataKeepsOwned`: a proper
  close of `pasv_sockfd` hits a socket of the session itself, or nothing. Then one lemma for each group of
  actions (loop, commands, blocked handlers, environment). `TypeCorrect` and `Isolation` follow.
  Its third part: a command other than QUIT, and the rest of a suspended one, leaves every control connection as
  the `recv()` left it (`CommandSpares`, `BlockedSpares`, from `Owned`). Hence `ClosingTurns` (`ClosedInOwnTurn`)
  and, with the invariant that all `tmpfds` says holds for the sessions still to come (`ReadyInv`), `NeverBlocks`
  (`LoopNeverBlocks`). A PASV listener that a failed PASV leaked may be reported by `select()` through a stale bit of
  `readfds`, and its mailbox may be emptied by a close; `ReadyInv` leaves such a listener out, since the loop never looks at it.
  Its fourth part counts netconns: every action makes one of four changes to the number of netconns in use (`Shrinks`, `Takes`, `Moves`,
  `Arrives`), so that `PoolNeverOverdrawn`; with no more netconns than descriptors `AcceptSucceeds`
  (`AcceptFindsDescriptor`) follows by counting. Neither needs `clean`. `RoomForData` (`PasvNeedsRoom`) does: then the listener, the
  sessions' sockets and the PASV listener are as many different open descriptors (an injection from `0 .. Len(connList) + 1`), and that there
  is a PASV listener when a connection waits for one is an invariant of its own, `MailHasListener`.
* `FtpFilesProofs`: `TreeStaysConnected` (`VolumeIsTree`). The root itself may be named by a command (`RMD /`), so the
  invariant (`Connected`) adds that it is a directory. One lemma for what FatFs puts into the tree and one for what it takes
  out, then one step for each command. `Invariance == Spec => []FilesInv` adds that `currentdir` is a path, whatever the parameter was, and that the clusters fit
  the volume: what an upload stores is cut to `Room` (`PutFits`), a removal gives clusters back (`UnlinkFits`). Hence `TypeCorrect` (`TypeOK`) and `NeverOverfull`.
  `Refinement` (`ImplementsStore`) is about what a path means. `Segments` walks along its tokens, and a walk is a recursive function over the numbers
  (`RecursionOnNat`): the segments of a concatenation are those of its parts in turn (`SegmentsConcat`). So `do_full_path` of a plain parameter
  names what `Resolve` says and FatFs takes it (`FullPathPlain`, `PlainAccepted`), and `do_step_down` drops the last segment (`StepDownPlain`). Then `DirsPlain`, which says that no
  session ever stands in a directory spelled with `..` or a separator behind, and one lemma for each command, its failures included.
  The theorem assumes that every member of `Params` is plain, as the run `files_store` does (`ParamsArePlain`). It is false without: the
  findings of section 4 are its counterexamples. `TreeStaysConnected`, `TypeCorrect` and `NeverOverfull` hold for any parameters.
* `EthRxProofs`: `Invariance` of an `IInv` that counts tokens, frames, pbufs and messages. `FrameForEveryToken` is not inductive
  without what flag and handler stand for (`Behind`), `NothingLeaks` not without the frame in the task's hand and what thread and FTP task have read of the lists they put something into; then
  `NeverAnEmptyRing`, `Conserved`, `PoolSuffices` (`MessagesSuffice`: a frame is never turned away for want of a message, whatever is on its way back to the pool), `BehindForEver` (`NeverCaughtUp`). `Refinement` (`ImplementsLink`) rests on
  `InOrder`: mailbox, hand, ring and wire each hold ascending frame numbers, and what is nearer to the stack came earlier. A step
  then is a frame put on the wire, a drop, the delivery of the least frame under way, or a stutter.
* `DhcpProofs`: `Invariance` of an `IInv` that says what the task may find at each of its statements: a client that is live, freed or none, a message
  that may still be its own, an address only where an ACK was. Hence `Configured`, `Acknowledged`, `AtMostOneLost`, `QuietForEver`.
* `LwipSocketsProofs` has three layers. The first is `Invariance` and `NoWakeupLost` (`SleepsWhileNothingReadable`). While the task sleeps in `select()` something
  may be readable only if the thread has still to scan for it: `Ordered` says that what the thread has left to do puts a scan
  behind every event it adds, `EventsPlaced` that such an event is for a socket that is still
  open; and while the task holds `selectsem` for its own last look nothing is added. The other conjuncts say what
  the task holds at each place of its calls, that an answer comes last, and that the socket in its hands and the netconn in them belong together (`HandInv`).
  The second, `Ownership`, keeps accounts. `SocketInv` and `AcceptInv` say which netconn has which socket and which none yet, `PcbInv` and
  `CloseInv` what a reset or a close leaves behind; that a slot is free when `accept()` looks for one is a pigeonhole from them.
  `CountInv` counts a receive event three times over: in the mailbox, in `rcvevent` or below 0 in `conn->socket`, and
  among what the thread has left to do (`Owed`). With `MailInv`, what the messages are, this gives `NoEventLost` (`EventsCounted`),
  `SelectTellsTheTruth` (`ReadableIsRead`) and `TypeCorrect`.
  The third, `Refinement` (`ImplementsStreams`), follows the messages (`FlowInv`): the first of a mailbox are those after the last one read, the
  rest are ends (`Following`); a message under way is the last one sent, or refused data that is offered again and not posted twice; where the task has met an end, the connection is gone or all is read (`Meets`).
  Each step then is `Open`, `Arrive`, `Go`, `Read`, `Tell`, `Leave` or `Close` of one connection, or does not show.
* `LwipTimeoutsProofs`: `Invariance` of an `IInv` that accounts for every element of the pool (free, in the list, or leaked) and says that no
  handler is listed or running twice. Without it `NoTimerLost` is not inductive: that an element is left for the handler that ends
  follows from counting the entries of a list without repetition (`RoomForMissing`). `InsertList` is the one lemma about `sys_timeout`.
  On top of it `TimesInvariance`: when each entry is due is a prefix sum of the deltas, and four lemmas say what
  `sys_timeout` (`InsertDue`), a shortened wait (`ShortenedDue`), an expired entry (`TailDue`) and a tick do to all of them. Hence
  `TimersInTime` (`DeltasAddUp`), `TypeCorrect` and `Refinement` (`ImplementsTimerSet`).
* `TcpSendProofs`: `SendInvariant == Spec => []Inv`. A step of `TcpSend` is a whole handler (an ACK takes segments off, completes a write, sends what
  the window allows, repeats a segment), so the heart is a predicate `Sound` that holds between its parts, when a timer need not be set yet, and a frame
  (`Keeps`) that says what a part leaves alone. One lemma for each part of `tcp_receive`, `tcp_process`, `tcp_output`, `tcp_rexmit`, `tcp_rexmit_rto`,
  `tcp_enqueue` and `do_writemore` shows that it keeps both, in whatever order the handlers call them. `Filled` is the account of the queues: every unit from `lastack`
  to `lbb` is in one segment of one queue, no other is, segments do not overlap, and `qlen` and `buf` are their counts. Since this does not say where in the queues, it
  survives `tcp_rexmit`, which leaves a queue out of order in the middle of a step. `Inv` adds that the network has nothing that was not written, and
  no ACK of what the client has not got. Hence `SendTypes` (`TypeOK`) and `TimerRuns` (`RetransmissionRuns`). `FileArrives` (`ImplementsPipe`) adds to `Inv` that an end in good order is an acknowledged FIN, behind everything (`GoodEnd`); that each part
  of a handler takes the state only onward (`Onward`); and then that each step is one of `Pipe`'s or does not show.
  Two more invariants stand on `Inv`, both until the client sends its FIN: an ACK with a FIN has another sequence number, and `snd_wl1` then lets an older window
  in. `WindowInvariance`: what the client has announced (`Edge`) never goes beyond its buffer nor back, and every ACK under way and the pcb's own
  `snd_wnd` are one of its words (`Word`, `Granted`): of two words the one that acknowledges more reaches no less far (`LaterAll`), so that a late ACK does no harm.
  Hence `WindowRespected` (`SentWithinWindow`). `OrderInvariance` carries the order of the queues (`Sorted`) through each handler. In the middle of a step it is
  broken: `tcp_rexmit` moves the first segment of `unacked` to the front of `unsent`, while the rest of `unacked` lies between it and those that follow it there. That the same step sends
  it again, and `tcp_output` then puts it back in its place, is so because it lies in the window and nothing comes before it. The window that was announced once is not taken back, so
  the invariant of the window comes first. `AllSent` adds that the client has nothing from beyond `snd_nxt` but the unit of a
  probe. With `Filled` this is `NothingIsForgotten` (`NothingForgotten`).
* `SequenceElements` has the facts on `RemoveAt`, `InsertAt`, `Head`, `Tail`, `Append`, `\o` and their elements, on how often something occurs, and on
  `PrefixSums`, which `Sums` defines as a recursive function. The induction they need is `InductionOnNat`: a set of numbers that has 0 and
  successors has all, from the least that it lacks (`LeastNat`); the library's rule takes an operator, which no prover here can instantiate. `RecursionOnNat`
  gets from it that a function defined by its value at 0 and a step exists, and so has the values that its definition says.

TLC checks every property that a `PROJECT.json` theorem names in a run as well; most strengthenings, and the counts of `PoolNeverOverdrawn`, `PoolSuffices` and `NeverOverfull`, are only proved.

Every invariant, action property and refinement of the passing runs has a theorem. Only model-checked is liveness, which the prover does not handle (nor `ENABLED`):
`CommandServed`, `TimersGoOn`, `EndIsSeen`, `ReadUnlessCoalesced`, `AddressAtLast` and `TransferEnds`.

## 6. Plan

Done, in this order: `FtpServer` with its proofs; `FtpPaths`, `FatVolume`, `FtpFiles`, `FtpStore`; `LwipSockets`;
`LwipTimeouts`, `EthRx` and `Dhcp` with their proofs; `TcpSend`; the proofs about `LwipSockets`, of the times of `LwipTimeouts` and of both refinements; the proofs about `TcpSend`, its window and the order of its queues; the types, clusters and refinement of `FtpFiles`. Left, in the order of what it would add:

1. `Select` of `FtpServer` as an abstraction that `LwipSockets` implements, so that the two become one proof.
   The unprotected pool of netconns, and `tcp_slowtmr` inside a wait, belong there; replies on the control connection to `FtpServer`.
2. The receiving half of TCP with its out-of-order queue, next to `TcpSend`; below both `low_level_output` and the transmit semaphore.
3. Segmentation of the control stream (`ftpd.c:160`), commands without a parameter, the 512 bytes of `ftp_buf`.
4. The inside of FatFs: FAT and directory sectors, and a medium that fails or loses power between two writes.

## 7. Not modelled

FreeRTOS, the STM32 libraries, CMSIS, FatFs below the tree of names (clusters are only counted), the code pages, ARP, IP, UDP, SNMP, PPP, AutoIP and the heap of
lwIP: vendored, and either not used by the server or without logic of this program's own. Of TCP the handshake, the receiving half
and the round trip times are left out; `FtpServer` and `LwipSockets` have what receiving means to the server. Renewal and rebinding of a lease: the task stops the client before. Board set-up, LEDs, serial
port, start-up code: I/O without state. Formatting of replies and listings. Logins. NOOP, RNFR, RNTO
and an idle timer are named in the sources' README but are not in the code.

Hazards without a property: a path with `..` (the model has it, the abstract store does not), one `recv()` taken for one command, the write
behind `ftp_buf`, the write through NULL in `alloc_new_conn`, replies that are not read (`cmds.c:45`), two tasks in the pool of netconns (`api_msg.c:498`), `tcp_slowtmr` inside
a wait (`sys.c:157`), the listener that a failed PASV leaks (the model has it; it disturbs nobody but the next PASV), and the two that the models have and nothing in the code prevents: `nrtx` beyond its limit, and a
configured interface that is down.
