# KNXDemo: a TLA+ verification development

KNXDemo is an Android application that switches a KNX lamp.  A Java activity
calls a native library, which talks either to a light controller on a serial
line or to a KNXnet/IP gateway over UDP, and which carries a copy of a network
and threading toolkit (`zltoolkit`) and of a KNXnet/IP frame library
(`knx/proto`).  This directory holds TLA+ modules of that code, the TLC
configurations that check them, and theorems about them that TLAPS checks.
All C++ paths below are relative to `src/app/src/main/cpp/`.

## Inventory

| component | code | state it keeps | operations |
|---|---|---|---|
| activity and JNI | `MainActivity.java`, `IKNX.java`, `JniImp.cpp` | none | three buttons (on, off, query); `native_test` at start |
| serial light control | `com/ComFunc.cpp`, `ComDrive.cpp`, `ComPack.cpp` | one descriptor, one receive buffer per call | `comLightControl`, `comLightStateControl` |
| KNX tunnelling client | `knx/KNXWrapper.cpp` | `g_knxClient` (two sockets, remote address, channel), unlocked | `knxTest`, two capture threads, `thr_knx_keep_live` |
| management requests | `knx/KNXWrapper.cpp:254-1847` | none | one generated and 21 recorded requests, sent with a channel and a sequence number |
| KNX frame library | `knx/proto`, `knx/include` | none | `knx_generate`, `knx_parse` and one pair of functions per service |
| event poller | `zltoolkit/Poller` | event map, task list, delayed tasks, expired-event cache | `addEvent`, `delEvent`, `modifyEvent`, `async`, `sync`, `doDelayTask`, `runLoop`, `shutdown` |
| executors and thread pool | `zltoolkit/Thread` | task queue, semaphore, load counters | `async`, `sync`, `push_task`, `push_exit`, `getExecutor`, `getExecutorDelay` |
| sockets | `Network/Socket.cpp`, `BufferSock.cpp` | descriptor, two send buffers, epoll's interest, timers | `connect`, `listen`, `send`, `flushAll`, `onRead`, `enableRecv`, `emitErr`, `closeSock` |
| servers, clients, sessions | `Network/TcpServer.cpp`, `UdpServer.cpp`, `TcpClient.cpp` | clones per poller, session maps, one connection | `start`, `onAcceptConnection`, `onManagerSession`, `getOrCreateSession`, `startConnect` |
| logging, pools, rings, notices | `zltoolkit/Util` | queues, caches, listeners | `Logger`, `ResourcePool`, `RingBuffer`, `NoticeCenter`, `SqlPool` |
| TLS boxes | `Util/SSLBox.cpp` | what waits for the handshake, memory BIOs, contexts by name | `onSend`, `onRecv`, `flush`, `shutdown`, `loadCertificate`, `getSSLCtx` |
| system wrappers and helpers | `Network/sockutil.cpp`, `zltoolkit/Util` | the DNS cache, the clock's counters | descriptors, adapters, files, digests, base64, dates, ini files, paths, buffers |

How they interact: the buttons call `openLight` and `openLightState` on the UI
thread, which block in the serial exchange; `MainActivity.onCreate` calls
`native_test` and with it the poller's test.  The KNX client shares
`g_knxClient` between its main thread and two capture threads with nothing but
sleeps to order them, and calls the frame library for every datagram.  The
toolkit's sockets run on pollers, the pollers are executors, the pool chooses
one by load.

What is hard in this code, with the lines, is the list `hazards` of
`PROJECT.json`.  In short: answers without numbers on a line that delays and
damages them; fixed sleeps in the place of waiting for an answer; a global
structure written by one thread and read by another; delayed tasks, wakeups and
shutdown of the poller; the exit message of the thread pool; length fields
computed by one function and filled by another; results of a connection that
race with its timer; sessions that leave a map while other pollers fill it;
readers that come and go while writes to them are queued; system calls each of
which may fail behind an open descriptor.

What makes each component correct, in a line: a call of the serial line closes
its port and believes only what was said during it; the KNX client talks to one
gateway over a channel that it was granted; a frame is received as it was sent;
a task posted to any executor runs once and in order; a timer's task runs when
it is due; what is sent is written in order, once; a connection attempt is
answered once and keeps no descriptor; a session is told once that it ended,
and ends with its server; a helper gives what its name says for all inputs,
lengths and cuts at the limits.

## Modules

| module | what it is | extends or instantiates |
|---|---|---|
| `SerialLight` | the serial exchange, the tty, the line, the controller | |
| `KnxClient` | `knxTest`, its threads, the datagrams, the gateways | `KnxSession` as abstract specification |
| `KnxSession` | what the tunnelling client promises | |
| `KnxData` | datapoint values to octets and back | |
| `KnxFrames` | the frame library: generate, size and parse of every service | `KnxData` |
| `KnxExchange` | datagrams between client and gateway, octet by octet; the recorded requests | `KnxFrames` |
| `EventPoller` | the poller's loop, tasks, pipe, descriptors, end | `AsyncExecutor` |
| `DelayTasks` | delayed tasks, their map, the length of the sleep | |
| `ThreadPool` | the pool, its queue and semaphore, `sync`, the end | `AsyncExecutor` |
| `AsyncExecutor` | what `async` and `async_first` promise of any executor | |
| `SocketSend` | the two send buffers, the write event, errors | |
| `SocketRead` | handing over a descriptor, reading, pausing, errors of any thread | |
| `SendList` | the lists of packets that are handed to the system | |
| `TcpClient` | an attempt to connect, `TcpClient` above it | |
| `TcpServer` | accepting, the servers of all pollers, sessions | |
| `UdpServer` | the session map of a UDP server, its sockets and pollers | |
| `PollerSync` | `sync` between pollers, `getExecutorDelay` | |
| `LoadCounter` | the load of a thread and the choice of an executor | |
| `RingBuffer` | the media ring, its dispatchers and readers, messages and `getInfoList` | |
| `ResourcePool` | the recycling pool | |
| `NoticeCenter` | listeners of one event | |
| `AsyncLog`, `FileLog` | the logger's thread; files by day and slice | |
| `SqlPool` | statements that failed and are tried again | |
| `SslBox`, `SslContexts` | both ends of a TLS box; the choice of a certificate | |
| `SockUtil`, `NetAdapters` | the DNS cache and descriptors; addresses of adapters | |
| `Files` | making, deleting and scanning of directories by several threads | |
| `Digests`, `Conversions` | MD5 and SHA1 up to their compression; base64, dates, ini files, paths, splitting | |
| `StampThread` | the clock's thread | |
| `LikeString`, `BufferRaw` | the two buffers of `Network/Buffer.h` | |
| `Network` | five parts with liveness, side by side | `DelayTasks`, `TcpClient`, `TcpServer`, `SocketSend`, `PollerSync` |
| `Sharing` | eleven parts, side by side: what threads share, and what is kept | `ResourcePool`, `NoticeCenter`, `UdpServer`, `SocketRead`, `SockUtil`, `NetAdapters`, `SqlPool`, `FileLog`, `StampThread`, `SslContexts`, `Files` |
| `Toolkit` | twenty parts, side by side | `Sharing`, the other modules of `zltoolkit` above |
| `SequenceLemmas` | facts about sequences: ranges, duplicates, order | used by the proof modules |
| `SerialLightProofs`, `KnxClientProofs`, `EventPollerProofs`, `ThreadPoolProofs` | theorems of the module each is named after | that module |
| `NetworkProofs` | theorems of `Network`: of its servers, clients, sends and delays | `Network` |
| `KnxExchangeProofs` | theorems of `KnxExchange`, and of the operators of `KnxFrames` and `KnxData` | `KnxExchange` |
| `SharingProofs` | theorems of `Sharing` | `Sharing` |
| `MCKnxExchange` | the values that the frames of the run take | `KnxExchange` |

A configuration gives the constants their values and replaces no definition.
`Network` and `Toolkit` put modules side by side that
share no state in the code either: a pool of connections and a ring of frames
have nothing to interleave.  Their variable `part` says which of them a behaviour
exercises, the other variables stand still, and a property about one part says
so.  `Sharing` is eleven of the parts of `Toolkit`, those whose theorems are proved:
a proof about the whole of `Toolkit` would carry every other part along.  For the
same reason these modules have the few helpers they
need (`Lowest`, `Where`, `Front`, `Put`) and extend no community module beyond
`Functions`: what an instantiated module extends is in the context of every step
of the proofs.  What does
interact is inside one module: the poller's thread, the threads
that call it and the kernel.  Where an action has a variant marked
`mutant`, no next-state relation uses it: it is what the action would be with a
plausible bug in that code, and is there so that each property can be seen to
depend on the code it is about.  `PROJECT.json` pairs them (`mutants`) and gives
the source lines of every definition (`map`).

### SerialLight

One call of `comLightControl` ("set") or `comLightStateControl` ("query") is
open, send the command, receive the acceptance, receive the report,
acknowledge, close.  `pc` is the place of the calling thread in that sequence;
`Return(r)` is every `com_close` followed by a `return`.  `Open`, `Send`,
`WaitAck`, `RecvAck`, `WaitBuf`, `RecvBuf`, `RecvBufDone`, `ReadError`,
`ReadZero` and `SendAck` are the steps between two system calls.  `rx` is the
input queue of the tty, `got` the receive buffer.  Bytes are counted in units of
seven, the size of an ack: `recAck` takes one, `recBuff` several, and a report
is two, so a frame cut by a buffer's end, or a damaged half, can be expressed.

`DevCommand`, `DevReport`, `WallSwitch` and `HangUp` are the controller, the
user and the line (external).  A command can be lost, arrive after its call has
given up, and be acknowledged in the next call, which is the heart of the
difficulty: no frame carries a number.

What the code does at its edges and the model keeps: a timeout of the ack is
`ERR_FAIL` while a timeout of the report is `ERR_OK`; `ERR_IOSEND` is 10, so a
short write passes the caller's test `ret < 0`; a query whose report times out
returns 0, which also means "off"; a query returns the byte of the report, so 1
for "on"; a report without data reads as 0, the value `memset` left; and
`read` returning 0 on a line that hung up makes `com_recv` loop for ever.

### KnxClient and KnxSession

`knxTest` (the call of it in `JniImp.cpp:26` is commented out at present) binds
two sockets, starts two capture threads and sends four requests
with sleeps between them.  `main` is its place.  `remoteIp`, `remotePort` and
`chid` are `g_knxClient`; since no lock guards it, each field is read and
written in a step of its own, and while `snprintf` runs over `remote_ip` a
reader sees `Torn`.  `Capture(t)` is `select`, `recvfrom` and the dispatch of
`knx_packet_parse`; `WritePort`, `TearIp`, `WriteIp` and `WriteChid` are its
assignments.  `net` holds the datagrams under way and `Fates` says how many
copies of one may arrive, in any order.

`Gw...` are the gateways (external): they answer a search, grant a free channel
or refuse, carry out the first tunnelling request of an open channel, and close
a channel that was silent.

`Timely` is the one assumption of the environment that can be switched: that
what arrives at all arrives before the next sleep is over.  The code relies on
it and never tests it.  With `Timely = FALSE` only the invariants that do not
need it are claimed.

`KnxSession` is the promise: one gateway that offered itself is asked for a
connection, and the command goes to that same gateway over a channel it granted,
or over channel 0, which the gateway refuses.  The refinement mapping maps an
address whose two fields disagree to a value that the abstract specification
never takes, so a step that mixes gateways is a violation.

### KnxData, KnxFrames and KnxExchange

Each function of `knx/proto` is an operator of its name.  A C structure is a
record, a buffer a sequence of octets, an address or a port its octets in
network order.  A generator returns what it writes; `Buffer` puts it into a
buffer of the size that `knx_payload_size` computed, and an octet nobody wrote
is `Unwritten`.  A parser returns whether it succeeded and the structure.  What
it has stored when it fails is kept where a caller looks at it: the channel of a
connection response whose host is not one, the service of an unknown packet.
`KnxExchange` has each recorded request as its octets.  It sends one datagram at a time and receives it: the requests of
`KNXWrapper.cpp`, packets and values of library users, the recorded requests,
the gateway's answers.  `Receive` is `knx_packet_parse`, which gives `knx_parse`
the whole receive buffer, so what earlier calls left behind the datagram
(`Leftovers`) is an input of it.  The gateway is taken to read a request as the
library would; a search request, which `knx_parse` does not know, is left out of
`RoundTrip`.  `KnxClient` has the same client with messages for octets and all
interleavings; `ClientFollows` is what justifies its messages.

Abstracted: a 16-bit float is a number of hundredths, so rounding in `float` is
left out; integers and 32-bit floats are copied, so they are their octets.  Left
out: data units without a payload octet, which no code sends, frames shorter
than their header says, `knx_ldata_duplicate`, and the release of services.

### EventPoller and AsyncExecutor

`list` is `_list_task`, `running` the list that `onPipeEvent` swapped out of it,
`pipe` the bytes in the wake-up pipe, `edge` an event that epoll owes for it
(`EPOLLET`), `batch` what the last `epoll_wait` returned.  A post is two steps,
the list under its lock and then the pipe (`Push`, `WritePipe`), and a pipe that
is full drops the byte.  `Drain` and `Swap` are `onPipeEvent`; `RunTask` and
`TasksRun` run what was swapped; `Callback`, `Skip` and `BatchDone` handle the
batch, `UserCode` is what a callback or a task may do (but a task that the destructor
itself runs posts nothing: there is nobody left to run it); `AddEvent` and `DelEvent`
are queued when called off the poller's thread and act at once on it.
`Shutdown`, `ShutdownWake` and `Join` are the destructor, which at last runs what
the loop left in the list.

A descriptor number (`Fds`) belongs to a socket (`Socks`) until its last
reference is dropped, then another socket may get it.  `expired` is
`_event_cache_expired_map`, which keeps a batch from reaching the callback of
the new owner.

`AsyncExecutor` is the promise of `TaskExecutorInterface`: each task once, those
of `async` in their order, those of `async_first` possibly before them.  Both
`EventPoller` and `ThreadPool` are shown to implement it.

### DelayTasks

`place` says where each delayed task is: in the list of async tasks, in
`_delay_task_map`, in the copy that `flushDelayTask` works on, being called, or
nowhere.  Deadlines are kept relative to the clock, so a `Tick` lowers all of
them and time needs no bound.  `base` is `now_time`, which the flush reads once
while time goes on.  `timeout` is the argument of `epoll_wait`, and 0 becomes -1
(`Wait`), as in `runLoop`.

### ThreadPool

`Put` and `Post` are the two steps of `push_task` (the list under its lock, then
the semaphore), `Wait` and `Take` or `Leave` the two of `get_task`.  `count`,
`WakeOne` and `WakeAll` are the semaphore with its condition variable,
`Spurious` a wake-up without a cause.  `Sync` waits on a semaphore of its own
until the task's worker finishes it.  `Shutdown` posts one token per worker and
`Joined` is the end of the joins.  `at` is where each worker is.

### SocketSend

`waiting` and `sending` are `_send_buf_waiting` and `_send_buf_sending`, `tmp`
the list of its own that each thread flushes from.  `Push`, `Flush` and
`FlushLater` are `send` up to `flushData`; `Swap`, `Refill`, `Write`,
`WriteFails`, `Arm` and `Roll` are `flushData` in its order; `WriteEvent`,
`Look` and `Stop` are `onWriteAble`; `Emit`, `Close` and `DelEvent` are
`emitErr`, `closeSock(false)` behind it and the removal of the events.  The
kernel's send buffer holds `Capacity` units, `edge` is the edge-triggered write
event, `nospace` the kernel's memory that a writer was refused.  `send` holds
`_mtx_sock_fd` while it flushes, the poller's write event does not: `Unlocked`
says who waits for whom.  What another thread asks of the poller goes through
`tasks`.  `exclusive` says whether Linux refuses to modify a descriptor that was
added with `EPOLLEXCLUSIVE`; the run covers both.

Abstracted: lists sent one after the other are written in one step; the send
timeout may elapse at any time once the socket is not writable.  Left out: UDP,
and `closeSock(true)`; connecting, accepting and receiving are modules of their own.

### SocketRead and SendList

`SocketRead` is `fromSock_l`, `attachEvent`, `onRead`, `enableRecv` and `emitErr`.
`inbox` is what the kernel holds, `ready` an event that epoll owes, which a change
of the interest renews; `watched` and `reads` are what it was told, `recving`
what the Socket remembers.  `emitErr` is in steps since `_err_emit` is tested and
set without a lock (`EmitTest`, `EmitSet`).  `history` names the cases that the
code does not handle and that the property excludes: an empty datagram (or an
error of a UDP peer) ends the loop with data left; `enableRecv(true)` does
nothing where `EPOLLEXCLUSIVE` forbids the change; interest computed on another
thread may be old; an error before `setSock` leaves the events in place; and
after `shutdown()` inside `on_read` the loop reads on.

`SendList` has the three ways of writing a list: `sendmsg`, `sendmmsg`, `sendto`.
`vec` and `off` are the array and its offset, `pkts` the packets that are left;
the system takes any prefix.

### TcpClient

`startConnect` makes a Socket; below it `connect_l` looks a name up on a worker
thread (`Resolve`), connects, and arms a timer.  `Timeout`, `OnConnected`,
`ErrorEvent`, `ShutdownHere` and a second `StartConnect` race.  `told` is what the
user's callbacks heard of each attempt.  Two things the properties except: a
shutdown before `connect_l` runs and another one after it give `onError` twice,
and a `startConnect` on another thread, while the result of the attempt before
it is passed on, loses its timer to it (`crossed`).

### TcpServer and UdpServer

In `TcpServer` each poller has a clone that accepts from the shared descriptor
(`look`), and `Accept` gives a connection to any poller, whose task makes the
session (`RunAccept`); the socket is watched when the accepting loop and the task
have both let go of it (`Release`, `RunAttach`).  `Fail`, `OnManager` and the four
steps of the destructor take sessions away.  Excepted: a clone whose main server
is gone serves a connection on a poller that is not its own (the assertions at
`TcpServer.cpp:111` and `154` do not hold then), a connection shut down before it
was watched keeps its descriptor (`early`), and a session may hear `onError` a
second time when the server dies.

In `UdpServer` `sessionMap` is shared by all pollers, `reading` is the time between
a look into the map and what follows, `queued` the tasks of each poller.
`Ended` makes a session deaf, `Erase` takes it out of the map later, by the name
of its peer.

### PollerSync, LoadCounter

`PollerSync`: a thread that called `sync` waits until its task has run on another
poller; `Finish` posts the semaphore also when the task throws.  Pollers that
call `sync` on one another wait in a circle (`Knot`); the property claims that
nothing else keeps a call from returning.  `LoadCounter` keeps turns of work and
sleep in the window that the code keeps and compares `Load` with what was truly
worked.

### The utilities

* `RingBuffer`: `master` is the ring's storage, `ring` the dispatcher of each
  poller, `gen` tells a new dispatcher from the one before it, `ringTasks` the
  tasks that are queued, `asked` the calls of `getInfoList` and whom each waits for;
  a reader that reads has set all its callbacks.  `Gapless`: what a reader got and
  what is queued for it is the end of the stream; `InStep`: a message comes between
  the items written before it and those after; `Answered`: a question is answered
  once and names who read from the call to the answer.  `ResourcePool`: `call` is where each thread is between
  `_busy.test_and_set` and its release.  `NoticeCenter`: each call takes the
  center's lock and then the dispatcher's, one after the other.
* `AsyncLog`: lines queued, swapped out and written, with the count of a line that
  repeats; the destructors.  `FileLog`: names are ordered as text, which is what
  the removal goes by.  `SqlPool`: `failed` keeps what is left of the attempts of each statement.
* `SslBox`: the library is its handshake's flights and one record per text; the
  box is the code's.  `SslContexts`: names are characters, since a wildcard is a
  comparison of suffixes.
* `SockUtil`: `use[t].at` is the call of the system that thread `t` makes next, each of
  which may fail; `given` are the descriptors of users.  `NetAdapters`: the
  adapters come and go between two calls.  `Files`: a path is a sequence of names,
  each system call a step of one of two threads.
* `Digests`, `Conversions`: one call at a time on bounded inputs, compared with a
  definition that is not the code's (the bits of base64, the days of the
  calendar, the pieces of a path).  The compression of a block is left out.
* `StampThread`: readings of a clock that somebody may set; `LikeString` and
  `BufferRaw`: compared with a string that erases at once, and with the memory.  Calls
  of a `BufferLikeString` with a position or a length behind the text are left out: `insert`
  does not look at the position (`Buffer.h:354`), `assign` from a part of itself throws
  with the head moved already (`Buffer.h:368`).

## Runs

| run | instance | what it asks |
|---|---|---|
| `serial_line` | 3 units of input, 1 command under way, buffer of 3, hang-ups | every exit closes the port; success needs an ack of this call's time; a reported value was the lamp's during the call; the call returns unless the line hangs up |
| `serial_switched` | buffer of 2, no hang-ups | **violated**: does 0 mean that the lamp was switched? |
| `knx_timely` | 2 gateways, 1 channel, loss and duplication, timely answers | the two halves of the remote address belong together; implements `KnxSession`; no foreign channel is used; a granted channel is used |
| `knx_frames` | every service, all flags of L_Data, data units of 1 to 255 octets at the limits, values at the limits of their types, 3 leftovers | what is generated is received, sizes fit, recorded requests are the library's, values survive, the client stores what the gateway said |
| `knx_status` | nothing is lost | **violated**: is the command only sent on a granted channel? |
| `poller` | 2 callers, 2 tasks, a pipe of 2 bytes, 2 sockets, 2 numbers | no wake-up is lost; implements `AsyncExecutor`; each task runs; the destructor returns; the kernel watches what has a callback; no event reaches another socket's callback; only a socket whose queued `addEvent` was overtaken stays open |
| `poller_overtaken` | 2 callers, 1 task, 1 socket | **violated**: is a socket closed once its `SockFD` is destroyed and the poller has nothing left to do? |
| `pool_tokens` | 2 callers, 2 workers, 3 tasks | no token is mistaken for the end, no wake-up lost, nothing left at the end; implements `AsyncExecutor`; `sync` and the destructor return |
| `network` | delay: 2 tasks, delays and flushes to 2 ms; client: 2 attempts; server: 2 pollers, 2 connections; send: 1 caller, 3 units, a kernel buffer of 1; sync: 3 pollers, 1 other thread, 3 calls | the sleep covers every deadline, tasks run; one result per attempt, no descriptor kept, every attempt answered; sessions told once, none left when the server goes; nothing lost or out of order, and written; `sync` returns |
| `toolkit` | the bounds of twenty parts, in `Toolkit` and its configuration | the properties of the section above, seven formulas that each join a few modules: `SocketsRight` those of sockets and addresses, `RecordsRight` statements, log files, clock, certificates and files, `CodecsRight` logger, loads, TLS, digests, text and what calls on files answer |
| `udp_stray` | 2 pollers, 2 peers, 3 datagrams | **violated**: does a stray datagram reach its sender's session? |
| `sql_retry` | 2 statements, 5 attempts | **violated**: is a statement tried three times at most? |

Bounds and why they are enough:

* `MaxRx = 3`, `BuffUnits = 3`: an ack with a report, or a report with a unit
  behind it, fits, and a fourth unit overflows; `MaxInbox = 1`: one late command
  is enough to answer the next call.
* Two gateways are what mixing an address takes, and one channel each lets a
  gateway refuse.  A datagram is lost, arrives once or twice.  Answers that come
  at any time and sockets that are not bound (`Timely`, `SockFails`) are left to
  the theorems, which hold for both.
* The frame library has no state, so its bounds are inputs.  15 and 16 octets of
  data are the two sides of a standard frame and 255 the longest; each flag
  takes both values, each field a small and its largest value; the floats are the
  limits of each of the first exponents and of the last.  300 octets behind a
  datagram are more than any length octet can reach.
* A pipe of two bytes, written for two tasks, for each socket that is added or
  deleted, and for the exit, is found full; two callers can be between the push and
  the write at the same time.  Two sockets and two numbers let one callback close
  what a later event of the batch is for, and a number be given away within a batch.
* Two delayed tasks are the one that is being called and the one that is posted
  meanwhile.  A flush may last as long as the longest delay, so a deadline can
  pass during it.
* Two workers and three tasks let one worker take the token that another was
  woken for, with a task still left when the pool ends.
* Three units and a kernel that takes one let the poller and the caller each
  hold a list of their own while the kernel refuses, and put both back.
* Two attempts are one and the one that supersedes it.  Two pollers and two
  connections let a connection be accepted on one poller and served on the other
  while a round of the manager ends the other session.  Three pollers make a
  circle of three and one of two with a third that waits for it.
* Three datagrams of two peers: two that two pollers read at the same time, and
  one for the session that was made.  One poller and two readers let a dispatcher
  go and come again; two key frames and two gops in the ring let one be dropped.
  The writer's three calls are items, messages and questions in any order; with
  one poller the answer of a question is never put together from two.
* Two threads in a pool for one object let the vector be full, and its flag be
  held by another.  Two slices in base two reach the width where the order of
  names is not the order of slices.
* In `SendList` three packets of at most two bytes and arrays of two are cut on a
  boundary, inside a packet and over several.  `Digests` with blocks of 8 bytes,
  lengths of 2 and words of 7 bits reaches the carry between the words, and a
  length that does not fit behind the text.  The days of `Conversions` are those
  around the ends of February 1972, 2000 and 2100 and the ends of 2000 and 2100.

In `SerialLight` and `KnxExchange` something can always happen, so deadlock is
checked.  The other systems do end, and their configurations say
`CHECK_DEADLOCK FALSE`: `knxTest` returns while its threads wait for datagrams;
the poller's loop ends with the destructor; the pool is joined; every unit was
sent and read, every attempt answered, every server dropped, every reader gone.
That they do not stop earlier than that is what `GrantedIsSwitched`,
`ShutdownEnds`, `CallsReturn`, `SendEnds`, `Answered`, `Ends` and `SyncEnds` say.

### Fairness

* `SerialLight`: the calling thread goes on.  Its waits have timeouts
  (`select` of one second), so it can always go on unless `read` returns 0.
  Nothing is assumed of the controller, the line or the user.
* `KnxClient`: as long as the main thread, a capture thread or a gateway can go
  on, one of them does; weak fairness of the whole.  No fairness between them is
  needed since each can take finitely many steps.
* `EventPoller`, `ThreadPool`: each thread of the system goes on (weak fairness
  of the loop, of each worker, of a caller between its push and its wake-up, of
  the destructor).  Whether a caller posts at all is left open.  The semaphore's
  mutex is taken for one that starves nobody for ever; the bound on tasks is
  what keeps `async_first` from overtaking another task for ever, which it could
  in the code.
* `Network` gives each part the fairness its module states, and to no other:
  * `DelayTasks`: the loop goes on, and so does time.
  * `SocketSend`: threads and the loop go on, and the peer goes on reading, which
    the properties need and say.
  * `TcpClient`: the poller runs its tasks and its timers.  Neither the name
    server nor the peer has to answer.
  * `TcpServer`: pollers run their tasks and come to the end of the loop over the
    connections.  The deletion of a clone is a task behind others in a queue that
    the model does not keep, and can be put off while they run; it is run in the
    end, hence the strong fairness.
  * `PollerSync`: pollers run what they have, and tasks end.
* The parts of `Toolkit` have no fairness: only safety is asked of them.

## Proofs

Each theorem holds for every value of the constants that satisfies the named
assumptions; its run checks the same formula on an instance.  The assumptions of
the modules are only that bounds are natural numbers, that sets of threads and
sockets are finite where they are counted, that special values are not
members of those sets, that a server's own poller is one of the pollers, that
descriptors and IPv4 addresses are natural numbers and names of certificates sequences
of them, that a clock's units and the width of a slice's name are positive, and, in
`KnxExchange`, that fields hold what their C types and their place in a frame can
hold, the client speaks UDP, and a gateway lists at most 77 services (the octets
made up for more would not be octets).  Three theorems assume more, each what the run of the same property assumes too:

* `Timely = TRUE`, for `OwnChannelOnly` and `ImplementsSession`: an answer that
  arrives at all does so during the sleep after its request.  The client has no
  other means to tell that an answer is late.
* `ZeroInside = FALSE`, for `SleepCovers`: no delayed task posts another with
  delay zero.  With one, `flushDelayTask` returns a delay of 0, which `runLoop`
  takes for "none"; that is listed below among what was met.

An invariant a run checks is seldom inductive.  What it takes, and why:

* **SerialLightProofs.**  `IInv` adds `CallStage` to the checked invariants:
  each stage of a call remembers what the stages before it established (an ack
  was taken; no report was taken yet), and every value in the tty's queue or the
  buffer is one that the lamp had while the port was open.  The second is needed
  for `ReportIsCurrent`: it is a fact about data in flight, which the property,
  speaking of the returned value only, says nothing of.  From it `TypeOK`,
  `PortReleased`, `SuccessNeedsAck` and `ReportIsCurrent`.
* **KnxClientProofs.**  `IInv` adds `Storing`: only the control thread stores
  search responses, one at a time, and each comes from a gateway that answered.
  `AddressPair` is not inductive without it since it is silent exactly while the
  fields are being written.  Datagrams may be lost, doubled or late without
  limit in the theorem.  `SessionInv` says at which place of `main` which
  datagrams can be under way and which fields are final; from it `OwnChannelOnly`
  and, step by step, `ImplementsSession`: every step of the client, its threads
  and the gateways is one of `KnxSession` or leaves its variables alone.
* **EventPollerProofs.**  For the tasks: `BatchTaken`, `PipeAnnounced` and
  `WakeupPending`, i.e. bytes in the pipe are always announced by epoll or about
  to be drained.  For the descriptors: `Opened`, `OwnNumber`, `MapOwn`, `Watched`
  and `BatchKnown`, i.e. an open socket alone has its number, the event map keeps
  callbacks under their own numbers, and a number of the batch that changed hands
  is marked as expired.  From them `TypeOK`, `WakeupPending`, `KernelAgrees` and
  `FreshCallback`.  `QInv` orders the lists (`Pairwise`): tasks of `async` stand
  by number behind one another in the running list and, later ones, in the
  waiting list, so that the next of them to run is the smallest; that is
  `ImplementsExecutor`.  `RInv` says that a released socket that is watched or
  whose `addEvent` is queued has its `delEvent` queued behind, whence
  `OnlyOvertakenStay`.  It assumes nothing of who closes what: a socket that the
  poller's thread closes while its `addEvent` is queued is the one exception, and
  the theorem says that there is no other.
* **ThreadPoolProofs.**  `Tokens` counts: the tokens and the workers that took
  one are together as many as the queued tasks whose token was posted and, once
  the pool ends, one more per worker that is still there.  `NoEarlyLeave` follows
  because a worker that took a token of a task finds the queue filled.  `SleepersInv` and
  `DrainedInv` (`Accounted`, `LastLeft`, `JoinedLeft`) carry `SleepersCovered`
  and `Drained`: every task posted is queued, begun or cancelled, and the last
  worker to leave has seen the queue empty.  `OrderInv` carries
  `ImplementsExecutor` as in the poller.
* **NetworkProofs.**  Of `Network`'s servers: what becomes of a connection is decided
  by its own record and by whether the server is wanted.  `ServerInv` says for each
  state of a record what was told and what is watched by then (`Fresh`, `Counted`,
  `Attached`, `Owned`); from it `ServerRight`.  Of its clients: `ClientInv` relates
  the one attempt to what else speaks of it: the poller's queue, in which a connect
  task is followed by tasks of later attempts only (`Later`), the timer, the
  resolver, and the result being told.  An attempt is decided once because only its
  connect task and its timer lead to `con_cb`, and the error's task, which stands
  behind, ends the timer; that is `ConnectRight`.

  Of its sends: `SendInv` gives every place a unit can be in a box (the two
  buffers, the wire, each thread's list): every unit posted is in a box
  (`Whole`), no box has a unit twice and no two share one (`Alone`); a list of a
  thread's own is filled only where `flushData` holds it (`Holding`,
  `Clearing`).  Three callers that put back what was not written, each at its
  own time, cannot break that; it is `SendConserves`.  `SleepCovers` follows from
  `Ahead`: what enters the map while a flush is under way is due after the `now_time`
  that the flush compares with.  The least deadline exists whether there are
  finitely many tasks or not.
* **SharingProofs.**  `SharingInv` gives each of the eleven parts its invariant while
  `part` names it.  `PoolInv` is the pool's property and the types.  `NoticeInv`
  adds that an `addListener` under way still writes into the dispatcher of the map
  unless a removal crossed it (`Adding`), and that a thread about to drop a
  dispatcher left nobody in it (`Leaving`).  `UdpInv` says what a reader, a queue and
  the map may refer to (`Referred`), that a session is deaf once it heard its error and
  what is to be erased from the map has ended (`Ending`), and, for `EachOnce`, that
  the sets of datagrams in the readers' hands, the queues and the sessions do not meet and
  together are all datagrams while no session has ended (`Once`): the property counts
  indices in sequences, which a step shifts, while what the step does is to
  move one datagram from one set to another.  From it `SharingRight` and `UdpRight`.

  For `SocketsRight`: `ReadRight` speaks of a socket at rest, so `ReadInv` says what
  holds before it rests.  As long as nothing excepted happened only the poller has changed
  the events, which are then those of `_enable_recv`, and what can be read is reported or
  being read (`Reporting`); the descriptor enters epoll once, and its task stands before
  any error's (`AddingRead`); and an error is told once or is in one thread's hands or one
  task (`Telling`).  `UtilInv` says that each open descriptor is a user's or that of exactly one
  call (`UtilFds`), what a call knows at each of its places (`UseRight`), and that the
  answers in the cache are older than its item by no more than a lookup (`CacheRight`): the
  property bounds the age that is used, which goes on after the look.  `AdaptersInv`
  relates the adapter `in_same_lan` found by address to the one it asks by name (`Asked`).

  For `RecordsRight`: `SqlInv` has the lists of statements without duplicates and
  disjoint.  `SlicesInv` says which files the channel knows before its first line and that
  afterwards, without late lines, nothing is newer than the slice it writes (`Newer`);
  `clean` then takes a beginning of the order of names, which is that of the days and
  slices while slices have two digits (`NamesInOrder`, `CleanRight`).  `StampInv` splits
  what the count is wrong by into what settings of the clock have added that were read,
  and the one that was not read yet (`Moved`, `Gained`).  `CertsInv` says that both maps
  hold the newest context of every name that was loaded (`ContextsKept`); the order of names is
  shown to be total and transitive (`LessTotal`, `LessTransitive`), so that of the wildcards
  that cover a host, of which the code takes the first in its map, there is a first one
  (`ByWildcard`).  `FilesInv` says that a directory which
  is removed though nobody asked is above what was removed, and that what is in it has
  come since it was found empty (`DeleteRight`).
* **KnxExchangeProofs.**  Most of it is about operators, for all values of the
  structures' fields.  For each layer (host information, TPDU, L_Data, cEMI, each
  payload, header) a lemma says of which length the octets are that its generator writes,
  and that its parser makes the same structure of them with anything behind
  (`HostParsed`, `TpduGenerated`, `LdataGenerated`, `CemiParsed`, `PayloadKept`,
  `HeaderParsed`, joined in `PacketReceived`).  The 21 recordings are shown to have one
  form, that of `PeerBody`, for which the library has a structure (`PeerRead`).  For the
  float: the least exponent that fits cuts off less than one hundredth or
  thousandth (`ExponentIs`, `CutNear`), and mantissa and exponent are read back from
  their bits (`FloatBack`).  `IInv` then says what is under way: the datagram is what
  the sender made of what it sent (`PacketSent`, `ValueSent`, `RecordedSent`,
  `AnswerSent`), which is what relates `datagram` to `sent`.  From it `Fits`,
  `ReceivedAsSent`, `ValueKept` and `ClientFollows`.
* **SequenceLemmas.**  Appending, prepending, the tail, concatenation and
  splitting of sequences, for their range, for the absence of duplicates and for
  `Pairwise`, a relation between each element and those behind it.

Model-checked only:

* every liveness property, and the fairness it rests on: not expressible to the
  provers;
* `CodecsRight`, `BuffersRight` and `RingRight`: they
  speak of folds over data of every length (characters of a text, the octets of a
  list of buffers, a ring's items behind one another, the loads of a window, the lines
  of a log, the records of a connection), which take induction over sequences; and, in
  `CodecsRight`, what `create_path`, `delete_file` and `scanDir` answer when nobody else is at
  work, a walk over a tree of any depth;
* `ReleasedIsClosed`, `OwnPeer`, `TriesBounded`, `ZeroMeansSwitched` and `CommandNeedsGrant`, which the code
  violates.

So every safety property that the passing runs check is a theorem, but for these three.
The theorems `TypeOKHolds` state the type invariants for all values of the constants;
the runs of these modules check what is built on them and no longer the types.

## Where the code differs from what it says

Shown by a run (`findings` of `PROJECT.json`):

* `serial_switched`: `ComFunc.h:7` calls 0 success.  A call returns 0 for a
  command that was lost, when the ack of an earlier command arrives late and the
  report does not come.
* `knx_status`: the status of a connection response is not read, the command
  goes out on channel 0.
* `poller_overtaken`: `Socket.h:166` says that a `SockFD` takes its descriptor out of the
  poller and closes it when it is destroyed, and `Socket.h:200` that it is closed once
  its events were taken out.  A `Socket` whose
  poller is another thread's (one that `listen` or `fromSock` was called on, or one that
  was accepted for another poller, `Socket.cpp:594`) has its `addEvent` queued.
  If the poller's thread destroys the `SockFD` first, `delEvent` finds nothing, and the
  queued task then registers the descriptor with a callback that holds it: it stays
  open and watched.  The model tells such a socket by the value `"overtaken"` of `held`,
  which no guard reads.
* `udp_stray`: `UdpServer.cpp:275` says that data of another peer is left to the
  server to hand to the suitable session.  Line 276 passes the session's own name
  on, so the datagram goes to the session that it must not go to.
* `sql_retry`: `SqlPool.h:119` calls `tryCnt` the number of attempts.  The retry calls
  `asyncQuery(sql, tryCnt)`, which takes it for an argument of a format: each retry has
  three attempts again, for ever, and a `%` in the statement is a format then.

Met while modelling, without a run of their own.  A property that would be false
names the case it excludes (`overtaken`, `crossed`, `early`, `history`, `odd`), so each can be
seen by taking its condition away:

* `flushDelayTask` returns 0 when the first task left is due at `now_time` itself,
  and the loop sleeps without a timeout (`ZeroMeansNone` with `ZeroInside`).
* `Socket.h:300` gives each socket a mutex and asks "是否启用互斥锁(接口是否线程安全)"
  (is the interface thread-safe).  With a sender off the poller's thread, three
  things go differently; each is a counterexample to a property of `SocketSend`
  without its condition `~foreign` or `exclusive`.  Data is reordered: the poller
  holds older units in its own list while a sender writes newer ones (`InOrder`).
  Data stays in the buffer until the next send: the poller finds both buffers
  empty and stops the event while a sender holds the rest (`AllWritten`).  And
  where Linux refuses to modify an exclusive descriptor, the only write event can
  be used up before the rest is put back; the socket then stays unwritable until
  its send timeout (`Unwedged`).
* `knx_ldata_size` (`ldata.c:79`) is 8 and the data unit, `knx_ldata_generate`
  writes 7 and the data unit, and the 8 of its comment count two octets that
  `knx_cemi_size` counts again.  Every generated tunnelling request is one octet
  longer than its content, in the header and on the wire, and that octet is
  whatever was on the stack.  The recorded requests have the shorter length.
  `Fits` states it.
* `data.c:189` shifts the day of the week out of its octet: it is always sent as
  0 (`ValueKept` excludes it).
* `data.c:225` subtracts one from every negative mantissa, so each negative
  16-bit float is sent one step too low, and -20.48 and its doubles, whose
  mantissa is the least one, as -1 step (`LeastMantissa`).
* `descres.c:46` counts the two octets before the services as one: the last
  entry of `services` is never filled in (`ServicesListed`).
* `knx_generate` returns true although `knx_ldata_generate` refused a data unit
  of more than 256 octets.
* `Socket.cpp:328`: `_err_emit` is tested and then set without a lock, so
  `on_err` can be called twice.
* A connection request goes to the empty address when no search response came
  in five seconds.
* Sockets: `send` reads `_udp_send_dst` without the lock `bindPeerAddr` holds
  (`Socket.cpp:368`, `885`); an empty datagram ends the read loop; `onRecv` may
  follow `onError` although `Socket.h:727` says that the object is destroyed then
  ("收到该事件时, 该对象一般将立即被销毁"); without IPv6 a listener that is to bind an IPv6
  address binds any IPv4 address.
* TLS: a client that never sends never begins the handshake; the alert of the
  first `shutdown()` stays in the write BIO until the next flush; a wildcard is
  looked for at the first occurrence of its suffix only, and the maps of contexts
  have no lock.
* Rings: when no other thread has to be asked, `getInfoList` calls back before it
  lets `_mtx_map` go (`RingBuffer.h:417`, `422`), so that a callback that writes to
  the ring waits for itself.
* Buffers: `resize` of a `BufferLikeString` brings erased characters back, `assign` from a
  part of itself leaves no terminator, `assign("", 0)` leaves the text;
  `BufferRaw::setCapacity` to less leaves the size.
* Files: `deleteEmptyDir` removes with a recursive `delete_file` what it found empty
  before (`File.cpp:355`); two threads that create the same path can make one
  fail (`File.cpp:114`, `137`); `scanDir` does not pass `show_hidden_file` on
  (`File.cpp:321`).  Log slices with three digits sort before those with two, and
  a late line of the day before opens its slice 00 again.
* Clock: a stop of a second or more is missing from the elapsed time, so timers
  are late by it; daylight saving is read once, at the start
  (`local_time.cpp:168`).
* Text: a path above "/" becomes relative, `absolutePath(".", "/")` is empty; ini keys
  without a section come back with a dot before them; `replace` does not look at
  what it put in.

## Not modelled, and why

* The activity and its JNI functions keep no state; their conversion of the
  argument is part of `SerialLight`.
* The keep-alive thread of the KNX client is never started.
* In the poller: the `select` build, the reopening of a broken pipe.
* In the sockets: the destination set by `bindPeerAddr`, an error of a listening
  socket, callbacks that throw, a `shutdown` that overtakes the task of
  `connect`, getters and socket options.
* The pool, the servers and most utilities are compiled into the library and
  used by nothing in the application; they are modelled as the toolkit offers
  them.
* OpenSSL (`SSLUtil`), the compression of MD5 and SHA1, the SQL connection, the
  channels for syslog and for events, the format of a log line: libraries, or
  wording.
* A ring's delegate, and its end with the callbacks of detached readers.
* Error names, rates, stop watches, command lines: a few lines each, without
  state that another part could disturb.
* The Windows support is not built for Android; `KNXCore` is an empty skeleton.

## Plan

The order in which the modules were written follows the use the application
makes of the code: the serial call behind the buttons and the KNX client that is to
replace it, then the poller everything else runs on, its timers, the pool, and
sending; then the rest of the sockets, servers and clients; then the utilities.
Still to come:

1. `SerialPack`, framing and checksum of `ComPack.cpp` as operators: a packed
   frame is accepted, a frame with one damaged unit is not.
2. `SocketSend` and `TcpClient` over one poller of `EventPoller`: the write event of a
   connecting socket and the first `send` before it.
3. A listening socket that fails, and a peer address bound while data is sent.

Of the safety properties, `RingRight`, `BuffersRight` and `CodecsRight` have no theorem.
`RingRight` would need the concatenation of what is queued for a reader, a fold, about
which no theorem can be proved here; the others say what recursive definitions compute for
every input.
