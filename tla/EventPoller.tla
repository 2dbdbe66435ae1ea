---------------------------- MODULE EventPoller ----------------------------
(***************************************************************************)
(* zltoolkit's EventPoller: a thread that waits in epoll, calls the        *)
(* callback of each descriptor that is ready and runs the tasks that other *)
(* threads post.  Every descriptor is edge-triggered, the wake-up pipe     *)
(* too.  A descriptor belongs to a socket (SockNum) that is closed when    *)
(* its last reference goes; its number may then be given to another.  The  *)
(* user holds a socket through a SockFD, whose destructor removes the      *)
(* descriptor from the poller.                                             *)
(***************************************************************************)
EXTENDS Naturals, Sequences, FiniteSets, SequencesExt

CONSTANTS Callers,     \* threads other than the poller's
          Socks,       \* sockets, each opened at most once
          NoSock,
          Fds,         \* descriptor numbers
          MaxTasks,    \* bound: user tasks posted
          PipeSize     \* bytes the wake-up pipe holds

ASSUME SocksAssumption == NoSock \notin Socks /\ IsFiniteSet(Socks)
ASSUME FdsAssumption == Fds # {}
ASSUME BoundsAssumption == /\ MaxTasks \in Nat
                           /\ PipeSize \in Nat \ {0}

VARIABLES
  list,      \* _list_task
  pipe,      \* bytes in _pipe
  edge,      \* epoll owes the poller an event of the pipe
  writing,   \* callers that pushed a task and have yet to write to the pipe
  loop,      \* the place of the thread that runs tasks and callbacks
  batch,     \* events of the last epoll_wait not handled yet; NoSock: the pipe
  running,   \* _list_swap, what is left of it
  current,   \* the socket whose callback is being called
  exitFlag,  \* _exit_flag
  eventMap,  \* _event_map: the socket whose callback is kept for a number
  epoll,     \* sockets the kernel watches; a closed one is no longer watched
  expired,   \* _event_cache_expired_map
  held,      \* the SockFD of each socket; "overtaken": destroyed on the poller
             \* before the addEvent that another thread had queued
  fdOf,      \* the number of each socket's descriptor
  owner,     \* the thread that destroys the poller
  posted,    \* user tasks posted, which numbers them
  done       \* user tasks that have run

wakeup == <<list, pipe, edge>>
events == <<eventMap, epoll, expired>>
sockets == <<held, fdOf>>
vars == <<list, pipe, edge, writing, loop, batch, running, current, exitFlag, eventMap,
          epoll, expired, held, fdOf, owner, posted, done>>

User(op, n) == [op |-> op, id |-> n, sock |-> NoSock]
OnSock(op, s) == [op |-> op, id |-> 0, sock |-> s]
Exit == [op |-> "exit", id |-> 0, sock |-> NoSock]
Tasks == {User(op, n) : op \in {"async", "first"}, n \in 1..MaxTasks}
         \cup {OnSock(op, s) : op \in {"add", "del"}, s \in Socks}
         \cup {Exit}

\* Sockets some reference keeps open: the SockFD, the kept callback, the copy
\* of it that is being called, the closure of a queued addEvent or delEvent.
Open == {s \in Socks : \/ held[s] = "held"
                       \/ \E f \in Fds : eventMap[f] = s
                       \/ current = s
                       \/ \E t \in Range(list) \cup Range(running) : t.sock = s}

FreeFds == {f \in Fds : \A s \in Open : fdOf[s] # f}

Init == /\ list = <<>> /\ pipe = 0 /\ edge = FALSE
        /\ writing = {}
        /\ loop = "wait" /\ batch = <<>> /\ running = <<>>
        /\ current = NoSock /\ exitFlag = FALSE
        /\ eventMap = [f \in Fds |-> NoSock]
        /\ epoll = {} /\ expired = {}
        /\ held = [s \in Socks |-> "new"]
        /\ fdOf = [s \in Socks |-> CHOOSE f \in Fds : TRUE]
        /\ owner = "alive"
        /\ posted = 0 /\ done = {}

-----------------------------------------------------------------------------
\* async_l: the task goes into the list under _mtx_task, then a byte is
\* written to the pipe.  The pipe does not block: a write to a full pipe is
\* dropped.  A write to a pipe that is not empty need not be a new edge.

\* mutant: delEvent posts with async_first
PushDelFirst(t) == list' = IF t.op \in {"first", "exit", "del"}
                           THEN <<t>> \o list ELSE Append(list, t)

Push(t) == list' = IF t.op \in {"first", "exit"} THEN <<t>> \o list
                                                 ELSE Append(list, t)

WritePipe == /\ pipe' = IF pipe < PipeSize THEN pipe + 1 ELSE pipe
             /\ edge' \in {TRUE, edge \/ pipe = 0}

CallerPush(c, t) == /\ owner = "alive" /\ c \notin writing
                    /\ Push(t)
                    /\ writing' = writing \cup {c}

Async(c) == \E op \in {"async", "first"} :
    /\ posted < MaxTasks
    /\ CallerPush(c, User(op, posted + 1))
    /\ posted' = posted + 1
    /\ UNCHANGED <<pipe, edge, loop, batch, running, current, exitFlag, events, sockets,
                   owner, done>>

\* A caller opens a socket (listen, bindUdpSock, fromSock) and addEvent queues.
AddEvent(c) == \E s \in Socks, f \in FreeFds :
    /\ held[s] = "new"
    /\ CallerPush(c, OnSock("add", s))
    /\ held' = [held EXCEPT ![s] = "held"]
    /\ fdOf' = [fdOf EXCEPT ![s] = f]
    /\ UNCHANGED <<pipe, edge, loop, batch, running, current, exitFlag, events, owner,
                   posted, done>>

\* A caller drops a SockFD and delEvent queues, with the socket in its closure.
DelEvent(c) == \E s \in Socks :
    /\ held[s] = "held"
    /\ CallerPush(c, OnSock("del", s))
    /\ held' = [held EXCEPT ![s] = "released"]
    /\ UNCHANGED <<pipe, edge, loop, batch, running, current, exitFlag, events, fdOf,
                   owner, posted, done>>

Wake(c) == /\ c \in writing
           /\ WritePipe
           /\ writing' = writing \ {c}
           /\ UNCHANGED <<list, loop, batch, running, current, exitFlag, events, sockets,
                          owner, posted, done>>

-----------------------------------------------------------------------------
\* addEvent and delEvent on the poller's thread.  Once the loop has been joined
\* the epoll descriptor is closed, and both fail.

Joined == owner = "joined"

AddNow(s) ==
    /\ IF Joined \/ s \in epoll
       THEN UNCHANGED <<eventMap, epoll>>
       ELSE /\ epoll' = epoll \cup {s}
            /\ eventMap' = IF eventMap[fdOf[s]] = NoSock
                           THEN [eventMap EXCEPT ![fdOf[s]] = s]
                           ELSE eventMap
    /\ UNCHANGED expired

\* mutant: the callback stays in the map
DelKernelOnly(s) ==
    IF Joined \/ s \notin epoll
    THEN UNCHANGED events
    ELSE /\ epoll' = epoll \ {s}
         /\ expired' = expired \cup {fdOf[s]}
         /\ UNCHANGED eventMap

DelNow(s) ==
    IF Joined \/ s \notin epoll
    THEN UNCHANGED events
    ELSE /\ epoll' = epoll \ {s}
         /\ eventMap' = [eventMap EXCEPT ![fdOf[s]] = NoSock]
         /\ expired' = IF eventMap[fdOf[s]] = NoSock
                       THEN expired ELSE expired \cup {fdOf[s]}

\* What the user's callbacks and tasks may do to the poller on its own thread.
\* A task they post with may_sync is simply called, and is not a step of its
\* own.  Opening and closing need a reference to the poller; posting does not.  A
\* post by a task that the destructor itself runs is left out: nobody would run it.
InUserCode == loop \in {"callback", "task"}

AddQueued(s) == OnSock("add", s) \in Range(list) \cup Range(running)

OpenHere == \E s \in Socks, f \in FreeFds :
    /\ InUserCode /\ owner = "alive"
    /\ held[s] = "new"
    /\ held' = [held EXCEPT ![s] = "held"]
    /\ fdOf' = [fdOf EXCEPT ![s] = f]
    /\ epoll' = epoll \cup {s}
    /\ eventMap' = IF eventMap[f] = NoSock THEN [eventMap EXCEPT ![f] = s]
                                           ELSE eventMap
    /\ UNCHANGED <<wakeup, writing, loop, batch, running, current, exitFlag,
                   expired, owner, posted, done>>

CloseHere == \E s \in Socks :
    /\ InUserCode /\ owner = "alive"
    /\ held[s] = "held"
    /\ held' = [held EXCEPT ![s] = IF AddQueued(s) THEN "overtaken" ELSE "released"]
    /\ DelNow(s)
    /\ UNCHANGED <<wakeup, writing, loop, batch, running, current, exitFlag,
                   fdOf, owner, posted, done>>

PostHere ==
    /\ InUserCode /\ ~Joined
    /\ posted < MaxTasks
    /\ Push(User("async", posted + 1))
    /\ WritePipe
    /\ posted' = posted + 1
    /\ UNCHANGED <<writing, loop, batch, running, current, exitFlag, events,
                   sockets, owner, done>>

Return == /\ InUserCode
          /\ loop' = IF loop = "task" THEN "run" ELSE "dispatch"
          /\ current' = NoSock
          /\ UNCHANGED <<wakeup, writing, batch, running, exitFlag, events,
                         sockets, owner, posted, done>>

UserCode == OpenHere \/ CloseHere \/ PostHere \/ Return

-----------------------------------------------------------------------------
\* runLoop.  epoll_wait reports the pipe when an edge is due and it still has
\* bytes, and any of the sockets it watches, in any order.

PipeReady == IF edge /\ pipe > 0 THEN {NoSock} ELSE {}
Batches == UNION {SetToSeqs(PipeReady \cup ready) : ready \in SUBSET (Open \cap epoll)}

Wait == /\ loop = "wait"
        /\ batch' \in Batches \ {<<>>}
        /\ expired' = {}
        /\ edge' = (edge /\ NoSock \notin Range(batch'))
        /\ loop' = "dispatch"
        /\ UNCHANGED <<list, pipe, writing, running, current, exitFlag, eventMap, epoll,
                       sockets, owner, posted, done>>

\* The socket whose callback handles the event of s, if there is one.
\* mutant: no look at the numbers removed since epoll_wait
CallbackForNumber(s) == eventMap[fdOf[s]]

CallbackFor(s) == IF fdOf[s] \in expired THEN NoSock ELSE eventMap[fdOf[s]]

Callback == /\ loop = "dispatch" /\ batch # <<>> /\ Head(batch) # NoSock
            /\ CallbackFor(Head(batch)) # NoSock
            /\ current' = CallbackFor(Head(batch))
            /\ loop' = "callback"
            /\ batch' = Tail(batch)
            /\ UNCHANGED <<wakeup, writing, running, exitFlag, events, sockets,
                           owner, posted, done>>

Skip == /\ loop = "dispatch" /\ batch # <<>> /\ Head(batch) # NoSock
        /\ CallbackFor(Head(batch)) = NoSock
        /\ batch' = Tail(batch)
        /\ epoll' = IF fdOf[Head(batch)] \in expired
                    THEN epoll
                    ELSE {s \in epoll : s \notin Open \/ fdOf[s] # fdOf[Head(batch)]}
        /\ UNCHANGED <<wakeup, writing, loop, running, current, exitFlag, eventMap,
                       expired, sockets, owner, posted, done>>

\* onPipeEvent: the pipe is read until it is empty, then the list is taken.
\* mutant: the pipe is read once
DrainOnce == /\ loop = "dispatch" /\ batch # <<>> /\ Head(batch) = NoSock
             /\ pipe' = IF pipe > 0 THEN pipe - 1 ELSE 0
             /\ batch' = Tail(batch)
             /\ loop' = "swap"
             /\ UNCHANGED <<list, edge, writing, running, current, exitFlag,
                            events, sockets, owner, posted, done>>

Drain == /\ loop = "dispatch" /\ batch # <<>> /\ Head(batch) = NoSock
         /\ pipe' = 0
         /\ batch' = Tail(batch)
         /\ loop' = "swap"
         /\ UNCHANGED <<list, edge, writing, running, current, exitFlag, events, sockets,
                        owner, posted, done>>

\* mutant: the list is copied and not taken
SwapCopies == /\ loop = "swap"
              /\ running' = list
              /\ loop' = "run"
              /\ UNCHANGED <<wakeup, writing, batch, current, exitFlag, events,
                             sockets, owner, posted, done>>

Swap == /\ loop = "swap"
        /\ running' = list
        /\ list' = <<>>
        /\ loop' = "run"
        /\ UNCHANGED <<pipe, edge, writing, batch, current, exitFlag, events, sockets,
                       owner, posted, done>>

UserTask(t) == /\ t.op \in {"async", "first"}
               /\ done' = done \cup {t.id}
               /\ loop' = "task"
               /\ UNCHANGED <<events, exitFlag>>
AddTask(t) == /\ t.op = "add" /\ AddNow(t.sock)
              /\ UNCHANGED <<loop, done, exitFlag>>
DelTask(t) == /\ t.op = "del" /\ DelNow(t.sock)
              /\ UNCHANGED <<loop, done, exitFlag>>
ExitTask(t) == /\ t.op = "exit" /\ exitFlag' = TRUE
               /\ UNCHANGED <<loop, events, done>>

RunTask == /\ loop = "run" /\ running # <<>>
           /\ LET t == Head(running)
              IN UserTask(t) \/ AddTask(t) \/ DelTask(t) \/ ExitTask(t)
           /\ running' = Tail(running)
           /\ UNCHANGED <<wakeup, writing, batch, current, sockets, owner, posted>>

TasksRun == /\ loop = "run" /\ running = <<>>
            /\ loop' = IF Joined THEN "dead" ELSE "dispatch"
            /\ UNCHANGED <<wakeup, writing, batch, running, current, exitFlag,
                           events, sockets, owner, posted, done>>

BatchDone == /\ loop = "dispatch" /\ batch = <<>>
             /\ loop' = IF exitFlag THEN "stopped" ELSE "wait"
             /\ UNCHANGED <<wakeup, writing, batch, running, current, exitFlag, events,
                            sockets, owner, posted, done>>

-----------------------------------------------------------------------------
\* ~EventPoller: no other thread has a reference, and a SockFD is one.  The
\* loop is told to exit and joined, then the tasks that are left are run here.

\* mutant: the exit is posted and nobody is woken
ShutdownSilent == /\ owner = "alive" /\ writing = {}
                  /\ \A s \in Socks : held[s] # "held"
                  /\ Push(Exit)
                  /\ owner' = "join"
                  /\ UNCHANGED <<pipe, edge, writing, loop, batch, running, current,
                                 exitFlag, events, sockets, posted, done>>

Shutdown == /\ owner = "alive" /\ writing = {}
            /\ \A s \in Socks : held[s] # "held"
            /\ Push(Exit)
            /\ owner' = "write"
            /\ UNCHANGED <<pipe, edge, writing, loop, batch, running, current, exitFlag,
                           events, sockets, posted, done>>

ShutdownWake == /\ owner = "write"
                /\ WritePipe
                /\ owner' = "join"
                /\ UNCHANGED <<list, writing, loop, batch, running, current, exitFlag,
                               events, sockets, posted, done>>

\* mutant: the destructor does not run what is left
JoinOnly == /\ owner = "join" /\ loop = "stopped"
            /\ owner' = "joined"
            /\ loop' = "dead"
            /\ UNCHANGED <<wakeup, writing, batch, running, current, exitFlag,
                           events, sockets, posted, done>>

Join == /\ owner = "join" /\ loop = "stopped"
        /\ owner' = "joined"
        /\ pipe' = 0
        /\ loop' = "swap"
        /\ UNCHANGED <<list, edge, writing, batch, running, current, exitFlag, events,
                       sockets, posted, done>>

Caller(c) == Async(c) \/ AddEvent(c) \/ DelEvent(c) \/ Wake(c)
Loop == \/ Wait \/ Callback \/ Skip \/ Drain \/ Swap
        \/ RunTask \/ TasksRun \/ BatchDone \/ UserCode
Owner == Shutdown \/ ShutdownWake \/ Join

Next == (\E c \in Callers : Caller(c)) \/ Loop \/ Owner

Spec == Init /\ [][Next]_vars

\* A caller that pushed goes on to write, the loop's thread goes on, and a
\* destructor that has begun goes on.
FairSpec == /\ Spec
            /\ \A c \in Callers : WF_vars(Wake(c))
            /\ WF_vars(Loop)
            /\ WF_vars(ShutdownWake \/ Join)

-----------------------------------------------------------------------------
TypeOK == /\ list \in Seq(Tasks) /\ running \in Seq(Tasks)
          /\ pipe \in 0..PipeSize /\ edge \in BOOLEAN
          /\ writing \subseteq Callers
          /\ loop \in {"wait", "dispatch", "swap", "run", "callback", "task",
                       "stopped", "dead"}
          /\ current \in Socks \cup {NoSock}
          /\ batch \in Seq(Socks \cup {NoSock})
          /\ exitFlag \in BOOLEAN
          /\ eventMap \in [Fds -> Socks \cup {NoSock}]
          /\ epoll \subseteq Socks /\ expired \subseteq Fds
          /\ held \in [Socks -> {"new", "held", "released", "overtaken"}]
          /\ fdOf \in [Socks -> Fds]
          /\ owner \in {"alive", "write", "join", "joined"}
          /\ posted \in 0..MaxTasks /\ done \subseteq 1..MaxTasks

\* A task in the list is never forgotten by a sleeping poller: somebody has yet
\* to write to the pipe, or epoll owes an event of it, or the list is about to
\* be taken (the push before the write, the drain before the swap).
WakeupPending ==
    list # <<>> => \/ writing # {} \/ owner = "write"
                   \/ edge /\ pipe > 0
                   \/ NoSock \in Range(batch) \/ loop = "swap"

\* The kernel watches an open socket exactly when its callback is kept, under
\* its own number, so no callback is lost and none outlives its registration.
KernelAgrees ==
    \A s \in Open : s \in epoll <=> \E f \in Fds : eventMap[f] = s

\* An event is handled by the callback of the socket it happened on, or by
\* none, although its number may have been closed and given to another socket
\* by a callback or task since epoll_wait returned.
FreshCallback ==
    loop = "dispatch" /\ batch # <<>> /\ Head(batch) # NoSock
        => CallbackFor(Head(batch)) \in {NoSock, Head(batch)}

\* SockFD closes its descriptor when it is destroyed (Socket.h:166): with the
\* poller back in epoll_wait and nothing queued, its socket is closed.  The code
\* violates it: delEvent on the poller's thread acts at once, the addEvent that
\* another thread has queued registers the socket afterwards, for ever.
ReleasedIsClosed ==
    loop = "wait" /\ list = <<>>
        => \A s \in Socks : held[s] \in {"released", "overtaken"} => s \notin Open

\* That is the only way: a socket that no queued addEvent outlived is closed,
\* whatever was queued, run or called for it, since delEvent takes effect behind
\* addEvent and drops the kernel's registration and the callback together.
OnlyOvertakenStay ==
    loop = "wait" /\ list = <<>>
        => \A s \in Open : held[s] \in {"held", "overtaken"}

\* The list keeps what async and async_first promise: each task once, and those
\* of async in order, whatever is posted while the list is swapped or run.
Ids(op) == {t.id : t \in {u \in Range(list) \cup Range(running) : u.op = op}}
Executor == INSTANCE AsyncExecutor
            WITH waiting <- Ids("async"), urgent <- Ids("first")
ImplementsExecutor == Executor!Spec

\* Every task that was posted runs, also one that the exit overtakes: it is run
\* by the loop or at last by the destructor.  (Posts are bounded and what has run
\* stays so: that there is always a later moment with nothing to run says it of
\* each task.)
EveryTaskRuns == []<>(1..posted \subseteq done)

\* The destructor ends: the exit it posts always reaches the loop.
ShutdownEnds == []<>(owner # "alive" => loop = "dead")
=============================================================================
