------------------------- MODULE EventPollerProofs -------------------------
(***************************************************************************)
(* Theorems about EventPoller, for any number of threads, sockets and      *)
(* descriptor numbers.  WInv says where the wake-up of a task in the list  *)
(* is at every moment; SInv ties the event map, the kernel's set and the   *)
(* batch of events to the sockets that are open.                           *)
(***************************************************************************)
EXTENDS EventPoller, SequenceLemmas, TLAPS, FiniteSetTheorems, SequenceTheorems

-----------------------------------------------------------------------------
\* Type correctness.

LEMMA TaskTypes ==
    /\ \A op \in {"async", "first"}, n \in 1..MaxTasks : User(op, n) \in Tasks
    /\ \A op \in {"add", "del"}, s \in Socks : OnSock(op, s) \in Tasks
    /\ Exit \in Tasks
BY DEF Tasks

LEMMA TaskFields ==
    ASSUME NEW t \in Tasks
    PROVE  /\ t.op \in {"async", "first"} => t.id \in 1..MaxTasks
           /\ t.op \in {"add", "del"} => t.sock \in Socks
           /\ t.op \notin {"add", "del"} => t.sock = NoSock
BY DEF Tasks, User, OnSock, Exit

LEMMA PushType ==
    ASSUME list \in Seq(Tasks), NEW t \in Tasks, Push(t)
    PROVE  list' \in Seq(Tasks) /\ Range(list') = Range(list) \cup {t}
<1>1. CASE t.op \in {"first", "exit"}
  <2>1. <<t>> \in Seq(Tasks)
    OBVIOUS
  <2>2. <<t>> \o list \in Seq(Tasks)
    BY <2>1, ConcatProperties
  <2> QED BY <1>1, <2>2, RangePrepend DEF Push
<1>2. CASE t.op \notin {"first", "exit"}
  BY <1>2, AppendProperties, RangeAppend DEF Push
<1> QED BY <1>1, <1>2

LEMMA WritePipeType ==
    ASSUME pipe \in 0..PipeSize, edge \in BOOLEAN, WritePipe
    PROVE  pipe' \in 1..PipeSize /\ edge' \in BOOLEAN
<1>1. pipe' \in 1..PipeSize
  BY BoundsAssumption DEF WritePipe
<1>2. edge' = TRUE \/ edge' = (edge \/ pipe = 0)
  BY DEF WritePipe
<1>3. (edge \/ pipe = 0) \in BOOLEAN
  OBVIOUS
<1> QED BY <1>1, <1>2, <1>3

LEMMA TupleType ==
    ASSUME NEW S, NEW n \in Nat, NEW q \in [1..n -> S]
    PROVE  q \in Seq(S)
OBVIOUS

LEMMA BatchType ==
    ASSUME NEW b \in Batches, epoll \subseteq Socks
    PROVE  /\ b \in Seq(Socks \cup {NoSock})
           /\ Range(b) \subseteq (Open \cap epoll) \cup {NoSock}
<1>1. PICK ready \in SUBSET (Open \cap epoll) : b \in SetToSeqs(PipeReady \cup ready)
  BY DEF Batches
<1> DEFINE R == PipeReady \cup ready
<1>2. R \subseteq (Open \cap epoll) \cup {NoSock} /\ R \subseteq Socks \cup {NoSock}
  BY DEF PipeReady
<1>3. IsFiniteSet(Socks \cup {NoSock})
  BY SocksAssumption, FS_AddElement
<1>4. Cardinality(R) \in Nat
  BY <1>2, <1>3, FS_Subset, FS_CardinalityType
<1>5. b \in [1..Cardinality(R) -> R]
  BY <1>1 DEF SetToSeqs
<1> HIDE DEF R
<1>6. b \in Seq(R)
  BY <1>4, <1>5, TupleType
<1>8. Range(b) \subseteq R
  BY <1>6, RangeType
<1>7. b \in Seq(Socks \cup {NoSock})
  BY <1>2, <1>6, LenProperties, ElementOfSeq
<1> QED BY <1>2, <1>7, <1>8

LEMMA FreeFdsType == FreeFds \subseteq Fds
BY DEF FreeFds

\* What becomes of a socket that the poller's thread closes.
Gone == {"released", "overtaken"}

LEMMA InitTypeOK == Init => TypeOK
<1> SUFFICES ASSUME Init PROVE TypeOK
  OBVIOUS
<1>1. <<>> \in Seq(Tasks) /\ <<>> \in Seq(Socks \cup {NoSock})
  BY EmptySeq
<1>2. (CHOOSE f \in Fds : TRUE) \in Fds
  BY FdsAssumption
<1>3. fdOf \in [Socks -> Fds]
  BY <1>2 DEF Init
<1>4. held \in [Socks -> {"new", "held", "released", "overtaken"}] /\ eventMap \in [Fds -> Socks \cup {NoSock}]
  BY DEF Init
<1>5. pipe \in 0..PipeSize /\ posted \in 0..MaxTasks /\ done \subseteq 1..MaxTasks
  BY BoundsAssumption DEF Init
<1>6. list \in Seq(Tasks) /\ running \in Seq(Tasks) /\ batch \in Seq(Socks \cup {NoSock})
  BY <1>1 DEF Init
<1> QED BY <1>3, <1>4, <1>5, <1>6 DEF Init, TypeOK

\* What every step of the list, the pipe and the threads keeps typed.
LEMMA NextTypeOK == TypeOK /\ [Next]_vars => TypeOK'
<1> SUFFICES ASSUME TypeOK, [Next]_vars PROVE TypeOK'
  OBVIOUS
<1> USE DEF TypeOK
<1>1. ASSUME NEW c \in Callers, Async(c) PROVE TypeOK'
  <2>1. PICK op \in {"async", "first"} : CallerPush(c, User(op, posted + 1))
    BY <1>1 DEF Async
  <2>2. posted + 1 \in 1..MaxTasks
    BY <1>1, BoundsAssumption DEF Async
  <2>3. list' \in Seq(Tasks) /\ writing' \subseteq Callers
    BY <2>1, <2>2, TaskTypes, PushType DEF CallerPush
  <2> QED BY <1>1, <2>2, <2>3 DEF Async, CallerPush, events, sockets
<1>2. ASSUME NEW c \in Callers, AddEvent(c) PROVE TypeOK'
  <2>1. PICK s \in Socks, f \in FreeFds :
          /\ CallerPush(c, OnSock("add", s))
          /\ held' = [held EXCEPT ![s] = "held"]
          /\ fdOf' = [fdOf EXCEPT ![s] = f]
    BY <1>2 DEF AddEvent
  <2>2. list' \in Seq(Tasks) /\ writing' \subseteq Callers
    BY <2>1, TaskTypes, PushType DEF CallerPush
  <2> QED BY <1>2, <2>1, <2>2, FreeFdsType DEF AddEvent, events
<1>3. ASSUME NEW c \in Callers, DelEvent(c) PROVE TypeOK'
  <2>1. PICK s \in Socks : /\ CallerPush(c, OnSock("del", s))
                           /\ held' = [held EXCEPT ![s] = "released"]
    BY <1>3 DEF DelEvent
  <2>2. list' \in Seq(Tasks) /\ writing' \subseteq Callers
    BY <2>1, TaskTypes, PushType DEF CallerPush
  <2> QED BY <1>3, <2>1, <2>2 DEF DelEvent, events
<1>4. ASSUME NEW c \in Callers, Wake(c) PROVE TypeOK'
  <2>1. pipe' \in 0..PipeSize /\ edge' \in BOOLEAN
    BY <1>4, WritePipeType DEF Wake
  <2> QED BY <1>4, <2>1 DEF Wake, events, sockets
<1>5. CASE Wait
  <2>1. batch' \in Seq(Socks \cup {NoSock})
    BY <1>5, BatchType DEF Wait
  <2>2. edge' \in BOOLEAN
    BY <1>5 DEF Wait
  <2> QED BY <1>5, <2>1, <2>2 DEF Wait, sockets
<1>6. CASE Callback
  <2>1. batch' \in Seq(Socks \cup {NoSock}) /\ Head(batch) \in Socks
    BY <1>6, HeadTailProperties DEF Callback
  <2>2. current' \in Socks \cup {NoSock}
    BY <1>6, <2>1 DEF Callback, CallbackFor
  <2> QED BY <1>6, <2>1, <2>2 DEF Callback, wakeup, events, sockets
<1>7. CASE Skip
  <2>1. batch' \in Seq(Socks \cup {NoSock}) /\ epoll' \subseteq Socks
    BY <1>7, HeadTailProperties DEF Skip
  <2> QED BY <1>7, <2>1 DEF Skip, wakeup, sockets
<1>8. CASE Drain
  <2>1. batch' \in Seq(Socks \cup {NoSock}) /\ pipe' \in 0..PipeSize
    BY <1>8, HeadTailProperties, BoundsAssumption DEF Drain
  <2> QED BY <1>8, <2>1 DEF Drain, events, sockets
<1>9. CASE Swap
  <2>1. <<>> \in Seq(Tasks)
    BY EmptySeq
  <2> QED BY <1>9, <2>1 DEF Swap, events, sockets
<1>10. CASE RunTask
  <2> DEFINE t == Head(running)
  <2>1. t \in Tasks /\ running' \in Seq(Tasks)
    BY <1>10, HeadTailProperties DEF RunTask
  <2>2. CASE UserTask(t)
    <3>1. t.id \in 1..MaxTasks
      BY <2>1, <2>2, TaskFields DEF UserTask
    <3> QED BY <1>10, <2>1, <2>2, <3>1 DEF RunTask, UserTask, wakeup, events, sockets
  <2>3. CASE AddTask(t)
    <3>1. t.sock \in Socks
      BY <2>1, <2>3, TaskFields DEF AddTask
    <3>2. epoll' \subseteq Socks /\ eventMap' \in [Fds -> Socks \cup {NoSock}] /\ expired' = expired
      BY <2>3, <3>1 DEF AddTask, AddNow
    <3> QED BY <1>10, <2>1, <2>3, <3>2 DEF RunTask, AddTask, wakeup, sockets
  <2>4. CASE DelTask(t)
    <3>1. t.sock \in Socks
      BY <2>1, <2>4, TaskFields DEF DelTask
    <3>2. epoll' \subseteq Socks /\ eventMap' \in [Fds -> Socks \cup {NoSock}] /\ expired' \subseteq Fds
      BY <2>4, <3>1 DEF DelTask, DelNow, events
    <3> QED BY <1>10, <2>1, <2>4, <3>2 DEF RunTask, DelTask, wakeup, sockets
  <2>5. CASE ExitTask(t)
    BY <1>10, <2>1, <2>5 DEF RunTask, ExitTask, wakeup, events, sockets
  <2> QED BY <1>10, <2>2, <2>3, <2>4, <2>5 DEF RunTask
<1>11. CASE TasksRun
  BY <1>11 DEF TasksRun, wakeup, events, sockets
<1>12. CASE BatchDone
  BY <1>12 DEF BatchDone, wakeup, events, sockets
<1>13. CASE OpenHere
  <2>1. PICK s \in Socks, f \in FreeFds :
          /\ held' = [held EXCEPT ![s] = "held"]
          /\ fdOf' = [fdOf EXCEPT ![s] = f]
          /\ epoll' = epoll \cup {s}
          /\ eventMap' = IF eventMap[f] = NoSock THEN [eventMap EXCEPT ![f] = s]
                                                 ELSE eventMap
    BY <1>13 DEF OpenHere
  <2> QED BY <1>13, <2>1, FreeFdsType DEF OpenHere, wakeup
<1>14. CASE CloseHere
  <2>1. PICK s \in Socks : /\ \E h \in Gone : held' = [held EXCEPT ![s] = h]
                           /\ DelNow(s)
    BY <1>14 DEF CloseHere, Gone
  <2>2. epoll' \subseteq Socks /\ eventMap' \in [Fds -> Socks \cup {NoSock}] /\ expired' \subseteq Fds
    BY <2>1 DEF DelNow, events
  <2>3. held' \in [Socks -> {"new", "held", "released", "overtaken"}]
    BY <2>1 DEF Gone
  <2> QED BY <1>14, <2>2, <2>3 DEF CloseHere, wakeup
<1>15. CASE PostHere
  <2>1. posted + 1 \in 1..MaxTasks
    BY <1>15, BoundsAssumption DEF PostHere
  <2>2. list' \in Seq(Tasks)
    BY <1>15, <2>1, TaskTypes, PushType DEF PostHere
  <2>3. pipe' \in 0..PipeSize /\ edge' \in BOOLEAN
    BY <1>15, WritePipeType DEF PostHere
  <2> QED BY <1>15, <2>1, <2>2, <2>3 DEF PostHere, events, sockets
<1>16. CASE Return
  BY <1>16 DEF Return, wakeup, events, sockets
<1>17. CASE Shutdown
  <2>1. list' \in Seq(Tasks)
    BY <1>17, TaskTypes, PushType DEF Shutdown
  <2> QED BY <1>17, <2>1 DEF Shutdown, events, sockets
<1>18. CASE ShutdownWake
  <2>1. pipe' \in 0..PipeSize /\ edge' \in BOOLEAN
    BY <1>18, WritePipeType DEF ShutdownWake
  <2> QED BY <1>18, <2>1 DEF ShutdownWake, events, sockets
<1>19. CASE Join
  BY <1>19, BoundsAssumption DEF Join, events, sockets
<1>20. CASE UNCHANGED vars
  BY <1>20 DEF vars
<1> QED
  BY <1>1, <1>2, <1>3, <1>4, <1>5, <1>6, <1>7, <1>8, <1>9, <1>10, <1>11, <1>12,
     <1>13, <1>14, <1>15, <1>16, <1>17, <1>18, <1>19, <1>20
     DEF Next, Caller, Loop, UserCode, Owner

\* Every variable of the poller keeps its type, for any number of threads,
\* sockets and descriptor numbers, and any size of the wake-up pipe.
THEOREM TypeOKHolds == Spec => []TypeOK
BY InitTypeOK, NextTypeOK, PTL DEF Spec

-----------------------------------------------------------------------------
\* The wake-up.  Bytes in the pipe come with an edge that epoll owes or with an
\* event of the pipe in the batch, since only the drain takes bytes out.
PipeAnnounced == pipe > 0 => edge \/ NoSock \in Range(batch)
BatchTaken == loop = "wait" => batch = <<>>
WInv == BatchTaken /\ PipeAnnounced /\ WakeupPending

LEMMA WriteWakes ==
    ASSUME TypeOK, PipeAnnounced, WritePipe, batch' = batch
    PROVE  pipe' > 0 /\ (edge' \/ NoSock \in Range(batch'))
<1>1. pipe' > 0
  BY WritePipeType DEF TypeOK
<1>2. edge' = TRUE \/ edge' = (edge \/ pipe = 0)
  BY DEF WritePipe
<1>3. pipe = 0 \/ pipe > 0
  BY BoundsAssumption DEF TypeOK
<1> QED BY <1>1, <1>2, <1>3 DEF PipeAnnounced

LEMMA TailKeepsPipe ==
    ASSUME TypeOK, batch # <<>>, Head(batch) # NoSock, batch' = Tail(batch)
    PROVE  NoSock \in Range(batch') <=> NoSock \in Range(batch)
BY RangeTail DEF TypeOK

LEMMA InitWInv == Init => WInv
BY DEF Init, WInv, BatchTaken, PipeAnnounced, WakeupPending

LEMMA NextWInv == TypeOK /\ WInv /\ [Next]_vars => WInv'
<1> SUFFICES ASSUME TypeOK, WInv, [Next]_vars PROVE WInv'
  OBVIOUS
<1> USE DEF WInv, BatchTaken, PipeAnnounced, WakeupPending
<1>1. ASSUME NEW c \in Callers, Async(c) \/ AddEvent(c) \/ DelEvent(c) PROVE WInv'
  <2>1. c \in writing' /\ UNCHANGED <<pipe, edge, loop, batch>>
    BY <1>1 DEF Async, AddEvent, DelEvent, CallerPush
  <2> QED BY <2>1
<1>2. ASSUME NEW c \in Callers, Wake(c) PROVE WInv'
  <2>1. pipe' > 0 /\ (edge' \/ NoSock \in Range(batch'))
    BY <1>2, WriteWakes DEF Wake
  <2> QED BY <1>2, <2>1 DEF Wake
<1>3. CASE Wait
  <2>1. edge' = (edge /\ NoSock \notin Range(batch'))
    BY <1>3 DEF Wait
  <2>2. UNCHANGED <<list, pipe, writing, owner>> /\ loop = "wait" /\ loop' = "dispatch"
    BY <1>3 DEF Wait
  <2>3. batch = <<>>
    BY <2>2
  <2>4. NoSock \notin Range(batch)
    BY <2>3 DEF Range
  <2> QED BY <2>1, <2>2, <2>4
<1>4. CASE Callback \/ Skip
  <2>1. UNCHANGED <<list, pipe, edge, writing, owner>> /\ loop = "dispatch" /\ loop' # "wait"
    BY <1>4 DEF Callback, Skip, wakeup
  <2>2. batch # <<>> /\ Head(batch) # NoSock /\ batch' = Tail(batch)
    BY <1>4 DEF Callback, Skip
  <2>3. NoSock \in Range(batch') <=> NoSock \in Range(batch)
    BY <2>2, TailKeepsPipe
  <2> QED BY <2>1, <2>3
<1>5. CASE Drain
  BY <1>5 DEF Drain
<1>6. CASE Swap
  BY <1>6 DEF Swap
<1>7. CASE RunTask
  <2>1. UNCHANGED <<list, pipe, edge, writing, batch, owner>> /\ loop = "run" /\ loop' \in {"run", "task"}
    BY <1>7 DEF RunTask, UserTask, AddTask, DelTask, ExitTask, wakeup
  <2> QED BY <2>1
<1>8. CASE TasksRun \/ Return
  <2>1. UNCHANGED <<list, pipe, edge, writing, batch, owner>> /\ loop # "swap" /\ loop' # "wait"
    BY <1>8 DEF TasksRun, Return, InUserCode, wakeup
  <2> QED BY <2>1
<1>9. CASE BatchDone
  BY <1>9 DEF BatchDone, wakeup
<1>10. CASE OpenHere \/ CloseHere
  <2>1. UNCHANGED <<list, pipe, edge, writing, batch, owner, loop>>
    BY <1>10 DEF OpenHere, CloseHere, wakeup
  <2> QED BY <2>1
<1>11. CASE PostHere
  <2>1. pipe' > 0 /\ (edge' \/ NoSock \in Range(batch'))
    BY <1>11, WriteWakes DEF PostHere
  <2> QED BY <1>11, <2>1 DEF PostHere
<1>12. CASE Shutdown
  BY <1>12 DEF Shutdown
<1>13. CASE ShutdownWake
  <2>1. pipe' > 0 /\ (edge' \/ NoSock \in Range(batch'))
    BY <1>13, WriteWakes DEF ShutdownWake
  <2> QED BY <1>13, <2>1 DEF ShutdownWake
<1>14. CASE Join
  BY <1>14 DEF Join
<1>15. CASE UNCHANGED vars
  BY <1>15 DEF vars
<1> QED
  BY <1>1, <1>2, <1>3, <1>4, <1>5, <1>6, <1>7, <1>8, <1>9, <1>10, <1>11, <1>12,
     <1>13, <1>14, <1>15 DEF Next, Caller, Loop, UserCode, Owner

\* No task is left in the list of a poller that nothing will wake: although the
\* pipe is edge-triggered, drops bytes when full and is drained before the list
\* is taken.
THEOREM WakeupPendingHolds == Spec => []WakeupPending
<1>1. TypeOK /\ WInv /\ [Next]_vars => (TypeOK /\ WInv)'
  BY NextTypeOK, NextWInv
<1>2. Init => TypeOK /\ WInv
  BY InitTypeOK, InitWInv
<1>3. TypeOK /\ WInv => WakeupPending
  BY DEF WInv
<1> QED BY <1>1, <1>2, <1>3, PTL DEF Spec

-----------------------------------------------------------------------------
\* The sockets.  A socket that is open was given its number and shares it with
\* no other open one; the map has a socket under its own number, and exactly
\* those that the kernel watches; an event of the batch is that of a socket
\* still watched, or its number is among the expired ones.
Opened == \A s \in Open : held[s] # "new"
OwnNumber == \A s, r \in Open : fdOf[s] = fdOf[r] => s = r
MapOwn == \A f \in Fds : eventMap[f] # NoSock =>
             fdOf[eventMap[f]] = f /\ eventMap[f] \in epoll
Watched == \A s \in epoll : eventMap[fdOf[s]] = s
BatchKnown == \A s \in Range(batch) \ {NoSock} :
                 held[s] # "new" /\ (s \in epoll \/ fdOf[s] \in expired)
SInv == Opened /\ OwnNumber /\ MapOwn /\ Watched /\ BatchKnown

TaskSocks == {t.sock : t \in Range(list) \cup Range(running)}

LEMMA OpenIs ==
    ASSUME TypeOK
    PROVE  Open = {s \in Socks : \/ held[s] = "held"
                                 \/ \E f \in Fds : eventMap[f] = s
                                 \/ current = s
                                 \/ s \in TaskSocks}
BY DEF Open, TaskSocks

\* Steps that leave the map and the kernel alone, open no socket and add no
\* event.
LEMMA QuietStep ==
    ASSUME TypeOK, SInv, UNCHANGED <<events, sockets>>,
           Open' \subseteq Open, Range(batch') \subseteq Range(batch)
    PROVE  SInv'
BY DEF SInv, Opened, OwnNumber, MapOwn, Watched, BatchKnown, events, sockets

LEMMA WatchedOpen ==
    ASSUME TypeOK, SInv
    PROVE  /\ epoll \subseteq Open
           /\ \A f \in Fds : eventMap[f] # NoSock => eventMap[f] \in Open
           /\ \A f \in FreeFds : eventMap[f] = NoSock
<1>1. epoll \subseteq Open
  BY DEF SInv, Watched, Open, TypeOK
<1>2. \A f \in Fds : eventMap[f] # NoSock => eventMap[f] \in Open
  BY DEF Open, TypeOK
<1> QED BY <1>1, <1>2 DEF SInv, MapOwn, FreeFds

\* A socket that is opened: its number was free, so the others keep theirs.
LEMMA OpenStep ==
    ASSUME TypeOK, SInv, NEW s \in Socks, NEW f \in FreeFds,
           held[s] = "new",
           held' = [held EXCEPT ![s] = "held"],
           fdOf' = [fdOf EXCEPT ![s] = f],
           Open' \subseteq Open \cup {s}, UNCHANGED <<batch, expired>>,
           \/ UNCHANGED <<eventMap, epoll>>
           \/ epoll' = epoll \cup {s} /\ eventMap' = [eventMap EXCEPT ![f] = s]
    PROVE  SInv'
<1>1. s \notin Open /\ s \notin epoll /\ s \notin Range(batch) \ {NoSock}
  BY WatchedOpen DEF SInv, Opened, BatchKnown
<1>2. f \in Fds /\ eventMap[f] = NoSock /\ \A r \in Open : fdOf[r] # f
  BY WatchedOpen DEF FreeFds
<1>3. fdOf'[s] = f /\ \A r \in Socks : r # s => fdOf'[r] = fdOf[r] /\ held'[r] = held[r]
  BY DEF TypeOK
<1>4. held'[s] = "held"
  BY DEF TypeOK
<1>5. Open \subseteq Socks /\ epoll \subseteq Open
  BY WatchedOpen DEF Open
<1>6. Opened'
  BY <1>3, <1>4, <1>5 DEF SInv, Opened
<1>7. OwnNumber'
  BY <1>1, <1>2, <1>3, <1>5 DEF SInv, OwnNumber
<1>8. MapOwn' /\ Watched'
  <2>1. \A g \in Fds : eventMap[g] # NoSock => eventMap[g] \in Socks /\ eventMap[g] # s
    BY <1>1, WatchedOpen, <1>5
  <2>2. \A r \in epoll : r \in Socks /\ r # s /\ fdOf[r] # f /\ fdOf[r] \in Fds
    BY <1>1, <1>2, <1>5 DEF TypeOK
  <2>3. CASE UNCHANGED <<eventMap, epoll>>
    BY <1>3, <2>1, <2>2, <2>3 DEF SInv, MapOwn, Watched
  <2>4. CASE epoll' = epoll \cup {s} /\ eventMap' = [eventMap EXCEPT ![f] = s]
    <3>1. eventMap'[f] = s /\ \A g \in Fds : g # f => eventMap'[g] = eventMap[g]
      BY <1>2, <2>4 DEF TypeOK
    <3>2. MapOwn'
      BY <1>3, <2>1, <2>4, <3>1 DEF SInv, MapOwn
    <3>3. Watched'
      BY <1>3, <2>2, <2>4, <3>1 DEF SInv, Watched
    <3> QED BY <3>2, <3>3
  <2> QED BY <2>3, <2>4
<1>9. BatchKnown'
  <2>1. \A r \in Range(batch) \ {NoSock} : r \in Socks /\ r # s
    BY <1>1, RangeType DEF TypeOK
  <2> QED BY <1>3, <2>1 DEF SInv, BatchKnown
<1> QED BY <1>6, <1>7, <1>8, <1>9 DEF SInv

\* A queued addEvent carried out: the socket is open, so its number is its own.
LEMMA AddStep ==
    ASSUME TypeOK, SInv, NEW s \in Open, AddNow(s),
           Open' \subseteq Open, UNCHANGED <<batch, sockets>>
    PROVE  SInv'
<1> s \in Socks /\ fdOf[s] \in Fds
  BY DEF Open, TypeOK
<1>1. CASE Joined \/ s \in epoll
  BY <1>1, QuietStep DEF AddNow, events, sockets
<1>2. CASE ~(Joined \/ s \in epoll)
  <2>1. eventMap[fdOf[s]] = NoSock
    BY <1>2, WatchedOpen DEF SInv, MapOwn, OwnNumber
  <2>2. /\ epoll' = epoll \cup {s}
        /\ eventMap' = [eventMap EXCEPT ![fdOf[s]] = s]
        /\ UNCHANGED <<expired, held, fdOf>>
    BY <1>2, <2>1 DEF AddNow, sockets
  <2>3. eventMap'[fdOf[s]] = s /\ \A g \in Fds : g # fdOf[s] => eventMap'[g] = eventMap[g]
    BY <2>2 DEF TypeOK
  <2>4. MapOwn'
    BY <2>2, <2>3 DEF SInv, MapOwn
  <2>5. \A r \in epoll : fdOf[r] # fdOf[s] /\ fdOf[r] \in Fds
    BY <1>2, WatchedOpen DEF SInv, OwnNumber, TypeOK
  <2>6. Watched'
    BY <2>2, <2>3, <2>5 DEF SInv, Watched
  <2> QED BY <2>2, <2>4, <2>6 DEF SInv, Opened, OwnNumber, BatchKnown
<1> QED BY <1>1, <1>2

\* delEvent on the poller's thread: the number goes to the expired ones.
LEMMA DelStep ==
    ASSUME TypeOK, SInv, NEW s \in Open, DelNow(s),
           Open' \subseteq Open, UNCHANGED <<batch, fdOf>>,
           \A r \in Socks : held[r] # "new" => held'[r] # "new"
    PROVE  SInv'
<1> s \in Socks /\ fdOf[s] \in Fds /\ Open \subseteq Socks
  BY DEF Open, TypeOK
<1>1. Opened' /\ OwnNumber'
  BY DEF SInv, Opened, OwnNumber
<1>2. Range(batch) \ {NoSock} \subseteq Socks
  BY RangeType DEF TypeOK
<1>3. CASE Joined \/ s \notin epoll
  BY <1>1, <1>2, <1>3 DEF SInv, MapOwn, Watched, BatchKnown, DelNow, events
<1>4. CASE ~(Joined \/ s \notin epoll)
  <2>1. eventMap[fdOf[s]] = s /\ s # NoSock
    BY <1>4, SocksAssumption DEF SInv, Watched
  <2>2. /\ epoll' = epoll \ {s}
        /\ eventMap' = [eventMap EXCEPT ![fdOf[s]] = NoSock]
        /\ expired' = expired \cup {fdOf[s]}
    BY <1>4, <2>1 DEF DelNow
  <2>3. eventMap'[fdOf[s]] = NoSock /\ \A g \in Fds : g # fdOf[s] => eventMap'[g] = eventMap[g]
    BY <2>2 DEF TypeOK
  <2>4. MapOwn'
    BY <2>1, <2>2, <2>3 DEF SInv, MapOwn
  <2>5. \A r \in epoll : r # s => fdOf[r] # fdOf[s] /\ fdOf[r] \in Fds
    BY WatchedOpen DEF SInv, OwnNumber, TypeOK
  <2>6. Watched'
    BY <2>2, <2>3, <2>5 DEF SInv, Watched
  <2>7. BatchKnown'
    BY <1>2, <2>2 DEF SInv, BatchKnown
  <2> QED BY <1>1, <2>4, <2>6, <2>7 DEF SInv
<1> QED BY <1>3, <1>4

\* Sockets stay open or close when no reference is added.
LEMMA OpenShrinks ==
    ASSUME TypeOK, UNCHANGED <<eventMap, held>>,
           current' \in Open \cup {NoSock}, TaskSocks' \subseteq Open \cup {NoSock}
    PROVE  Open' \subseteq Open
BY SocksAssumption DEF Open, TaskSocks

LEMMA TasksOpen ==
    ASSUME TypeOK
    PROVE  TaskSocks \subseteq Open \cup {NoSock} /\ current \in Open \cup {NoSock}
<1>1. \A t \in Range(list) \cup Range(running) : t \in Tasks
  BY RangeType DEF TypeOK
<1>2. \A t \in Tasks : t.sock \in Socks \cup {NoSock}
  BY TaskFields
<1> QED BY <1>1, <1>2 DEF TaskSocks, Open, TypeOK

\* A push adds the reference of its task only.
LEMMA PushSocks ==
    ASSUME TypeOK, NEW t \in Tasks, Push(t), running' = running
    PROVE  TaskSocks' = TaskSocks \cup {t.sock}
BY PushType DEF TaskSocks, TypeOK

LEMMA TailSocks ==
    ASSUME TypeOK, running # <<>>, running' = Tail(running), list' = list
    PROVE  TaskSocks' \subseteq TaskSocks /\ Head(running).sock \in TaskSocks
BY RangeTail DEF TaskSocks, TypeOK

LEMMA TailBatch ==
    ASSUME TypeOK, batch # <<>>, batch' = Tail(batch)
    PROVE  Range(batch') \subseteq Range(batch) /\ Head(batch) \in Range(batch)
BY RangeTail DEF TypeOK

LEMMA InitSInv == Init => SInv
<1> SUFFICES ASSUME Init PROVE SInv
  OBVIOUS
<1>1. Range(list) = {} /\ Range(running) = {} /\ Range(batch) = {}
  BY DEF Init, Range
<1>2. Open = {}
  BY <1>1, SocksAssumption DEF Init, Open
<1> QED BY <1>1, <1>2 DEF Init, SInv, Opened, OwnNumber, MapOwn, Watched, BatchKnown

LEMMA NextSInv == TypeOK /\ SInv /\ [Next]_vars => SInv'
<1> SUFFICES ASSUME TypeOK, SInv, [Next]_vars PROVE SInv'
  OBVIOUS
<1>a. TaskSocks \subseteq Open \cup {NoSock} /\ current \in Open \cup {NoSock}
  BY TasksOpen
<1>1. ASSUME NEW c \in Callers, Async(c) PROVE SInv'
  <2>1. PICK op \in {"async", "first"} : CallerPush(c, User(op, posted + 1))
    BY <1>1 DEF Async
  <2>2. posted + 1 \in 1..MaxTasks
    BY <1>1, BoundsAssumption DEF Async, TypeOK
  <2>3. TaskSocks' = TaskSocks \cup {NoSock}
    <3>1. User(op, posted + 1) \in Tasks /\ User(op, posted + 1).sock = NoSock
      BY <2>2, TaskTypes DEF User
    <3> QED BY <1>1, <2>1, <3>1, PushSocks DEF CallerPush, Async
  <2>4. UNCHANGED <<events, sockets, batch, current>>
    BY <1>1 DEF Async
  <2> QED BY <1>a, <2>3, <2>4, OpenShrinks, QuietStep DEF events, sockets
<1>2. ASSUME NEW c \in Callers, AddEvent(c) PROVE SInv'
  <2>1. PICK s \in Socks, f \in FreeFds :
          /\ held[s] = "new"
          /\ CallerPush(c, OnSock("add", s))
          /\ held' = [held EXCEPT ![s] = "held"]
          /\ fdOf' = [fdOf EXCEPT ![s] = f]
    BY <1>2 DEF AddEvent
  <2>2. UNCHANGED <<events, batch, current, running>>
    BY <1>2 DEF AddEvent
  <2>3. TaskSocks' = TaskSocks \cup {s}
    <3>1. OnSock("add", s) \in Tasks /\ OnSock("add", s).sock = s
      BY TaskTypes DEF OnSock
    <3> QED BY <2>1, <2>2, <3>1, PushSocks DEF CallerPush
  <2>4. Open' \subseteq Open \cup {s}
    BY <1>a, <2>1, <2>2, <2>3, SocksAssumption DEF Open, TaskSocks, events, TypeOK
  <2> QED BY <2>1, <2>2, <2>4, OpenStep DEF events
<1>3. ASSUME NEW c \in Callers, DelEvent(c) PROVE SInv'
  <2>1. PICK s \in Socks : /\ held[s] = "held"
                           /\ CallerPush(c, OnSock("del", s))
                           /\ held' = [held EXCEPT ![s] = "released"]
    BY <1>3 DEF DelEvent
  <2>2. UNCHANGED <<events, batch, current, running, fdOf>>
    BY <1>3 DEF DelEvent
  <2>3. TaskSocks' = TaskSocks \cup {s}
    <3>1. OnSock("del", s) \in Tasks /\ OnSock("del", s).sock = s
      BY TaskTypes DEF OnSock
    <3> QED BY <2>1, <2>2, <3>1, PushSocks DEF CallerPush
  <2>4. s \in Open
    BY <2>1 DEF Open
  <2>5. \A r \in Socks : held'[r] = IF r = s THEN "released" ELSE held[r]
    BY <2>1 DEF TypeOK
  <2>6. Open' \subseteq Open
    BY <1>a, <2>2, <2>3, <2>4, <2>5, SocksAssumption DEF Open, TaskSocks, events
  <2>7. Range(batch) \ {NoSock} \subseteq Socks /\ Open \subseteq Socks
    BY RangeType DEF TypeOK, Open
  <2> QED BY <2>2, <2>5, <2>6, <2>7 DEF SInv, Opened, OwnNumber, MapOwn, Watched, BatchKnown, events
<1>4. ASSUME NEW c \in Callers, Wake(c) PROVE SInv'
  BY <1>4, <1>a, OpenShrinks, QuietStep DEF Wake, TaskSocks, events, sockets
<1>5. CASE Wait
  <2>1. Range(batch') \subseteq (Open \cap epoll) \cup {NoSock}
    BY <1>5, BatchType DEF Wait, TypeOK
  <2>2. UNCHANGED <<list, running, current, eventMap, epoll, held, fdOf>>
    BY <1>5 DEF Wait, sockets
  <2>3. Open' \subseteq Open
    BY <1>a, <2>2, OpenShrinks DEF TaskSocks
  <2> QED BY <2>1, <2>2, <2>3 DEF SInv, Opened, OwnNumber, MapOwn, Watched, BatchKnown
<1>6. CASE Callback
  <2>1. CallbackFor(Head(batch)) \in Open
    <3>1. Head(batch) \in Socks
      BY <1>6, HeadTailProperties DEF Callback, TypeOK
    <3> QED BY <1>6, <3>1, WatchedOpen DEF Callback, CallbackFor, TypeOK
  <2>2. Open' \subseteq Open
    BY <1>6, <1>a, <2>1, OpenShrinks DEF Callback, TaskSocks, wakeup, events, sockets
  <2> QED BY <1>6, <2>2, TailBatch, QuietStep DEF Callback
<1>7. CASE Skip
  <2>1. epoll' = epoll
    <3>1. Head(batch) \in Socks /\ fdOf[Head(batch)] \in Fds
      BY <1>7, HeadTailProperties DEF Skip, TypeOK
    <3>2. CASE fdOf[Head(batch)] \in expired
      BY <1>7, <3>2 DEF Skip
    <3>3. CASE fdOf[Head(batch)] \notin expired
      <4>1. eventMap[fdOf[Head(batch)]] = NoSock
        BY <1>7, <3>3 DEF Skip, CallbackFor
      <4>2. \A s \in epoll : s # NoSock /\ eventMap[fdOf[s]] = s
        BY SocksAssumption DEF SInv, Watched, TypeOK
      <4> QED BY <1>7, <3>3, <4>1, <4>2 DEF Skip
    <3> QED BY <3>2, <3>3
  <2>2. UNCHANGED <<events, sockets, current, list, running>>
    BY <1>7, <2>1 DEF Skip, wakeup, events, sockets
  <2>3. Open' \subseteq Open
    BY <1>a, <2>2, OpenShrinks DEF TaskSocks, events, sockets
  <2> QED BY <1>7, <2>2, <2>3, TailBatch, QuietStep DEF Skip
<1>8. CASE Drain
  <2>1. Open' \subseteq Open
    BY <1>8, <1>a, OpenShrinks DEF Drain, TaskSocks, events, sockets
  <2> QED BY <1>8, <2>1, TailBatch, QuietStep DEF Drain
<1>9. CASE Swap
  <2>1. Range(list') = {} /\ running' = list
    BY <1>9 DEF Swap, Range
  <2>2. Open' \subseteq Open
    BY <1>9, <1>a, <2>1, OpenShrinks DEF Swap, TaskSocks, events, sockets
  <2> QED BY <1>9, <2>2, QuietStep DEF Swap
<1>10. CASE RunTask
  <2> DEFINE t == Head(running)
  <2>1. t \in Tasks
    BY <1>10, HeadTailProperties DEF RunTask, TypeOK
  <2>2. TaskSocks' \subseteq TaskSocks /\ t.sock \in TaskSocks /\ UNCHANGED <<batch, current, held, fdOf>>
    BY <1>10, TailSocks DEF RunTask, wakeup, sockets
  <2>3. CASE UserTask(t) \/ ExitTask(t)
    <3>1. UNCHANGED events
      BY <2>3 DEF UserTask, ExitTask
    <3> QED BY <1>a, <2>2, <3>1, OpenShrinks, QuietStep DEF events, sockets
  <2>4. CASE AddTask(t)
    <3>1. t.sock \in Open
      BY <1>a, <2>1, <2>2, <2>4, TaskFields, SocksAssumption DEF AddTask
    <3>2. \A f \in Fds : eventMap'[f] = eventMap[f] \/ eventMap'[f] = t.sock
      BY <2>4 DEF AddTask, AddNow, TypeOK
    <3>3. Open' \subseteq Open
      BY <1>a, <2>2, <3>1, <3>2, SocksAssumption DEF Open, TaskSocks
    <3> QED BY <2>2, <2>4, <3>1, <3>3, AddStep DEF AddTask, sockets
  <2>5. CASE DelTask(t)
    <3>1. t.sock \in Open
      BY <1>a, <2>1, <2>2, <2>5, TaskFields, SocksAssumption DEF DelTask
    <3>2. \A f \in Fds : eventMap'[f] = eventMap[f] \/ eventMap'[f] = NoSock
      BY <2>5 DEF DelTask, DelNow, TypeOK, events
    <3>3. Open' \subseteq Open
      BY <1>a, <2>2, <3>2, SocksAssumption DEF Open, TaskSocks
    <3> QED BY <2>2, <2>5, <3>1, <3>3, DelStep DEF DelTask
  <2> QED BY <1>10, <2>3, <2>4, <2>5 DEF RunTask
<1>11. CASE TasksRun \/ BatchDone \/ ShutdownWake \/ Join
  <2>1. UNCHANGED <<list, running, current, batch, events, sockets>>
    BY <1>11 DEF TasksRun, BatchDone, ShutdownWake, Join, wakeup
  <2> QED BY <1>a, <2>1, OpenShrinks, QuietStep DEF TaskSocks, events, sockets
<1>12. CASE Return
  <2>1. UNCHANGED <<list, running, batch, events, sockets>> /\ current' = NoSock
    BY <1>12 DEF Return, wakeup
  <2> QED BY <1>a, <2>1, OpenShrinks, QuietStep DEF TaskSocks, events, sockets
<1>13. CASE OpenHere
  <2>1. PICK s \in Socks, f \in FreeFds :
          /\ held[s] = "new"
          /\ held' = [held EXCEPT ![s] = "held"]
          /\ fdOf' = [fdOf EXCEPT ![s] = f]
          /\ epoll' = epoll \cup {s}
          /\ eventMap' = IF eventMap[f] = NoSock THEN [eventMap EXCEPT ![f] = s]
                                                 ELSE eventMap
    BY <1>13 DEF OpenHere
  <2>2. eventMap' = [eventMap EXCEPT ![f] = s]
    BY <2>1, WatchedOpen
  <2>3. UNCHANGED <<list, running, batch, current, expired>>
    BY <1>13 DEF OpenHere, wakeup
  <2>4. Open' \subseteq Open \cup {s}
    BY <1>a, <2>1, <2>2, <2>3, SocksAssumption DEF Open, TaskSocks, TypeOK
  <2> QED BY <2>1, <2>2, <2>3, <2>4, OpenStep
<1>14. CASE CloseHere
  <2>1. PICK s \in Socks : /\ held[s] = "held"
                           /\ \E h \in Gone : held' = [held EXCEPT ![s] = h]
                           /\ DelNow(s)
    BY <1>14 DEF CloseHere, Gone
  <2>2. UNCHANGED <<list, running, batch, current, fdOf>>
    BY <1>14 DEF CloseHere, wakeup
  <2>3. s \in Open
    BY <2>1 DEF Open
  <2>4. \A r \in Socks : IF r = s THEN held'[r] \in Gone ELSE held'[r] = held[r]
    BY <2>1 DEF TypeOK
  <2>5. \A f \in Fds : eventMap'[f] = eventMap[f] \/ eventMap'[f] = NoSock
    BY <2>1 DEF DelNow, TypeOK, events
  <2>6. Open' \subseteq Open
    BY <1>a, <2>2, <2>3, <2>4, <2>5, SocksAssumption DEF Open, TaskSocks, Gone
  <2>7. \A r \in Socks : held[r] # "new" => held'[r] # "new"
    BY <2>4 DEF Gone
  <2> QED BY <2>1, <2>2, <2>3, <2>6, <2>7, DelStep
<1>15. CASE PostHere
  <2>1. posted + 1 \in 1..MaxTasks
    BY <1>15, BoundsAssumption DEF PostHere, TypeOK
  <2>2. TaskSocks' = TaskSocks \cup {NoSock}
    <3>1. User("async", posted + 1) \in Tasks /\ User("async", posted + 1).sock = NoSock
      BY <2>1, TaskTypes DEF User
    <3> QED BY <1>15, <3>1, PushSocks DEF PostHere
  <2> QED BY <1>15, <1>a, <2>2, OpenShrinks, QuietStep DEF PostHere, events, sockets
<1>16. CASE Shutdown
  <2>1. TaskSocks' = TaskSocks \cup {NoSock}
    <3>1. Exit \in Tasks /\ Exit.sock = NoSock
      BY TaskTypes DEF Exit
    <3> QED BY <1>16, <3>1, PushSocks DEF Shutdown
  <2> QED BY <1>16, <1>a, <2>1, OpenShrinks, QuietStep DEF Shutdown, events, sockets
<1>17. CASE UNCHANGED vars
  BY <1>17, <1>a, OpenShrinks, QuietStep DEF vars, TaskSocks, events, sockets
<1> QED
  BY <1>1, <1>2, <1>3, <1>4, <1>5, <1>6, <1>7, <1>8, <1>9, <1>10, <1>11, <1>12,
     <1>13, <1>14, <1>15, <1>16, <1>17 DEF Next, Caller, Loop, UserCode, Owner

LEMMA SocketsInv == Spec => [](TypeOK /\ SInv)
<1>1. TypeOK /\ SInv /\ [Next]_vars => (TypeOK /\ SInv)'
  BY NextTypeOK, NextSInv
<1>2. Init => TypeOK /\ SInv
  BY InitTypeOK, InitSInv
<1> QED BY <1>1, <1>2, PTL DEF Spec

\* The kernel watches an open socket exactly when the poller keeps its callback.
THEOREM KernelAgreesHolds == Spec => []KernelAgrees
<1>1. TypeOK /\ SInv => KernelAgrees
  <2> SUFFICES ASSUME TypeOK, SInv, NEW s \in Open
               PROVE  s \in epoll <=> \E f \in Fds : eventMap[f] = s
    BY DEF KernelAgrees
  <2>1. s \in Socks /\ s # NoSock
    BY SocksAssumption DEF Open
  <2>2. s \in epoll => \E f \in Fds : eventMap[f] = s
    BY <2>1 DEF SInv, Watched, TypeOK
  <2>3. ASSUME NEW f \in Fds, eventMap[f] = s
        PROVE  s \in epoll
    BY <2>1, <2>3 DEF SInv, MapOwn
  <2> QED BY <2>2, <2>3
<1> QED BY <1>1, SocketsInv, PTL

\* However many sockets are opened and closed by other threads, tasks and
\* callbacks while a batch of events is handled, and however their numbers are
\* given again, no event reaches the callback of another socket.
THEOREM FreshCallbackHolds == Spec => []FreshCallback
<1>1. TypeOK /\ SInv => FreshCallback
  <2> SUFFICES ASSUME TypeOK, SInv, batch # <<>>, Head(batch) # NoSock
               PROVE  CallbackFor(Head(batch)) \in {NoSock, Head(batch)}
    BY DEF FreshCallback
  <2>1. Head(batch) \in Range(batch) \ {NoSock}
    BY RangeTail DEF TypeOK
  <2> QED BY <2>1 DEF SInv, BatchKnown, Watched, CallbackFor
<1> QED BY <1>1, SocketsInv, PTL

-----------------------------------------------------------------------------
(* The list and what is left of the swapped one, in the order in which they *)
(* are run: a task of async before those posted later, no number twice, and *)
(* no addEvent of a socket behind its delEvent.                             *)

Queued == Range(list) \cup Range(running)
UserOps == {"async", "first"}

Before == {p \in Tasks \X Tasks :
              /\ p[1].op \in UserOps /\ p[2].op \in UserOps => p[1].id # p[2].id
              /\ p[1].op = "async" /\ p[2].op = "async" => p[1].id < p[2].id
              /\ p[1].op = "del" /\ p[2].op = "add" => p[1].sock # p[2].sock}

Ordered == /\ Pairwise(running, Before) /\ Pairwise(list, Before)
           /\ \A t \in Range(running), u \in Range(list) : <<t, u>> \in Before
RunsInTurn == loop \notin {"run", "task"} => running = <<>>
Known == \A t \in Queued : /\ t.op \in UserOps => t.id <= posted
                           /\ t.op = "add" => held[t.sock] # "new"
                           /\ t.op = "del" => held[t.sock] = "released"

QInv == Ordered /\ RunsInTurn /\ Known

\* A released socket that could be found open has its delEvent on the way.
CallsInTurn == current # NoSock => loop = "callback"
JoinedApart == Joined => loop \in {"swap", "run", "task", "dead"}
ReleaseComes == ~Joined => \A s \in Socks :
    held[s] = "released" /\ (s \in epoll \/ OnSock("add", s) \in Queued)
        => OnSock("del", s) \in Queued

RInv == CallsInTurn /\ JoinedApart /\ ReleaseComes

\* Tasks are only ever pushed while the loop keeps what it has taken.
Pushes(t) ==
    /\ Push(t) /\ UNCHANGED <<running, loop>>
    /\ \/ t.op \in UserOps /\ t.id = posted + 1 /\ posted' = posted + 1 /\ held' = held
       \/ /\ t.op = "add" /\ held[t.sock] = "new" /\ posted' = posted
          /\ held' = [held EXCEPT ![t.sock] = "held"]
       \/ /\ t.op = "del" /\ held[t.sock] = "held" /\ posted' = posted
          /\ held' = [held EXCEPT ![t.sock] = "released"]
       \/ t.op = "exit" /\ posted' = posted /\ held' = held

\* The steps that push.
Pusher == \/ \E c \in Callers : Async(c) \/ AddEvent(c) \/ DelEvent(c)
          \/ PostHere \/ Shutdown

LEMMA PusherPushes ==
    ASSUME TypeOK, Pusher
    PROVE  /\ \E t \in Tasks : Pushes(t)
           /\ UNCHANGED <<epoll, current, done>>
           /\ Joined' = Joined
<1>1. ASSUME NEW c \in Callers, Async(c) PROVE \E t \in Tasks : Pushes(t)
  <2>1. PICK op \in {"async", "first"} : CallerPush(c, User(op, posted + 1))
    BY <1>1 DEF Async
  <2>2. User(op, posted + 1) \in Tasks
    BY <1>1, TaskTypes, BoundsAssumption DEF Async, TypeOK
  <2>3. User(op, posted + 1).op = op /\ User(op, posted + 1).id = posted + 1
    BY DEF User
  <2> QED BY <1>1, <2>1, <2>2, <2>3 DEF Async, CallerPush, Pushes, UserOps, sockets
<1>2. ASSUME NEW c \in Callers, AddEvent(c) PROVE \E t \in Tasks : Pushes(t)
  <2>1. PICK s \in Socks : /\ held[s] = "new" /\ CallerPush(c, OnSock("add", s))
                           /\ held' = [held EXCEPT ![s] = "held"]
    BY <1>2 DEF AddEvent
  <2>2. OnSock("add", s) \in Tasks
    BY TaskTypes
  <2>3. OnSock("add", s).op = "add" /\ OnSock("add", s).sock = s
    BY DEF OnSock
  <2> QED BY <1>2, <2>1, <2>2, <2>3 DEF AddEvent, CallerPush, Pushes
<1>3. ASSUME NEW c \in Callers, DelEvent(c) PROVE \E t \in Tasks : Pushes(t)
  <2>1. PICK s \in Socks : /\ held[s] = "held" /\ CallerPush(c, OnSock("del", s))
                           /\ held' = [held EXCEPT ![s] = "released"]
    BY <1>3 DEF DelEvent
  <2>2. OnSock("del", s) \in Tasks
    BY TaskTypes
  <2>3. OnSock("del", s).op = "del" /\ OnSock("del", s).sock = s
    BY DEF OnSock
  <2> QED BY <1>3, <2>1, <2>2, <2>3 DEF DelEvent, CallerPush, Pushes
<1>4. ASSUME PostHere PROVE \E t \in Tasks : Pushes(t)
  <2>1. User("async", posted + 1) \in Tasks
    BY <1>4, TaskTypes, BoundsAssumption DEF PostHere, TypeOK
  <2>2. User("async", posted + 1).op = "async" /\ User("async", posted + 1).id = posted + 1
    BY DEF User
  <2> QED BY <1>4, <2>1, <2>2 DEF PostHere, Pushes, UserOps, sockets
<1>5. ASSUME Shutdown PROVE \E t \in Tasks : Pushes(t)
  <2>1. Exit \in Tasks /\ Exit.op = "exit"
    BY TaskTypes DEF Exit
  <2> QED BY <1>5, <2>1 DEF Shutdown, Pushes, sockets
<1>6. UNCHANGED <<epoll, current, done>> /\ Joined' = Joined
  BY DEF Pusher, Async, AddEvent, DelEvent, PostHere, Shutdown, events, Joined
<1> QED BY <1>1, <1>2, <1>3, <1>4, <1>5, <1>6 DEF Pusher

LEMMA QueuedTyped ==
    ASSUME TypeOK
    PROVE  Queued \subseteq Tasks
BY RangeType DEF TypeOK, Queued

LEMMA PushQInv ==
    ASSUME TypeOK, QInv, NEW t \in Tasks, Pushes(t)
    PROVE  QInv' /\ Queued' = Queued \cup {t}
<1>1. list \in Seq(Tasks) /\ posted \in Nat /\ Queued \subseteq Tasks
  BY BoundsAssumption, QueuedTyped DEF TypeOK
<1>2. /\ \A x \in Tasks : x.op \in UserOps => x.id \in Nat
      /\ t.op \in {"add", "del"} => t.sock \in Socks
  BY TaskFields DEF UserOps
<1>3. Range(list') = Range(list) \cup {t} /\ running' = running
  BY <1>1, PushType DEF Pushes
<1>4. Queued' = Queued \cup {t}
  BY <1>3 DEF Queued
<1>5. \A x \in Queued : <<x, t>> \in Before
  <2>1. SUFFICES ASSUME NEW x \in Queued PROVE <<x, t>> \in Before
    OBVIOUS
  <2>2. x \in Tasks
    BY <1>1
  <2>3. t.op \in UserOps /\ x.op \in UserOps => x.id < t.id
    BY <1>1, <1>2, <2>2 DEF QInv, Known, Pushes, UserOps
  <2>4. x.op = "del" /\ t.op = "add" => x.sock # t.sock
    BY DEF QInv, Known, Pushes, UserOps
  <2> QED BY <1>1, <1>2, <2>2, <2>3, <2>4 DEF Before, UserOps
<1>6. t.op \in {"first", "exit"} => \A x \in Queued : <<t, x>> \in Before
  <2>1. SUFFICES ASSUME t.op \in {"first", "exit"}, NEW x \in Queued
                 PROVE  <<t, x>> \in Before
    OBVIOUS
  <2>2. x \in Tasks
    BY <1>1
  <2>3. t.op \in UserOps /\ x.op \in UserOps => x.id # t.id
    BY <1>1, <1>2, <2>2 DEF QInv, Known, Pushes, UserOps
  <2> QED BY <2>1, <2>2, <2>3 DEF Before, UserOps
<1>7. Pairwise(list', Before)
  <2>1. CASE t.op \in {"first", "exit"}
    <3>1. \A x \in Range(list) : <<t, x>> \in Before
      BY <1>6, <2>1 DEF Queued
    <3>2. Pairwise(<<t>> \o list, Before)
      BY <1>1, <3>1, PairwisePrepend DEF QInv, Ordered
    <3> QED BY <2>1, <3>2 DEF Pushes, Push
  <2>2. CASE t.op \notin {"first", "exit"}
    <3>1. \A x \in Range(list) : <<x, t>> \in Before
      BY <1>5 DEF Queued
    <3>2. Pairwise(Append(list, t), Before)
      BY <1>1, <3>1, PairwiseAppend DEF QInv, Ordered
    <3> QED BY <2>2, <3>2 DEF Pushes, Push
  <2> QED BY <2>1, <2>2
<1>8. Ordered'
  BY <1>3, <1>5, <1>7 DEF QInv, Ordered, Queued
<1>9. RunsInTurn'
  BY DEF QInv, RunsInTurn, Pushes
<1>10. Known'
  <2>1. SUFFICES ASSUME NEW x \in Queued \cup {t}
                 PROVE  /\ x.op \in UserOps => x.id <= posted'
                        /\ x.op = "add" => held'[x.sock] # "new"
                        /\ x.op = "del" => held'[x.sock] = "released"
    BY <1>4 DEF Known
  <2>2. posted' \in {posted, posted + 1}
    BY DEF Pushes
  <2>3. x \in Tasks /\ (x.op \in {"add", "del"} => x.sock \in Socks)
    BY <1>1, TaskFields
  <2>4. CASE x = t
    BY <1>1, <1>2, <2>4 DEF Pushes, TypeOK, UserOps
  <2>5. CASE x \in Queued
    <3>1. x.op \in UserOps => x.id <= posted'
      BY <1>1, <1>2, <2>2, <2>3, <2>5 DEF QInv, Known
    <3>2. \/ held' = held
          \/ t.sock \in Socks /\ held[t.sock] # "released"
             /\ \E h \in {"held", "released"} : held' = [held EXCEPT ![t.sock] = h]
      BY <1>2 DEF Pushes
    <3> QED BY <2>3, <2>5, <3>1, <3>2 DEF QInv, Known, TypeOK
  <2> QED BY <2>4, <2>5
<1> QED BY <1>4, <1>8, <1>9, <1>10 DEF QInv

\* The task that is run, and what is left.
LEMMA TakeQInv ==
    ASSUME TypeOK, QInv, RunTask
    PROVE  /\ QInv'
           /\ \E t \in Tasks :
                 /\ t = Head(running)
                 /\ Queued = Queued' \cup {t}
                 /\ \A u \in Queued' : <<t, u>> \in Before
<1>1. /\ running \in Seq(Tasks) /\ running # <<>> /\ running' = Tail(running)
      /\ UNCHANGED <<list, posted, held>>
  BY DEF RunTask, TypeOK, wakeup, sockets
<1>2. PICK t : t = Head(running)
  OBVIOUS
<1>3. t \in Tasks /\ t \in Range(running) /\ Range(running) = Range(running') \cup {t}
  BY <1>1, <1>2, RangeTail, HeadTailProperties
<1>4. Pairwise(running', Before) /\ \A u \in Range(running') : <<t, u>> \in Before
  BY <1>1, <1>2, PairwiseTail DEF QInv, Ordered
<1>5. Queued = Queued' \cup {t}
  BY <1>1, <1>3 DEF Queued
<1>6. \A u \in Queued' : <<t, u>> \in Before
  BY <1>1, <1>3, <1>4 DEF Queued, QInv, Ordered
<1>7. Ordered'
  BY <1>1, <1>3, <1>4 DEF QInv, Ordered
<1>8. RunsInTurn'
  BY DEF RunTask, UserTask, AddTask, DelTask, ExitTask, RunsInTurn
<1>9. Known'
  BY <1>1, <1>5 DEF QInv, Known
<1> QED BY <1>2, <1>3, <1>5, <1>6, <1>7, <1>8, <1>9 DEF QInv

LEMMA SwapQInv ==
    ASSUME TypeOK, QInv, Swap
    PROVE  QInv' /\ Queued' = Queued
<1>1. /\ running = <<>> /\ running' = list /\ list' = <<>> /\ loop' = "run"
      /\ UNCHANGED <<posted, held>>
  BY DEF Swap, QInv, RunsInTurn, sockets
<1>2. Range(running) = {} /\ Range(list') = {} /\ Range(running') = Range(list)
  BY <1>1, RangeEmpty
<1>3. Queued' = Queued
  BY <1>2 DEF Queued
<1>4. Ordered'
  BY <1>1, <1>2, PairwiseEmpty DEF QInv, Ordered
<1> QED BY <1>1, <1>3, <1>4 DEF QInv, RunsInTurn, Known

\* Every other step leaves the tasks alone.
Aside == \/ \E c \in Callers : Wake(c)
         \/ Wait \/ Callback \/ Skip \/ Drain \/ TasksRun \/ BatchDone
         \/ OpenHere \/ CloseHere \/ Return \/ ShutdownWake \/ Join
         \/ UNCHANGED vars

LEMMA AsideQInv ==
    ASSUME TypeOK, QInv, Aside
    PROVE  QInv' /\ UNCHANGED <<list, running, posted, done>> /\ Queued' = Queued
<1>1. UNCHANGED <<list, running, posted, done>>
  BY DEF Aside, Wake, Wait, Callback, Skip, Drain, TasksRun, BatchDone, OpenHere,
         CloseHere, Return, ShutdownWake, Join, vars, wakeup
<1>2. Queued' = Queued
  BY <1>1 DEF Queued
<1>3. Ordered'
  BY <1>1 DEF QInv, Ordered
<1>4. loop' = loop \/ loop \notin {"run", "task"} \/ running = <<>> \/ loop' = "run"
  BY DEF Aside, Wake, Wait, Callback, Skip, Drain, TasksRun, BatchDone, OpenHere,
         CloseHere, Return, InUserCode, ShutdownWake, Join, vars
<1>5. RunsInTurn'
  BY <1>1, <1>4 DEF QInv, RunsInTurn
<1>6. \/ held' = held
      \/ \E s \in Socks : held[s] = "new" /\ held' = [held EXCEPT ![s] = "held"]
      \/ \E s \in Socks, h \in Gone : held[s] = "held" /\ held' = [held EXCEPT ![s] = h]
  BY DEF Gone, Aside, Wake, Wait, Callback, Skip, Drain, TasksRun, BatchDone, OpenHere,
         CloseHere, Return, ShutdownWake, Join, vars, sockets
<1>7. \A s \in Socks : /\ held[s] # "new" => held'[s] # "new"
                       /\ held[s] = "released" => held'[s] = "released"
  BY <1>6 DEF TypeOK, Gone
<1>8. \A t \in Queued : t.op \in {"add", "del"} => t.sock \in Socks
  BY TaskFields, QueuedTyped
<1>9. Known'
  BY <1>1, <1>2, <1>7, <1>8 DEF QInv, Known
<1> QED BY <1>1, <1>2, <1>3, <1>5, <1>9 DEF QInv

LEMMA StepKinds == [Next]_vars => Pusher \/ RunTask \/ Swap \/ Aside
BY DEF Next, Caller, Loop, UserCode, Owner, Pusher, Aside

LEMMA InitQInv == Init => QInv
<1> SUFFICES ASSUME Init PROVE QInv
  OBVIOUS
<1>1. list = <<>> /\ running = <<>>
  BY DEF Init
<1>2. Range(list) = {} /\ Range(running) = {}
  BY <1>1, RangeEmpty
<1> QED BY <1>1, <1>2, PairwiseEmpty DEF QInv, Ordered, RunsInTurn, Known, Queued

LEMMA NextQInv == TypeOK /\ QInv /\ [Next]_vars => QInv'
BY StepKinds, PusherPushes, PushQInv, TakeQInv, SwapQInv, AsideQInv

LEMMA QueueInv == Spec => [](TypeOK /\ QInv)
<1>1. TypeOK /\ QInv /\ [Next]_vars => (TypeOK /\ QInv)'
  BY NextTypeOK, NextQInv
<1>2. Init => TypeOK /\ QInv
  BY InitTypeOK, InitQInv
<1> QED BY <1>1, <1>2, PTL DEF Spec

-----------------------------------------------------------------------------
(* The poller implements AsyncExecutor.                                     *)

LEMMA IdsOf ==
    ASSUME NEW op
    PROVE  Ids(op) = {t.id : t \in {u \in Queued : u.op = op}}
BY DEF Ids, Queued

LEMMA ExecutorStep ==
    ASSUME TypeOK, QInv, [Next]_vars
    PROVE  [Executor!Next]_(Executor!vars)
<1>0. Queued \subseteq Tasks /\ posted \in Nat
  BY QueuedTyped, BoundsAssumption DEF TypeOK
<1>1. CASE Pusher
  <2>1. PICK t \in Tasks : Pushes(t) /\ done' = done
    BY <1>1, PusherPushes
  <2>2. Queued' = Queued \cup {t}
    BY <2>1, PushQInv
  <2>3. Ids("async")' = {x.id : x \in {u \in Queued' : u.op = "async"}}
    BY DEF Ids, Queued
  <2>4. Ids("first")' = {x.id : x \in {u \in Queued' : u.op = "first"}}
    BY DEF Ids, Queued
  <2>5. CASE t.op = "async"
    <3>1. /\ posted' = posted + 1 /\ Ids("first")' = Ids("first")
          /\ Ids("async")' = Ids("async") \cup {posted + 1}
      BY <2>1, <2>2, <2>3, <2>4, <2>5, IdsOf DEF Pushes, UserOps
    <3> QED BY <2>1, <3>1 DEF Executor!Next, Executor!Async
  <2>6. CASE t.op = "first"
    <3>1. /\ posted' = posted + 1 /\ Ids("async")' = Ids("async")
          /\ Ids("first")' = Ids("first") \cup {posted + 1}
      BY <2>1, <2>2, <2>3, <2>4, <2>6, IdsOf DEF Pushes, UserOps
    <3> QED BY <2>1, <3>1 DEF Executor!Next, Executor!AsyncFirst
  <2>7. CASE t.op \notin UserOps
    <3>1. /\ posted' = posted /\ Ids("async")' = Ids("async")
          /\ Ids("first")' = Ids("first")
      BY <2>1, <2>2, <2>3, <2>4, <2>7, IdsOf DEF Pushes, UserOps
    <3> QED BY <2>1, <3>1 DEF Executor!vars
  <2> QED BY <2>5, <2>6, <2>7 DEF UserOps
<1>2. CASE RunTask
  <2>1. PICK t \in Tasks : /\ t = Head(running) /\ Queued = Queued' \cup {t}
                           /\ \A u \in Queued' : <<t, u>> \in Before
    BY <1>2, TakeQInv
  <2>2. /\ \A u \in Queued' : t.op \in UserOps /\ u.op \in UserOps => t.id # u.id
        /\ \A u \in Queued' : t.op = "async" /\ u.op = "async" => t.id < u.id
    BY <2>1 DEF Before
  <2>3. Ids("async")' = {x.id : x \in {u \in Queued' : u.op = "async"}}
    BY DEF Ids, Queued
  <2>4. Ids("first")' = {x.id : x \in {u \in Queued' : u.op = "first"}}
    BY DEF Ids, Queued
  <2>5. posted' = posted
    BY <1>2 DEF RunTask
  <2>6. /\ t.op \in UserOps => done' = done \cup {t.id}
        /\ t.op \notin UserOps => done' = done
    BY <1>2, <2>1 DEF RunTask, UserTask, AddTask, DelTask, ExitTask, UserOps
  <2>7. CASE t.op = "async"
    <3>1. /\ t.id \in Ids("async") /\ Ids("async")' = Ids("async") \ {t.id}
          /\ Ids("first")' = Ids("first")
      BY <2>1, <2>2, <2>3, <2>4, <2>7, IdsOf DEF UserOps
    <3>2. \A n \in Ids("async") : t.id <= n
      <4>1. SUFFICES ASSUME NEW u \in Queued, u.op = "async" PROVE t.id <= u.id
        BY IdsOf
      <4>2. u \in Tasks /\ u.id \in Nat /\ t.id \in Nat
        BY <1>0, <2>7, <4>1, TaskFields
      <4> QED BY <2>1, <2>2, <2>7, <4>1, <4>2
    <3> QED BY <2>5, <2>6, <2>7, <3>1, <3>2
            DEF Executor!Next, Executor!RunNext, UserOps
  <2>8. CASE t.op = "first"
    <3>1. /\ t.id \in Ids("first") /\ Ids("first")' = Ids("first") \ {t.id}
          /\ Ids("async")' = Ids("async")
      BY <2>1, <2>2, <2>3, <2>4, <2>8, IdsOf DEF UserOps
    <3> QED BY <2>5, <2>6, <2>8, <3>1 DEF Executor!Next, Executor!RunUrgent, UserOps
  <2>9. CASE t.op \notin UserOps
    <3>1. Ids("async")' = Ids("async") /\ Ids("first")' = Ids("first")
      BY <2>1, <2>3, <2>4, <2>9, IdsOf DEF UserOps
    <3> QED BY <2>5, <2>6, <2>9, <3>1 DEF Executor!vars
  <2> QED BY <2>7, <2>8, <2>9 DEF UserOps
<1>3. CASE Swap \/ Aside
  <2>1. Queued' = Queued /\ UNCHANGED <<posted, done>>
    BY <1>3, SwapQInv, AsideQInv DEF Swap
  <2>2. Ids("async")' = Ids("async") /\ Ids("first")' = Ids("first")
    BY <2>1 DEF Ids, Queued
  <2> QED BY <2>1, <2>2 DEF Executor!vars
<1> QED BY <1>1, <1>2, <1>3, StepKinds

LEMMA ExecutorInit == Init => Executor!Init
<1> SUFFICES ASSUME Init PROVE Executor!Init
  OBVIOUS
<1>1. list = <<>> /\ running = <<>> /\ posted = 0 /\ done = {}
  BY DEF Init
<1>2. Range(list) = {} /\ Range(running) = {}
  BY <1>1, RangeEmpty
<1> QED BY <1>1, <1>2 DEF Executor!Init, Ids

\* The list of the poller keeps the promise of async and async_first: each task
\* is run once and those of async in order, whoever posts while the list is
\* taken, run, or left to the destructor.
THEOREM ImplementsExecutorHolds == Spec => ImplementsExecutor
<1>1. TypeOK /\ QInv /\ [Next]_vars => [Executor!Next]_(Executor!vars)
  BY ExecutorStep
<1> QED BY <1>1, QueueInv, ExecutorInit, PTL DEF Spec, ImplementsExecutor, Executor!Spec

-----------------------------------------------------------------------------
(* A released socket is closed, unless the poller's thread closed it before  *)
(* the addEvent that was queued for it.                                     *)

LEMMA InitRInv == Init => RInv
<1> SUFFICES ASSUME Init PROVE RInv
  OBVIOUS
<1>1. current = NoSock /\ owner = "alive" /\ \A s \in Socks : held[s] # "released"
  BY DEF Init
<1> QED BY <1>1 DEF RInv, CallsInTurn, JoinedApart, ReleaseComes, Joined

\* ReleaseComes for a step that releases no socket, watches no released one and
\* takes no task.
LEMMA ReleaseFrame ==
    ASSUME ReleaseComes, Joined' = Joined, epoll' \subseteq epoll, held' = held,
           Queued' = Queued
    PROVE  ReleaseComes'
BY DEF ReleaseComes

LEMMA NextRInv ==
    TypeOK /\ SInv /\ QInv /\ RInv /\ [Next]_vars => RInv'
<1> SUFFICES ASSUME TypeOK, SInv, QInv, RInv, [Next]_vars PROVE RInv'
  OBVIOUS
<1>0. CallsInTurn /\ JoinedApart /\ ReleaseComes
  BY DEF RInv
<1>1. CASE Pusher
  <2>1. PICK t \in Tasks : Pushes(t)
    BY <1>1, PusherPushes
  <2>2. Queued' = Queued \cup {t} /\ UNCHANGED <<epoll, current, loop>>
    BY <1>1, <2>1, PusherPushes, PushQInv DEF Pushes
  <2>3. Joined' = Joined
    BY <1>1, PusherPushes
  <2>4. CallsInTurn' /\ JoinedApart'
    BY <1>0, <2>2, <2>3 DEF CallsInTurn, JoinedApart
  <2>5. ASSUME ~Joined', NEW s \in Socks, held'[s] = "released",
               s \in epoll' \/ OnSock("add", s) \in Queued'
        PROVE  OnSock("del", s) \in Queued'
    <3>1. OnSock("add", s).op = "add" /\ OnSock("add", s).sock = s
      BY DEF OnSock
    <3>2. CASE t.op \in UserOps \cup {"exit"}
      <4>1. held' = held /\ t # OnSock("add", s)
        BY <2>1, <3>1, <3>2 DEF Pushes, UserOps
      <4> QED BY <1>0, <2>2, <2>3, <2>5, <4>1 DEF ReleaseComes
    <3>3. CASE t.op = "add"
      <4>1. t.sock \in Socks /\ held' = [held EXCEPT ![t.sock] = "held"]
        BY <2>1, <3>3, TaskFields DEF Pushes, UserOps
      <4>2. s # t.sock /\ held[s] = "released"
        BY <2>5, <4>1 DEF TypeOK
      <4>3. t # OnSock("add", s)
        BY <3>1, <4>2
      <4> QED BY <1>0, <2>2, <2>3, <2>5, <4>2, <4>3 DEF ReleaseComes
    <3>4. CASE t.op = "del"
      <4>1. t.sock \in Socks /\ held' = [held EXCEPT ![t.sock] = "released"]
        BY <2>1, <3>4, TaskFields DEF Pushes, UserOps
      <4>2. CASE s = t.sock
        <5>1. t = OnSock("del", s)
          BY <3>4, <4>2 DEF Tasks, User, OnSock, Exit
        <5> QED BY <2>2, <5>1
      <4>3. CASE s # t.sock
        <5>1. held[s] = "released" /\ t # OnSock("add", s)
          BY <2>5, <3>1, <4>1, <4>3 DEF TypeOK
        <5> QED BY <1>0, <2>2, <2>3, <2>5, <5>1 DEF ReleaseComes
      <4> QED BY <4>2, <4>3
    <3> QED BY <2>1, <3>2, <3>3, <3>4 DEF Pushes
  <2> QED BY <2>4, <2>5 DEF RInv, ReleaseComes
<1>2. CASE RunTask
  <2>1. PICK t \in Tasks : /\ t = Head(running) /\ Queued = Queued' \cup {t}
                           /\ \A u \in Queued' : <<t, u>> \in Before
    BY <1>2, TakeQInv
  <2>2. /\ UNCHANGED <<current, held, owner>> /\ loop = "run" /\ loop' \in {"run", "task"}
    BY <1>2 DEF RunTask, UserTask, AddTask, DelTask, ExitTask, sockets
  <2>3. CallsInTurn' /\ JoinedApart'
    BY <1>0, <2>2 DEF CallsInTurn, JoinedApart, Joined
  <2>4. ASSUME ~Joined, NEW s \in Socks, held[s] = "released",
               s \in epoll' \/ OnSock("add", s) \in Queued'
        PROVE  OnSock("del", s) \in Queued'
    <3>1. /\ OnSock("add", s).op = "add" /\ OnSock("add", s).sock = s
          /\ OnSock("del", s).op = "del" /\ OnSock("del", s).sock = s
      BY DEF OnSock
    <3>2. CASE UserTask(t) \/ ExitTask(t)
      <4>1. epoll' = epoll /\ t.op # "del"
        BY <3>2 DEF UserTask, ExitTask, events
      <4> QED BY <1>0, <2>1, <2>4, <3>1, <4>1 DEF ReleaseComes
    <3>3. CASE AddTask(t)
      <4>1. epoll' \subseteq epoll \cup {t.sock} /\ t.op = "add"
        BY <3>3 DEF AddTask, AddNow
      <4>2. t.sock = s => t = OnSock("add", s)
        BY <4>1 DEF Tasks, User, OnSock, Exit
      <4>3. s \in epoll \/ OnSock("add", s) \in Queued
        BY <2>1, <2>4, <4>1, <4>2
      <4>4. t # OnSock("del", s)
        BY <3>1, <4>1
      <4> QED BY <1>0, <2>1, <2>4, <4>3, <4>4 DEF ReleaseComes
    <3>4. CASE DelTask(t)
      <4>1. t.op = "del" /\ epoll' = epoll \ {t.sock}
        BY <2>4, <3>4 DEF DelTask, DelNow, events
      <4>2. t.sock # s
        <5>1. SUFFICES ASSUME t.sock = s PROVE FALSE
          OBVIOUS
        <5>2. OnSock("add", s) \in Queued'
          BY <2>4, <4>1, <5>1
        <5> QED BY <2>1, <3>1, <4>1, <5>1, <5>2 DEF Before
      <4>3. t # OnSock("del", s)
        BY <3>1, <4>2
      <4> QED BY <1>0, <2>1, <2>4, <4>1, <4>3 DEF ReleaseComes
    <3> QED BY <1>2, <2>1, <3>2, <3>3, <3>4 DEF RunTask
  <2> QED BY <2>2, <2>3, <2>4 DEF RInv, ReleaseComes, Joined
<1>3. CASE Swap
  <2>1. Queued' = Queued /\ UNCHANGED <<epoll, held, owner, current>>
    BY <1>3, SwapQInv DEF Swap, events, sockets
  <2>2. loop = "swap" /\ loop' = "run"
    BY <1>3 DEF Swap
  <2>3. CallsInTurn' /\ JoinedApart'
    BY <1>0, <2>1, <2>2 DEF CallsInTurn, JoinedApart, Joined
  <2> QED BY <1>0, <2>1, <2>3, ReleaseFrame DEF RInv, Joined
<1>4. CASE OpenHere
  <2>1. PICK s \in Socks : /\ held[s] = "new" /\ held' = [held EXCEPT ![s] = "held"]
                           /\ epoll' = epoll \cup {s}
    BY <1>4 DEF OpenHere
  <2>2. Queued' = Queued /\ UNCHANGED <<current, loop, owner>>
    BY <1>4, AsideQInv DEF Aside, OpenHere
  <2>3. CallsInTurn' /\ JoinedApart'
    BY <1>0, <2>2 DEF CallsInTurn, JoinedApart, Joined
  <2>4. \A r \in Socks : held'[r] = "released" => r # s /\ held[r] = "released"
    BY <2>1 DEF TypeOK
  <2> QED BY <1>0, <2>1, <2>2, <2>3, <2>4 DEF RInv, ReleaseComes, Joined
<1>5. CASE CloseHere
  <2>1. PICK s \in Socks :
          /\ DelNow(s)
          /\ held' = [held EXCEPT ![s] = IF AddQueued(s) THEN "overtaken" ELSE "released"]
    BY <1>5 DEF CloseHere
  <2>2. Queued' = Queued /\ UNCHANGED <<current, loop, owner>> /\ owner = "alive"
    BY <1>5, AsideQInv DEF Aside, CloseHere
  <2>3. CallsInTurn' /\ JoinedApart'
    BY <1>0, <2>2 DEF CallsInTurn, JoinedApart, Joined
  <2>4. epoll' = epoll \ {s}
    BY <2>1, <2>2 DEF DelNow, Joined, events
  <2>5. OnSock("add", s) \in Queued => held'[s] = "overtaken"
    BY <2>1 DEF AddQueued, Queued, TypeOK
  <2>6. \A r \in Socks : held'[r] = "released" => r = s \/ held[r] = "released"
    BY <2>1 DEF TypeOK
  <2> QED BY <1>0, <2>2, <2>3, <2>4, <2>5, <2>6 DEF RInv, ReleaseComes, Joined
<1>6. CASE Aside /\ ~OpenHere /\ ~CloseHere
  <2>1. Queued' = Queued /\ epoll' \subseteq epoll /\ held' = held
    <3>1. held' = held
      BY <1>6 DEF Aside, Wake, Wait, Callback, Skip, Drain, TasksRun, BatchDone,
             Return, ShutdownWake, Join, vars, sockets
    <3>2. epoll' \subseteq epoll
      BY <1>6 DEF Aside, Wake, Wait, Callback, Skip, Drain, TasksRun, BatchDone,
             Return, ShutdownWake, Join, vars, events
    <3> QED BY <1>6, <3>1, <3>2, AsideQInv
  <2>2. CallsInTurn'
    BY <1>0, <1>6 DEF Aside, Wake, Wait, Callback, Skip, Drain, TasksRun, BatchDone,
           Return, ShutdownWake, Join, vars, CallsInTurn
  <2>3. CASE Join
    BY <2>2, <2>3 DEF Join, RInv, JoinedApart, ReleaseComes, Joined
  <2>4. CASE ~Join
    <3>1. Joined' = Joined
      BY <1>6, <2>4 DEF Aside, Wake, Wait, Callback, Skip, Drain, TasksRun, BatchDone,
             Return, ShutdownWake, vars, Joined
    <3>2. JoinedApart'
      BY <1>0, <1>6, <2>4, <3>1 DEF Aside, Wake, Wait, Callback, Skip, Drain, TasksRun,
             BatchDone, Return, InUserCode, ShutdownWake, vars, JoinedApart
    <3> QED BY <1>0, <2>1, <2>2, <3>1, <3>2, ReleaseFrame DEF RInv
  <2> QED BY <2>3, <2>4
<1> QED BY <1>1, <1>2, <1>3, <1>4, <1>5, <1>6, StepKinds

\* A socket whose SockFD was destroyed is closed once the poller is idle, unless
\* delEvent on the poller's thread overtook its queued addEvent: else delEvent takes
\* effect behind addEvent, is never lost, and drops the kernel's registration and
\* the callback together.
THEOREM OnlyOvertakenStayHolds == Spec => []OnlyOvertakenStay
<1> DEFINE I == TypeOK /\ SInv /\ QInv /\ RInv
<1>1. Init => I
  BY InitTypeOK, InitSInv, InitQInv, InitRInv
<1>2. I /\ [Next]_vars => I'
  BY NextTypeOK, NextSInv, NextQInv, NextRInv
<1>3. I => OnlyOvertakenStay
  <2> SUFFICES ASSUME TypeOK, SInv, QInv, RInv, loop = "wait", list = <<>>,
                      NEW s \in Open
               PROVE  held[s] \in {"held", "overtaken"}
    BY DEF OnlyOvertakenStay
  <2>1. running = <<>> /\ current = NoSock /\ ~Joined
    BY DEF QInv, RunsInTurn, RInv, CallsInTurn, JoinedApart
  <2>2. Range(list) = {} /\ Range(running) = {} /\ Queued = {}
    BY <2>1, RangeEmpty DEF Queued
  <2>3. s \in Socks /\ s # NoSock /\ held[s] # "new"
    BY SocksAssumption DEF SInv, Opened, Open
  <2>4. s \in epoll => held[s] # "released"
    BY <2>1, <2>2, <2>3 DEF RInv, ReleaseComes
  <2>5. held[s] = "held" \/ \E f \in Fds : eventMap[f] = s
    BY <2>1, <2>2, <2>3 DEF Open
  <2>6. held[s] = "held" \/ s \in epoll
    BY <2>3, <2>5 DEF SInv, MapOwn
  <2> QED BY <2>3, <2>4, <2>6 DEF TypeOK
<1> HIDE DEF I
<1> QED BY <1>1, <1>2, <1>3, PTL DEF Spec
=============================================================================
