----------------------------- MODULE SocketSend -----------------------------
(***************************************************************************)
(* Sending on a TCP Socket of zltoolkit, from its poller's thread and from *)
(* others.  Data waits in two buffers, waiting and sending; a thread that  *)
(* flushes takes the contents of one of them into a list of its own,       *)
(* writes what the kernel takes and puts the rest back into sending.       *)
(* send holds _mtx_sock_fd while it flushes, the poller's write event does *)
(* not.  The unit of data is what the kernel takes at once; lists that are *)
(* sent one after the other are written in one step.                       *)
(***************************************************************************)
EXTENDS Naturals, Sequences, FiniteSets, Functions

CONSTANTS Callers,   \* threads other than the poller's
          Poller,    \* the poller's thread
          Capacity,  \* of the kernel's send buffer
          MaxSends   \* bound: units sent

Threads == Callers \cup {Poller}

VARIABLES waiting,   \* _send_buf_waiting
          sending,   \* _send_buf_sending
          tmp,       \* send_buf_sending_tmp of each thread
          pc,        \* where each thread is
          byEvent,   \* the poller flushes for a write event, not for a send
          sendable,  \* _sendable
          interest,  \* epoll watches for room
          edge,      \* epoll has a write event to report
          tasks,     \* what other threads left to the poller
          wire,      \* what the kernel took
          read,      \* how much of it the peer read
          nospace,   \* the kernel refused data since it last reported room
          broken,    \* the peer reset the connection
          err,       \* _err_emit
          closed,    \* the events were removed
          exclusive, \* the kernel knows EPOLLEXCLUSIVE
          posted,    \* units sent, which numbers them
          foreign    \* a thread other than the poller's has sent

buffers == <<waiting, sending, tmp>>
epoll == <<interest, edge, nospace>>
kernel == <<wire, read, broken>>
fate == <<err, closed, exclusive>>
history == <<posted, foreign>>
vars == <<buffers, pc, byEvent, sendable, epoll, tasks, kernel, fate, history>>

Flushing == {"swap", "refill", "write", "arm", "roll", "emit", "close", "remove"}
Places == Flushing \cup {"idle", "lock", "look", "stop", "done"}

OnEvent(t) == t = Poller /\ byEvent
\* _mtx_sock_fd is free for t.
Unlocked(t) == \A u \in Threads \ {t} : pc[u] \in Flushing => OnEvent(u)
Goto(t, p) == pc' = [pc EXCEPT ![t] = p]
Room == Capacity - (Len(wire) - read)

\* attachEvent has asked for write events, and the first is there at once.
Init == /\ waiting = <<>> /\ sending = <<>> /\ tmp = [t \in Threads |-> <<>>]
        /\ pc = [t \in Threads |-> "idle"] /\ byEvent = FALSE
        /\ sendable = TRUE /\ interest = TRUE /\ edge = TRUE /\ tasks = <<>>
        /\ wire = <<>> /\ read = 0 /\ nospace = FALSE /\ broken = FALSE
        /\ err = FALSE /\ closed = FALSE /\ exclusive \in BOOLEAN
        /\ posted = 0 /\ foreign = FALSE

\* Linux refuses to modify a descriptor that addEvent added with EPOLLEXCLUSIVE;
\* where it does not, modifying it reports the room there is or will be.
Modify(write) == IF exclusive \/ closed THEN UNCHANGED epoll
                 ELSE /\ interest' = write /\ edge' = (write /\ Room > 0)
                      /\ nospace' = (nospace \/ Room = 0)

-----------------------------------------------------------------------------
\* send: some calls with try_flush off may come before the one that flushes.

Push(t) == /\ pc[t] \in {"idle", "lock"} /\ posted < MaxSends
           /\ posted' = posted + 1
           /\ waiting' = Append(waiting, posted + 1)
           /\ foreign' = (foreign \/ t # Poller)
           /\ Goto(t, "lock")
           /\ UNCHANGED <<sending, tmp, byEvent, sendable, epoll, tasks, kernel, fate>>

Flush(t) == /\ pc[t] = "lock" /\ Unlocked(t) /\ sendable
            /\ Goto(t, "swap")
            /\ byEvent' = IF t = Poller THEN FALSE ELSE byEvent
            /\ UNCHANGED <<buffers, sendable, epoll, tasks, kernel, fate, history>>

\* The data stays until the socket is writable, or has stayed for too long.
FlushLater(t) == /\ pc[t] = "lock" /\ Unlocked(t) /\ ~sendable
                 /\ \/ Goto(t, "idle")
                    \/ ~err /\ Goto(t, "emit")
                 /\ byEvent' = IF t = Poller THEN FALSE ELSE byEvent
                 /\ UNCHANGED <<buffers, sendable, epoll, tasks, kernel, fate, history>>

-----------------------------------------------------------------------------
\* flushData, for a send and for a write event.

\* mutant: new data is taken although old data is left
SwapBoth(t) == /\ pc[t] = "swap"
               /\ tmp' = [tmp EXCEPT ![t] = waiting \o sending]
               /\ waiting' = <<>> /\ sending' = <<>>
               /\ Goto(t, IF waiting \o sending = <<>> THEN "refill" ELSE "write")
               /\ UNCHANGED <<byEvent, sendable, epoll, tasks, kernel, fate, history>>

Swap(t) == /\ pc[t] = "swap"
           /\ tmp' = [tmp EXCEPT ![t] = sending] /\ sending' = <<>>
           /\ Goto(t, IF sending = <<>> THEN "refill" ELSE "write")
           /\ UNCHANGED <<waiting, byEvent, sendable, epoll, tasks, kernel, fate, history>>

Refill(t) ==
    /\ pc[t] = "refill"
    /\ tmp' = [tmp EXCEPT ![t] = waiting] /\ waiting' = <<>>
    /\ Goto(t, CASE waiting # <<>> -> "write"
                 [] waiting = <<>> /\ OnEvent(t) -> "done"
                 [] OTHER -> "idle")
    /\ UNCHANGED <<sending, byEvent, sendable, epoll, tasks, kernel, fate, history>>

\* sendmsg until it refuses; a thread that has written all flushes once more
\* when it does so for a write event.
Write(t) ==
    /\ pc[t] = "write" /\ ~broken
    /\ \E n \in 0..Len(tmp[t]) :
          /\ n <= Room /\ (n = Len(tmp[t]) \/ n = Room)
          /\ wire' = wire \o SubSeq(tmp[t], 1, n)
          /\ tmp' = [tmp EXCEPT ![t] = SubSeq(@, n + 1, Len(@))]
          /\ nospace' = (nospace \/ n < Len(tmp[t]))
          /\ IF n = Len(tmp[t]) THEN Goto(t, IF OnEvent(t) THEN "swap" ELSE "idle")
                               ELSE Goto(t, IF OnEvent(t) THEN "roll" ELSE "arm")
    /\ UNCHANGED <<waiting, sending, byEvent, sendable, interest, edge, tasks,
                   read, broken, fate, history>>

\* The kernel reports an error: what was taken out is dropped.
WriteFails(t) == /\ pc[t] = "write" /\ broken
                 /\ tmp' = [tmp EXCEPT ![t] = <<>>]
                 /\ Goto(t, IF err THEN "idle" ELSE "emit")
                 /\ UNCHANGED <<waiting, sending, byEvent, sendable, epoll, tasks,
                                kernel, fate, history>>

\* mutant: the socket is marked and nobody is told
ArmSilent(t) == /\ pc[t] = "arm"
                /\ sendable' = FALSE
                /\ Goto(t, "roll")
                /\ UNCHANGED <<buffers, byEvent, epoll, tasks, kernel, fate, history>>

\* startWriteAbleEvent: another thread leaves the event to the poller.
Arm(t) == /\ pc[t] = "arm"
          /\ sendable' = FALSE
          /\ IF t = Poller THEN Modify(TRUE) /\ UNCHANGED tasks
                           ELSE tasks' = Append(tasks, "arm") /\ UNCHANGED epoll
          /\ Goto(t, "roll")
          /\ UNCHANGED <<buffers, byEvent, kernel, fate, history>>

\* mutant: what another thread put back meanwhile is overwritten
RollOver(t) == /\ pc[t] = "roll"
               /\ sending' = tmp[t]
               /\ tmp' = [tmp EXCEPT ![t] = <<>>]
               /\ Goto(t, "idle")
               /\ UNCHANGED <<waiting, byEvent, sendable, epoll, tasks, kernel, fate, history>>

Roll(t) == /\ pc[t] = "roll"
           /\ sending' = tmp[t] \o sending
           /\ tmp' = [tmp EXCEPT ![t] = <<>>]
           /\ Goto(t, "idle")
           /\ UNCHANGED <<waiting, byEvent, sendable, epoll, tasks, kernel, fate, history>>

\* emitErr has found _err_emit unset.  On the poller its task runs at once.
Emit(t) == /\ pc[t] = "emit"
           /\ err' = TRUE
           /\ IF t = Poller THEN Goto(t, "close") /\ UNCHANGED tasks
                            ELSE Goto(t, "idle") /\ tasks' = Append(tasks, "err")
           /\ UNCHANGED <<buffers, byEvent, sendable, epoll, kernel, closed, exclusive,
                          history>>

-----------------------------------------------------------------------------
\* The poller's loop.

WriteEvent == /\ pc[Poller] = "idle" /\ interest /\ edge /\ ~closed
              /\ edge' = FALSE /\ byEvent' = TRUE
              /\ Goto(Poller, IF waiting = <<>> THEN "look" ELSE "swap")
              /\ UNCHANGED <<buffers, sendable, interest, nospace, tasks, kernel, fate,
                              history>>

Look == /\ pc[Poller] = "look"
        /\ Goto(Poller, IF sending = <<>> THEN "stop" ELSE "swap")
        /\ UNCHANGED <<buffers, byEvent, sendable, epoll, tasks, kernel, fate, history>>

\* stopWriteAbleEvent; from flushData onFlushed is called then.
Stop == /\ pc[Poller] \in {"stop", "done"}
        /\ sendable' = TRUE
        /\ Modify(FALSE)
        /\ Goto(Poller, "idle")
        /\ UNCHANGED <<buffers, byEvent, tasks, kernel, fate, history>>

RunTask == /\ pc[Poller] = "idle" /\ tasks # <<>>
           /\ tasks' = Tail(tasks)
           /\ IF Head(tasks) = "arm" THEN Modify(TRUE) /\ UNCHANGED pc
                                     ELSE Goto(Poller, "close") /\ UNCHANGED epoll
           /\ byEvent' = TRUE
           /\ UNCHANGED <<buffers, sendable, kernel, fate, history>>

\* epoll reports the reset.
ErrorEvent == /\ pc[Poller] = "idle" /\ broken /\ ~err /\ ~closed
              /\ byEvent' = TRUE
              /\ Goto(Poller, "emit")
              /\ UNCHANGED <<buffers, sendable, epoll, tasks, kernel, fate, history>>

\* closeSock(false) behind on_err; removing the events needs _mtx_sock_fd.
Close == /\ pc[Poller] = "close"
         /\ sendable' = TRUE /\ waiting' = <<>> /\ sending' = <<>>
         /\ Goto(Poller, "remove")
         /\ UNCHANGED <<tmp, byEvent, epoll, tasks, kernel, fate, history>>

DelEvent == /\ pc[Poller] = "remove" /\ Unlocked(Poller)
            /\ closed' = TRUE /\ interest' = FALSE /\ edge' = FALSE
            /\ Goto(Poller, "idle")
            /\ UNCHANGED <<buffers, byEvent, sendable, nospace, tasks, kernel, err,
                           exclusive, history>>

-----------------------------------------------------------------------------
\* The peer and its kernel.

PeerReads == /\ read < Len(wire) /\ ~broken
             /\ read' = read + 1
             /\ nospace' = FALSE
             /\ edge' = (edge \/ (nospace /\ interest))
             /\ UNCHANGED <<buffers, pc, byEvent, sendable, interest, tasks, wire,
                            broken, fate, history>>

PeerResets == /\ ~broken /\ broken' = TRUE
              /\ UNCHANGED <<buffers, pc, byEvent, sendable, epoll, tasks, wire, read,
                             fate, history>>

Sender(t) == \/ Flush(t) \/ FlushLater(t) \/ Swap(t) \/ Refill(t) \/ Write(t)
             \/ WriteFails(t) \/ Arm(t) \/ Roll(t) \/ Emit(t)
Loop == WriteEvent \/ Look \/ Stop \/ RunTask \/ ErrorEvent \/ Close \/ DelEvent

Next == \/ \E t \in Threads : Push(t) \/ Sender(t)
        \/ Loop \/ PeerReads \/ PeerResets

Spec == Init /\ [][Next]_vars

\* Threads go on, the loop serves its events and its tasks, and the peer reads.
FairSpec == /\ Spec
            /\ \A t \in Callers : WF_vars(Sender(t))
            /\ WF_vars(Sender(Poller) \/ Loop)
            /\ WF_vars(PeerReads)

-----------------------------------------------------------------------------
Units == 1..MaxSends
TypeOK == /\ waiting \in Seq(Units) /\ sending \in Seq(Units) /\ wire \in Seq(Units)
          /\ tmp \in [Threads -> Seq(Units)] /\ pc \in [Threads -> Places]
          /\ {byEvent, sendable, interest, edge, nospace, broken, err, closed,
              exclusive, foreign} \subseteq BOOLEAN
          /\ tasks \in Seq({"arm", "err"})
          /\ read \in 0..Len(wire) /\ Len(wire) - read <= Capacity
          /\ posted \in 0..MaxSends

\* Whatever threads flush at the same time, until an error no unit is lost and
\* none is there twice.
Spots(n) ==
    LET In(q) == {i \in DOMAIN q : q[i] = n}
    IN  Cardinality(In(wire)) + Cardinality(In(sending)) + Cardinality(In(waiting))
        + Cardinality(UNION {{t} \X In(tmp[t]) : t \in Threads})
Conserved == ~err /\ ~broken => \A n \in 1..posted : Spots(n) = 1

\* As long as only the poller's thread sends, the data is in its order, on the
\* wire and in what is kept back.
InOrder == ~err /\ ~broken /\ ~foreign =>
    wire \o tmp[Poller] \o sending \o waiting = [i \in 1..posted |-> i]

SendConserves == Conserved /\ InOrder

\* ... and all of it is written if the peer goes on reading, with an event for
\* what the kernel refused.
AllWritten == \A n \in Units :
    n <= posted /\ ~foreign ~> n \in Range(wire) \/ err \/ foreign

\* Where epoll lets its events be modified, a socket that is marked as not
\* writable becomes writable again, whoever sends.
Unwedged == ~sendable ~> sendable \/ err \/ (exclusive /\ foreign)
=============================================================================
