----------------------------- MODULE SocketRead -----------------------------
(***************************************************************************)
(* The receiving side of a Socket of zltoolkit: a descriptor is handed to  *)
(* it, the poller reads until the kernel has no more, enableRecv pauses    *)
(* and resumes, and emitErr ends it.  epoll is edge triggered: what was    *)
(* reported once is not reported again unless more arrives or the events   *)
(* are modified.  The data are the numbers 1, 2, ... in their order.       *)
(***************************************************************************)
EXTENDS Naturals, Sequences, FiniteSets

CONSTANTS ReadPoller,   \* the poller's thread
          ReadCallers,  \* other threads that use the socket
          MaxArrivals, MaxCalls \* bounds: packets, calls of the owner

ReadThreads == ReadCallers \cup {ReadPoller}

VARIABLES sort,     \* tcp or udp
          once,     \* the kernel knows EPOLLEXCLUSIVE: events cannot be modified
          inbox,    \* what the kernel holds: numbers, and the empty datagram 0
          fin,      \* the peer has closed
          arrived,  \* packets that came
          watched,  \* the descriptor is in epoll
          reads,    \* ... with Event_Read
          ready,    \* epoll has a read event to report
          recving,  \* _enable_recv
          held,     \* _sock_fd is set
          emitted,  \* _err_emit
          place, flags, \* of each thread: where it is, and the events it has computed
          jobs,     \* tasks of the poller
          got,      \* what on_read was given
          errs,     \* calls of on_err
          late,     \* packets that on_read was given after on_err
          calls,    \* calls of the owner
          history   \* what the exceptions of the properties are about

epollV == <<watched, reads, ready>>
kernelV == <<inbox, fin, arrived>>
readVars == <<sort, once, kernelV, epollV, recving, held, emitted, place, flags, jobs,
              got, errs, late, calls, history>>

Goto(t, p) == place' = [place EXCEPT ![t] = p]
Note(h) == history' = history \cup h
Readable == inbox # <<>> \/ fin

\* bound: calls of the owner
Called(h) == calls < MaxCalls /\ calls' = calls + 1 /\ Note(h)

Init == /\ sort \in {"tcp", "udp"} /\ once \in BOOLEAN
        /\ inbox = <<>> /\ fin = FALSE /\ arrived = 0
        /\ watched = FALSE /\ reads = FALSE /\ ready = FALSE
        /\ recving = TRUE /\ held = FALSE /\ emitted = FALSE
        /\ place = [t \in ReadThreads |-> "idle"]
        /\ flags = [t \in ReadThreads |-> FALSE]
        /\ jobs = <<>> /\ got = <<>> /\ errs = 0 /\ late = 0 /\ calls = 0 /\ history = {}

-----------------------------------------------------------------------------
\* attachEvent and setSock of fromSock_l: on another thread the poller may watch
\* the descriptor before _sock_fd holds it.

AddEvent == watched' = TRUE /\ reads' = TRUE /\ ready' = Readable

FromSock(t) ==
    /\ "opened" \notin history /\ Note({"opened"}) /\ place[t] = "idle"
    /\ IF t = ReadPoller
       THEN AddEvent /\ held' = TRUE /\ UNCHANGED <<place, jobs>>
       ELSE jobs' = Append(jobs, [do |-> "add", read |-> TRUE]) /\ Goto(t, "set")
            /\ UNCHANGED <<epollV, held>>
    /\ UNCHANGED <<sort, once, kernelV, recving, emitted, flags, got, errs, late, calls>>

SetSock(t) ==
    /\ place[t] = "set" /\ held' = TRUE /\ Goto(t, "idle")
    /\ UNCHANGED <<sort, once, kernelV, epollV, recving, emitted, flags, jobs, got, errs,
                   late, history, calls>>

-----------------------------------------------------------------------------
\* enableRecv, and start- and stopWriteAbleEvent, which ask for the read event too.

\* modifyEvent reports what there is to read when the kernel allows it.
Modify(read) == /\ reads' = IF watched /\ ~once THEN read ELSE reads
                /\ ready' = IF watched /\ ~once THEN read /\ Readable ELSE ready
                /\ UNCHANGED watched

EnableRecv(t, enabled) ==
    /\ place[t] = "idle" /\ held /\ recving # enabled
    /\ recving' = enabled
    /\ IF t = ReadPoller
       THEN Modify(enabled) /\ UNCHANGED place /\ Called(IF enabled THEN {"resumed"} ELSE {})
       ELSE Goto(t, "flags") /\ UNCHANGED epollV
            /\ Called({"shared"} \cup IF enabled THEN {"resumed"} ELSE {})
    /\ UNCHANGED <<sort, once, kernelV, held, emitted, flags, jobs, got, errs, late>>

\* A send of this thread begins to wait for room, or no longer does.
WriteAbleEvent(t) ==
    /\ place[t] = "idle" /\ held
    /\ IF t = ReadPoller THEN Modify(recving) /\ UNCHANGED place /\ Called({})
                         ELSE Goto(t, "flags") /\ UNCHANGED epollV /\ Called({"shared"})
    /\ UNCHANGED <<sort, once, kernelV, recving, held, emitted, flags, jobs, got, errs, late>>

ComputeFlags(t) ==
    /\ place[t] = "flags"
    /\ flags' = [flags EXCEPT ![t] = recving] /\ Goto(t, "modify")
    /\ UNCHANGED <<sort, once, kernelV, epollV, recving, held, emitted, jobs, got, errs,
                   late, history, calls>>

ModifyLater(t) ==
    /\ place[t] = "modify"
    /\ jobs' = Append(jobs, [do |-> "modify", read |-> flags[t]]) /\ Goto(t, "idle")
    /\ UNCHANGED <<sort, once, kernelV, epollV, recving, held, emitted, flags, got, errs,
                   late, history, calls>>

-----------------------------------------------------------------------------
\* emitErr: on the poller on_err is called and the events are removed at once.
\* closeSock(false) sets _enable_recv again, for a read loop that goes on too.

Closed(h) ==
    /\ errs' = errs + 1 /\ recving' = TRUE
    /\ IF held THEN watched' = FALSE /\ reads' = FALSE /\ ready' = FALSE /\ Note(h)
               ELSE UNCHANGED epollV /\ Note(h \cup {"unheld"})

EmitHere == IF emitted THEN UNCHANGED <<emitted, errs, recving, epollV, history>>
            ELSE emitted' = TRUE /\ Closed({})

Emit(t) ==
    /\ t # ReadPoller /\ place[t] = "idle" /\ "opened" \in history /\ ~emitted
    /\ Goto(t, "emit")
    /\ UNCHANGED <<sort, once, kernelV, epollV, recving, held, emitted, flags, jobs, got,
                   errs, late, history, calls>>

\* mutant: the flag is left to the task
EmitSetLater(t) ==
    /\ place[t] = "emit"
    /\ Goto(t, "idle")
    /\ jobs' = Append(jobs, [do |-> "err", read |-> FALSE])
    /\ UNCHANGED <<sort, once, kernelV, epollV, recving, held, emitted, flags, got, errs,
                   late, history, calls>>

\* The flag was tested before: the poller, or another thread, may have set it since.
EmitSet(t) ==
    /\ place[t] = "emit"
    /\ emitted' = TRUE /\ Goto(t, "idle")
    /\ jobs' = Append(jobs, [do |-> "err", read |-> FALSE])
    /\ IF emitted THEN Note({"both"}) ELSE UNCHANGED history
    /\ UNCHANGED <<sort, once, kernelV, epollV, recving, held, flags, got, errs, late, calls>>

-----------------------------------------------------------------------------
\* The poller.

RunTask ==
    /\ place[ReadPoller] = "idle" /\ jobs # <<>> /\ jobs' = Tail(jobs)
    /\ LET job == Head(jobs) IN
       CASE job.do = "add"    -> AddEvent /\ UNCHANGED <<recving, errs, history>>
         [] job.do = "modify" -> Modify(job.read) /\ UNCHANGED <<recving, errs, history>>
         [] job.do = "err"    -> Closed({})
    /\ UNCHANGED <<sort, once, kernelV, held, emitted, place, flags, got, late, calls>>

ReadEvent == /\ place[ReadPoller] = "idle" /\ watched /\ reads /\ ready
             /\ ready' = FALSE /\ Goto(ReadPoller, "read")
             /\ UNCHANGED <<sort, once, kernelV, watched, reads, recving, held, emitted,
                            flags, jobs, got, errs, late, history, calls>>

\* Paused, or nothing left: the loop ends, quietly or with an error.
OnReadEnds ==
    /\ place[ReadPoller] = "read"
    /\ ~recving \/ inbox = <<>>
    /\ Goto(ReadPoller, "idle")
    /\ IF recving /\ fin THEN EmitHere ELSE UNCHANGED <<emitted, errs, recving, epollV, history>>
    /\ UNCHANGED <<sort, once, kernelV, held, flags, jobs, got, late, calls>>

\* An empty datagram ends the loop, whatever is behind it.
OnReadEmpty ==
    /\ place[ReadPoller] = "read" /\ recving /\ inbox # <<>> /\ Head(inbox) = 0
    /\ inbox' = Tail(inbox) /\ Note({"empty"}) /\ Goto(ReadPoller, "idle")
    /\ UNCHANGED <<sort, once, fin, arrived, epollV, recving, held, emitted, flags, jobs,
                   got, errs, late, calls>>

\* mutant: the loop ends behind one packet, as with level triggered events
OnReadOne ==
    /\ place[ReadPoller] = "read" /\ recving /\ inbox # <<>> /\ Head(inbox) # 0
    /\ got' = Append(got, Head(inbox)) /\ inbox' = Tail(inbox)
    /\ late' = late + (IF errs > 0 THEN 1 ELSE 0)
    /\ Goto(ReadPoller, "idle")
    /\ UNCHANGED <<sort, once, fin, arrived, epollV, recving, held, emitted, flags, jobs,
                   errs, history, calls>>

\* on_read is given a packet; it may pause the socket or shut it down.
OnRead ==
    /\ place[ReadPoller] = "read" /\ recving /\ inbox # <<>> /\ Head(inbox) # 0
    /\ got' = Append(got, Head(inbox)) /\ inbox' = Tail(inbox)
    /\ late' = late + (IF errs > 0 THEN 1 ELSE 0)
    /\ \/ UNCHANGED <<emitted, errs, recving, epollV, history>>
       \/ recving' = FALSE /\ Modify(FALSE) /\ UNCHANGED <<emitted, errs, history>>
       \/ ~emitted /\ emitted' = TRUE /\ Closed({"inside"})
    /\ UNCHANGED <<sort, once, fin, arrived, held, place, flags, jobs, calls>>

-----------------------------------------------------------------------------
\* The peer.

Reported == ready' = (ready \/ (watched /\ reads))

Arrive == /\ arrived < MaxArrivals /\ ~fin /\ arrived' = arrived + 1
          /\ \E n \in {arrived + 1} \cup (IF sort = "udp" THEN {0} ELSE {}) : inbox' = Append(inbox, n)
          /\ Reported
          /\ UNCHANGED <<sort, once, fin, watched, reads, recving, held, emitted, place, flags,
                         jobs, got, errs, late, history, calls>>

Finish == /\ sort = "tcp" /\ ~fin /\ fin' = TRUE
          /\ Reported
          /\ UNCHANGED <<sort, once, inbox, arrived, watched, reads, recving, held, emitted,
                         place, flags, jobs, got, errs, late, history, calls>>

Next == \/ \E t \in ReadThreads : \/ FromSock(t) \/ WriteAbleEvent(t)
                                  \/ \E b \in BOOLEAN : EnableRecv(t, b)
        \/ \E t \in ReadCallers : SetSock(t) \/ ComputeFlags(t) \/ ModifyLater(t)
                                  \/ Emit(t) \/ EmitSet(t)
        \/ RunTask \/ ReadEvent \/ OnReadEnds \/ OnReadEmpty \/ OnRead
        \/ Arrive \/ Finish

Spec == Init /\ [][Next]_readVars

-----------------------------------------------------------------------------
Rests == jobs = <<>> /\ \A t \in ReadThreads : place[t] = "idle"

\* Of a socket that is open and not paused, nothing the kernel holds is forgotten:
\* epoll will report it.  Not so behind an empty datagram, behind a change of the
\* events by another thread than the poller's, whose flags may be old, and behind
\* a pause where Linux refuses to modify the events.
NotForgotten ==
    Rests /\ watched /\ recving /\ Readable /\ ~emitted
    => \/ reads /\ ready
       \/ history \cap {"empty", "shared"} # {} \/ (once /\ "resumed" \in history)

\* One error, from whatever thread, is told once and ends the events: twice only when
\* threads passed the test of _err_emit together, and without an end when the
\* error came before the socket knew its descriptor.  on_read hears of no more data
\* then, unless on_read itself shut the socket down: its loop reads on.
ErrorOnce ==
    /\ errs > 1 => "both" \in history
    /\ Rests /\ emitted => errs > 0 /\ (watched => "unheld" \in history)
    /\ late > 0 => history \cap {"inside", "unheld"} # {}

ReadRight == NotForgotten /\ ErrorOnce
=============================================================================
