----------------------------- MODULE Network -----------------------------
(***************************************************************************)
(* The parts of the pollers and the network library about which liveness   *)
(* is checked.  They share no state, so that one run checks them side by   *)
(* side: a behaviour exercises the one that part names, and the others     *)
(* stay in their initial states.                                           *)
(***************************************************************************)
EXTENDS Naturals, Sequences

CONSTANTS Tasks, MaxDelay, MaxLag, ZeroInside,          \* of DelayTasks
          MaxAttempts,                                  \* of TcpClient
          Pollers, Main, Conns,                         \* of TcpServer
          Callers, Poller, Capacity, MaxSends,          \* of SocketSend
          Loops, Outside, Probe, Nobody, MaxSyncs       \* of PollerSync

ASSUME NetworkAssumption ==
    /\ MaxDelay \in Nat /\ MaxLag \in Nat /\ ZeroInside \in BOOLEAN
    /\ MaxAttempts \in Nat
    /\ Main \in Pollers

VARIABLES part,
          place, line, cancelled, loop, base, timeout,
          attempt, managed, conn, tasks, resolver, telling, told, crossed,
          owner, ended, deleted, look, peer,
          waiting, sending, tmp, pc, byEvent, sendable, interest, edge, left, wire,
          read, nospace, broken, err, closed, exclusive, posted, foreign,
          jobs, doing, waitsFor, posts, probing

Delay == INSTANCE DelayTasks
Client == INSTANCE TcpClient
Server == INSTANCE TcpServer
Send == INSTANCE SocketSend WITH tasks <- left
Sync == INSTANCE PollerSync

delayV == <<place, line, cancelled, loop, base, timeout>>
clientV == <<attempt, managed, conn, tasks, resolver, telling, told, crossed>>
serverV == <<owner, ended, deleted, look, peer>>
sendV == <<waiting, sending, tmp, pc, byEvent, sendable, interest, edge, left, wire,
           read, nospace, broken, err, closed, exclusive, posted, foreign>>
syncV == <<jobs, doing, waitsFor, posts, probing>>
all == <<part, delayV, clientV, serverV, sendV, syncV>>

Init == /\ part \in {"delay", "client", "server", "send", "sync"}
        /\ Delay!Init /\ Client!Init /\ Server!Init /\ Sync!Init
        /\ Send!Init /\ (exclusive => part = "send")

Delays(A) == part = "delay" /\ A /\ UNCHANGED <<part, clientV, serverV, sendV, syncV>>
Connects(A) == part = "client" /\ A /\ UNCHANGED <<part, delayV, serverV, sendV, syncV>>
Serves(A) == part = "server" /\ A /\ UNCHANGED <<part, delayV, clientV, sendV, syncV>>
Sends(A) == part = "send" /\ A /\ UNCHANGED <<part, delayV, clientV, serverV, syncV>>
Waits(A) == part = "sync" /\ A /\ UNCHANGED <<part, delayV, clientV, serverV, sendV>>

Next == \/ Delays(Delay!Next) \/ Connects(Client!Next) \/ Serves(Server!Next)
        \/ Sends(Send!Next) \/ Waits(Sync!Next)

\* The fairness of each part, as its module states it.
Fairness ==
    /\ WF_delayV(part = "delay" /\ Delay!Loop) /\ WF_delayV(part = "delay" /\ Delay!Tick)
    /\ WF_clientV(part = "client" /\ Client!Turn)
    /\ WF_serverV(part = "server" /\ Server!GoesOn)
    /\ \A p \in Pollers : WF_serverV(part = "server" /\ Server!LoopEnds(p))
    /\ SF_serverV(part = "server" /\ Server!Clones)
    /\ \A c \in Callers : WF_sendV(part = "send" /\ Send!Sender(c))
    /\ WF_sendV(part = "send" /\ (Send!Sender(Poller) \/ Send!Loop))
    /\ WF_sendV(part = "send" /\ Send!PeerReads)
    /\ WF_syncV(part = "sync" /\ Sync!Turn)

Spec == Init /\ [][Next]_all /\ Fairness

\* The poller never sleeps past the first deadline by more than one flush.
SleepCovers == Delay!SleepCovers

\* A delayed task is called, unless it is cancelled.
DelayedRuns == Delay!DelayedRuns

\* An attempt to connect has one result, keeps no descriptor and is guarded by its timer.
ConnectRight == Client!ConnectRight

\* Every attempt is answered.
Answered == Client!Answered

\* Sessions are told once, by their own poller, and no connection is left waiting.
ServerRight == Server!ServerRight

\* Once the server is dropped no session is left.
Ends == Server!Ends

\* Until an error what was sent is in one place, and in its order as long as the
\* poller's thread alone sends.
SendConserves == Send!SendConserves

\* All of it is written, and a socket marked as not writable becomes writable.
SendEnds == Send!AllWritten /\ Send!Unwedged

\* sync returns and getExecutorDelay is answered, unless pollers wait in a circle.
SyncEnds == Sync!SyncEnds
=============================================================================
