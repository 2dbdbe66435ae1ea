----------------------------- MODULE TcpClient -----------------------------
(***************************************************************************)
(* Connecting: TcpClient, which makes a new Socket for every attempt, and  *)
(* Socket::connect below it.  The name is looked up on a worker thread,    *)
(* the timer of the attempt, an error of the socket, a shutdown and the    *)
(* next attempt all race with the answer, and everything that decides the  *)
(* race runs on the poller.                                                *)
(***************************************************************************)
EXTENDS Naturals, Sequences, FiniteSets

CONSTANT MaxAttempts \* bound: calls of startConnect; also the Socket objects

VARIABLES attempt,  \* the Socket that _sock refers to; 0 before the first
          managed,  \* the client's _timer is set
          conn,     \* per Socket: its state
          tasks,    \* the poller's tasks
          resolver, \* the lookups on the worker threads
          telling,  \* the result that con_cb is about to pass on
          told,     \* per Socket: what the client's user was told
          crossed   \* startConnect was called while a result was passed on

clientVars == <<attempt, managed, conn, tasks, resolver, telling, told, crossed>>

Attempts == 1..MaxAttempts
None == [n |-> 0]

\* What closeSock leaves; fd is what _sock_fd holds and watched the events the
\* poller has been asked for.
Closed == [fd |-> FALSE, watched |-> "none", timer |-> FALSE, awaiting |-> FALSE,
           errEmit |-> FALSE]
Dismissed(c) == [c EXCEPT !.watched = "none", !.timer = FALSE, !.awaiting = FALSE]

Init == /\ attempt = 0 /\ managed = FALSE /\ tasks = <<>> /\ resolver = {}
        /\ conn = [n \in Attempts |-> Closed] /\ telling = None
        /\ told = [n \in Attempts |-> <<>>] /\ crossed = FALSE

Busy == telling # None
Post(new) == tasks' = tasks \o new

-----------------------------------------------------------------------------
\* TcpClient, on any thread.

\* The new Socket replaces the old one, whose last reference this was: nothing of
\* the old one is passed on any more, and the poller deletes it.
StartConnect ==
    /\ attempt < MaxAttempts
    /\ attempt' = attempt + 1 /\ managed' = TRUE
    /\ Post((IF attempt = 0 THEN <<>> ELSE <<[do |-> "delete", n |-> attempt]>>)
            \o <<[do |-> "connect", n |-> attempt + 1]>>)
    /\ crossed' = (crossed \/ Busy)
    /\ UNCHANGED <<conn, resolver, telling, told>>

\* shutdown: one error is emitted for each life of the Socket.
Shutdown ==
    /\ attempt # 0
    /\ managed' = FALSE
    /\ IF conn[attempt].errEmit THEN UNCHANGED <<conn, tasks>>
       ELSE /\ conn' = [conn EXCEPT ![attempt].errEmit = TRUE]
            /\ Post(<<[do |-> "err", n |-> attempt]>>)
    /\ UNCHANGED <<attempt, resolver, telling, told, crossed>>

-----------------------------------------------------------------------------
\* Socket, on the poller's thread.

\* con_cb: the race is decided, and a Socket that failed lets its descriptor go.
ConCb(n, c, ok) ==
    /\ conn' = [conn EXCEPT ![n] =
           IF ok THEN [c EXCEPT !.timer = FALSE, !.awaiting = FALSE]
           ELSE [Dismissed(c) EXCEPT !.fd = FALSE]]
    /\ telling' = [n |-> n, ok |-> ok]

\* async_con_cb: a descriptor was made or not, the poller takes it or not.
Connecting(n, c, made) ==
    \/ ConCb(n, c, FALSE)
    \/ /\ made
       /\ conn' = [conn EXCEPT ![n] = [c EXCEPT !.fd = TRUE, !.watched = "write"]]
       /\ UNCHANGED telling

\* mutant: the attempt's timer starts when there is something to connect
ConnectLUntimed(n) ==
    \/ /\ \E made \in BOOLEAN : Connecting(n, [Closed EXCEPT !.timer = TRUE], made)
       /\ UNCHANGED resolver
    \/ /\ conn' = [conn EXCEPT ![n] = [Closed EXCEPT !.awaiting = TRUE]]
       /\ resolver' = resolver \cup {n}
       /\ UNCHANGED telling

\* connect_l: an address is connected to at once, a name is looked up first.
ConnectL(n) ==
    LET c == [Closed EXCEPT !.timer = TRUE]
    IN  \/ /\ \E made \in BOOLEAN : Connecting(n, c, made)
           /\ UNCHANGED resolver
        \/ /\ conn' = [conn EXCEPT ![n] = [c EXCEPT !.awaiting = TRUE]]
           /\ resolver' = resolver \cup {n}
           /\ UNCHANGED telling

\* A worker's lookup and connect end, and the result is put on the poller.
Resolve(n) == /\ n \in resolver
              /\ resolver' = resolver \ {n}
              /\ \E made \in BOOLEAN : Post(<<[do |-> "resolved", n |-> n, made |-> made]>>)
              /\ UNCHANGED <<attempt, managed, conn, telling, told, crossed>>

\* mutant: the error leaves the attempt's timer and its lookup alive
OnErrKeeps(n) ==
    /\ told' = [told EXCEPT ![n] = Append(@, "err")]
    /\ managed' = FALSE
    /\ conn' = [conn EXCEPT ![n].errEmit = TRUE, ![n].watched = "none"]

\* on_err and what follows it: the events go, the descriptor stays.
OnErr(n) ==
    /\ told' = [told EXCEPT ![n] = Append(@, "err")]
    /\ managed' = FALSE
    /\ conn' = [conn EXCEPT ![n] = [Dismissed(@) EXCEPT !.errEmit = TRUE]]

\* The weak reference of a task: only the Socket the client has is alive.
Alive(n) == n = attempt

RunTask ==
    /\ ~Busy /\ tasks # <<>> /\ tasks' = Tail(tasks)
    /\ LET task == Head(tasks)
           n == task.n
       IN  \/ /\ task.do = "delete" /\ conn' = [conn EXCEPT ![n] = Closed]
              /\ UNCHANGED <<managed, resolver, telling, told>>
           \/ /\ task.do = "connect"
              /\ IF Alive(n) THEN ConnectL(n) ELSE UNCHANGED <<conn, resolver, telling>>
              /\ UNCHANGED <<managed, told>>
           \/ /\ task.do = "resolved"
              /\ IF Alive(n) /\ conn[n].awaiting THEN Connecting(n, conn[n], task.made)
                 ELSE UNCHANGED <<conn, telling>>
              /\ UNCHANGED <<managed, resolver, told>>
           \/ /\ task.do = "err"
              /\ IF Alive(n) THEN OnErr(n) ELSE UNCHANGED <<conn, managed, told>>
              /\ UNCHANGED <<resolver, telling>>
    /\ UNCHANGED <<attempt, crossed>>

\* The timer of the attempt.
Timeout == /\ ~Busy /\ attempt # 0 /\ conn[attempt].timer
           /\ ConCb(attempt, conn[attempt], FALSE)
           /\ UNCHANGED <<attempt, managed, tasks, resolver, told, crossed>>

\* The descriptor is writable: connected or not, and then watched for everything.
OnConnected ==
    /\ ~Busy /\ attempt # 0 /\ conn[attempt].watched = "write"
    /\ \/ ConCb(attempt, conn[attempt], FALSE)
       \/ ConCb(attempt, [conn[attempt] EXCEPT !.watched = "all"], TRUE)
    /\ UNCHANGED <<attempt, managed, tasks, resolver, told, crossed>>

\* The peer resets or ends the connection.
ErrorEvent ==
    /\ ~Busy /\ attempt # 0 /\ conn[attempt].watched = "all"
    /\ IF conn[attempt].errEmit THEN UNCHANGED <<conn, managed, told>> ELSE OnErr(attempt)
    /\ UNCHANGED <<attempt, tasks, resolver, telling, crossed>>

\* The client is shut down on the poller's thread, where the error is emitted at
\* once. One that overtakes a connect task of another thread is left out: the
\* task would begin the attempt after its error.
ShutdownHere ==
    /\ ~Busy /\ attempt # 0
    /\ \A i \in DOMAIN tasks : tasks[i] # [do |-> "connect", n |-> attempt]
    /\ IF conn[attempt].errEmit THEN managed' = FALSE /\ UNCHANGED <<conn, told>>
                                ELSE OnErr(attempt)
    /\ UNCHANGED <<attempt, tasks, resolver, telling, crossed>>

\* onSockConnect is called for the attempt that con_cb was made for.
OnSockConnect ==
    /\ Busy /\ telling' = None
    /\ managed' = (managed /\ telling.ok)
    /\ told' = [told EXCEPT ![telling.n] = Append(@, IF telling.ok THEN "ok" ELSE "fail")]
    /\ UNCHANGED <<attempt, conn, tasks, resolver, crossed>>

Next == \/ StartConnect \/ Shutdown \/ RunTask \/ Timeout \/ OnConnected \/ ErrorEvent
        \/ ShutdownHere \/ OnSockConnect \/ \E n \in Attempts : Resolve(n)

\* The poller runs its tasks and its timers; a lookup may take for ever.  There are
\* finitely many of each, so that one fair action is as good as three.
Turn == RunTask \/ Timeout \/ OnSockConnect
Fairness == WF_clientVars(Turn)

Spec == Init /\ [][Next]_clientVars /\ Fairness

-----------------------------------------------------------------------------
Said(n, what) == {i \in DOMAIN told[n] : told[n][i] \in what}

\* The user is told at most once how an attempt ended, before any error that
\* ends the connection itself, and nothing more after an error but a second error.
OneResult == \A n \in Attempts :
    /\ Cardinality(Said(n, {"ok", "fail"})) <= 1
    /\ \A i \in Said(n, {"err"}) : \A j \in Said(n, {"ok", "fail"}) : j < i

\* A descriptor is watched only while _sock_fd holds it, no Socket but the
\* client's keeps one once its deletion ran, and a failed attempt keeps none.
NoLeak == \A n \in Attempts :
    /\ conn[n].watched # "none" => conn[n].fd
    /\ conn[n].fd /\ n # attempt =>
          \E i \in DOMAIN tasks : tasks[i] = [do |-> "delete", n |-> n]
    /\ Said(n, {"fail"}) # {} => ~conn[n].fd

\* While the attempt is open its timer runs: nothing else would end it if neither
\* the name server nor the peer ever answered.
Guarded == \A n \in Attempts :
    conn[n].awaiting \/ conn[n].watched = "write" => conn[n].timer

\* The client's own timer runs while its connection is made or stands, unless a
\* new attempt was begun on another thread while an old result was passed on.
Managed ==
    \/ managed \/ crossed \/ attempt = 0
    \/ Said(attempt, {"fail", "err"}) # {}
    \/ conn[attempt].errEmit \/ (telling.n = attempt /\ ~telling.ok)
    \/ \E i \in DOMAIN tasks : tasks[i] = [do |-> "err", n |-> attempt]

ConnectRight == OneResult /\ NoLeak /\ Guarded /\ Managed

\* Every attempt is answered, unless another one or its shutdown came first; the
\* lookup and the peer need not answer for that.
Answered == \A n \in Attempts : (attempt = n) ~> (told[n] # <<>> \/ attempt # n)
=============================================================================
