----------------------------- MODULE TcpServer -----------------------------
(***************************************************************************)
(* Accepting: Socket::onAccept and TcpServer, which has a server object    *)
(* for every poller, each listening on the same descriptor.  The poller    *)
(* that accepts a connection is seldom the one that serves it: its session *)
(* is made by a task, and the connection is watched once both this task    *)
(* and the accepting loop have let go of it.  Errors, the manager's round  *)
(* and the end of the servers race with that.                              *)
(***************************************************************************)
EXTENDS Naturals, FiniteSets

CONSTANTS Pollers, Main, \* the pollers, and the one start_l was called for
          Conns          \* the connections that peers make

VARIABLES owner,   \* the user still refers to the server
          ended,   \* how far its destructor is: "no", "deaf", "empty", "done"
          deleted, \* the clones that are deleted
          look,    \* per poller: what will make it accept again
          peer     \* per connection: its socket and its session

serverVars == <<owner, ended, deleted, look, peer>>

Init == /\ owner = TRUE /\ ended = "no" /\ deleted = {}
        /\ look = [p \in Pollers |-> "idle"]
        /\ peer = [c \in Conns |->
               [st |-> "none", at |-> Main, srv |-> Main, held |-> FALSE, orphan |-> FALSE,
                served |-> FALSE, attach |-> "no", cut |-> FALSE, early |-> FALSE, errs |-> 0]]

In(states) == {c \in Conns : peer[c].st \in states}

\* A server lives while something refers to it: the user, the main server's map of
\* clones, or a task that is to give it a connection.
Alive(p) == \/ IF p = Main THEN owner ELSE ended # "done"
            \/ \E c \in In({"given"}) : peer[c].srv = p
Listening(p) == IF p = Main THEN ended = "no" ELSE p \notin deleted

\* The clone of the poller if the main server can be asked, else the one at hand.
GetServer(a, b) == IF a = Main \/ Alive(Main) THEN b ELSE a

-----------------------------------------------------------------------------
\* Socket::onAccept on the listening sockets.

\* A peer connects; one poller at least gets the event, for this edge only.
Arrive(c) == /\ peer[c].st = "none" /\ ended = "no"
             /\ peer' = [peer EXCEPT ![c].st = "waiting"]
             /\ \E woken \in (SUBSET {p \in Pollers : Listening(p)}) \ {{}} :
                   look' = [p \in Pollers |-> IF p \in woken /\ look[p] = "idle"
                                              THEN "event" ELSE look[p]]
             /\ UNCHANGED <<owner, ended, deleted>>

\* The event, or the delayed task, and the loop until nobody is waiting.
OnAccept(a) == /\ look[a] \in {"event", "retry"} /\ Listening(a)
               /\ look' = [look EXCEPT ![a] = "loop"]
               /\ UNCHANGED <<owner, ended, deleted, peer>>

Drained(a) == /\ look[a] = "loop" /\ In({"waiting"}) = {}
              /\ look' = [look EXCEPT ![a] = "idle"]
              /\ UNCHANGED <<owner, ended, deleted, peer>>

\* mutant: out of descriptors, the poller waits for the next event
AcceptFailsOnce(a) == /\ look[a] = "loop" /\ In({"waiting"}) # {}
                      /\ look' = [look EXCEPT ![a] = "idle"]
                      /\ UNCHANGED <<owner, ended, deleted, peer>>

\* Out of descriptors: the event will not come again, so a delayed task is left.
AcceptFails(a) == /\ look[a] = "loop" /\ In({"waiting"}) # {}
                  /\ look' = [look EXCEPT ![a] = "retry"]
                  /\ UNCHANGED <<owner, ended, deleted, peer>>

\* The connection gets a socket on any poller and a task for the server there,
\* which runs at once if that is this poller. A dead server takes no connection.
Accept(a, b, c) ==
    LET given == [peer[c] EXCEPT !.st = "given", !.at = b, !.srv = GetServer(a, b),
                                 !.held = TRUE, !.orphan = ~Alive(Main)]
    IN  /\ look[a] = "loop" /\ peer[c].st = "waiting"
        /\ peer' = [peer EXCEPT ![c] =
               IF ~Alive(a) THEN [@ EXCEPT !.st = "gone", !.attach = "off"]
               ELSE IF a = b THEN [given EXCEPT !.st = "session", !.served = TRUE,
                                                !.held = FALSE, !.attach = "on"]
               ELSE given]
        /\ UNCHANGED <<owner, ended, deleted, look>>

\* The loop's own reference goes; if it was the last one the socket is watched,
\* which another poller's thread has to ask for.
Release(c) == /\ peer[c].held
              /\ peer' = [peer EXCEPT ![c].held = FALSE,
                     ![c].attach = IF peer[c].st = "given" THEN @ ELSE "queued"]
              /\ UNCHANGED <<owner, ended, deleted, look>>

-----------------------------------------------------------------------------
\* On the poller of the connection.

\* A socket nobody has any more is deleted; if its events were cut before they
\* were added, nothing takes them out again.
Deleted(r) == IF r.attach = "on" /\ ~r.cut THEN [r EXCEPT !.attach = "off", !.cut = TRUE]
              ELSE r

\* onAcceptConnection, and the task's reference goes.
RunAccept(c) == /\ peer[c].st = "given"
                /\ peer' = [peer EXCEPT ![c].st = "session", ![c].served = TRUE,
                       ![c].attach = IF peer[c].held THEN @ ELSE "on"]
                /\ UNCHANGED <<owner, ended, deleted, look>>

RunAttach(c) ==
    /\ peer[c].attach = "queued"
    /\ LET r == [peer[c] EXCEPT !.attach = "on", !.early = peer[c].cut]
       IN  peer' = [peer EXCEPT ![c] = IF r.st = "gone" THEN Deleted(r) ELSE r]
    /\ UNCHANGED <<owner, ended, deleted, look>>

\* on_err: the session is told and the socket's events are cut.
Told(r) == [r EXCEPT !.errs = @ + 1, !.cut = TRUE,
                     !.attach = IF @ = "on" THEN "off" ELSE @]

\* mutant: the session is dropped before it can be told
FailSilent(c) ==
    /\ peer[c].st = "session" /\ peer[c].errs = 0
    /\ peer' = [peer EXCEPT ![c] = [Told(@) EXCEPT
           !.errs = 0, !.st = IF Alive(peer[c].srv) THEN "gone" ELSE "session"]]
    /\ UNCHANGED <<owner, ended, deleted, look>>

\* The peer ends the connection, or the session does: the server forgets it.
Fail(c) ==
    /\ peer[c].st = "session" /\ peer[c].errs = 0
    /\ peer' = [peer EXCEPT ![c] = [Told(@) EXCEPT
           !.st = IF Alive(peer[c].srv) THEN "gone" ELSE "session"]]
    /\ UNCHANGED <<owner, ended, deleted, look>>

\* onManagerSession: the sessions that end in this round are told at once and
\* leave the map, which is being walked, by a task.
OnManager(p, over) ==
    /\ Alive(p) /\ over # {}
    /\ \A c \in over : peer[c].st = "session" /\ peer[c].srv = p /\ peer[c].errs = 0
    /\ peer' = [c \in Conns |-> IF c \in over THEN [Told(peer[c]) EXCEPT !.st = "erasing"]
                                              ELSE peer[c]]
    /\ UNCHANGED <<owner, ended, deleted, look>>

Erase(c) == /\ peer[c].st = "erasing" /\ Alive(peer[c].srv)
            /\ peer' = [peer EXCEPT ![c].st = "gone"]
            /\ UNCHANGED <<owner, ended, deleted, look>>

-----------------------------------------------------------------------------
\* The end.

\* The user drops the server; its destructor runs when nothing refers to it.
Drop == owner /\ owner' = FALSE /\ UNCHANGED <<ended, deleted, look, peer>>

\* ~SessionHelper: without a server the session is told, also a second time.
Emptied(p) == [c \in Conns |->
    IF peer[c].srv = p /\ peer[c].st \in {"session", "erasing"}
    THEN Deleted([peer[c] EXCEPT !.st = "gone", !.errs = @ + 1]) ELSE peer[c]]

StopListening == /\ ~Alive(Main) /\ ended = "no" /\ ended' = "deaf"
                 /\ look' = [look EXCEPT ![Main] = IF @ = "loop" THEN @ ELSE "idle"]
                 /\ UNCHANGED <<owner, deleted, peer>>

\* mutant: the sessions are left in the map
ClearSessionsNever == /\ ended = "deaf" /\ ended' = "empty"
                      /\ UNCHANGED <<owner, deleted, look, peer>>

ClearSessions == /\ ended = "deaf" /\ ended' = "empty" /\ peer' = Emptied(Main)
                 /\ UNCHANGED <<owner, deleted, look>>

DropClones == /\ ended = "empty" /\ ended' = "done"
              /\ UNCHANGED <<owner, deleted, look, peer>>

\* A clone is deleted by its own poller, between two connections.
DeleteClone(p) == /\ p # Main /\ p \notin deleted /\ ~Alive(p) /\ look[p] # "loop"
                  /\ deleted' = deleted \cup {p}
                  /\ look' = [look EXCEPT ![p] = "idle"]
                  /\ peer' = Emptied(p)
                  /\ UNCHANGED <<owner, ended>>

Destroy == StopListening \/ ClearSessions \/ DropClones \/ \E p \in Pollers : DeleteClone(p)

Next == \/ \E c \in Conns : \/ Arrive(c) \/ Release(c) \/ RunAccept(c) \/ RunAttach(c)
                            \/ Fail(c) \/ Erase(c)
                            \/ \E a, b \in Pollers : Accept(a, b, c)
        \/ \E p \in Pollers : \/ OnAccept(p) \/ Drained(p) \/ AcceptFails(p)
                              \/ \E over \in SUBSET Conns : OnManager(p, over)
        \/ Drop \/ Destroy

\* Each poller runs its tasks in their order, the deletion of a clone among them,
\* and comes to the end of a loop over the connections.  What goes on by itself is
\* one action for fairness: each part of it happens once, and is possible till then.
GoesOn == \/ \E c \in Conns : Release(c) \/ RunAccept(c)
          \/ StopListening \/ ClearSessions \/ DropClones
LoopEnds(p) == Drained(p) \/ AcceptFails(p)
Clones == \E p \in Pollers : DeleteClone(p)

Fairness == /\ WF_serverVars(GoesOn) /\ SF_serverVars(Clones)
            /\ \A p \in Pollers : WF_serverVars(LoopEnds(p))

Spec == Init /\ [][Next]_serverVars /\ Fairness

-----------------------------------------------------------------------------
\* A session is told before it goes, and while the server is up only once.
ToldOnce == \A c \in Conns :
    /\ peer[c].st = "gone" /\ peer[c].served => peer[c].errs > 0
    /\ peer[c].errs <= IF owner THEN 1 ELSE 2

\* A session belongs to the server of its poller, unless a clone accepted it
\* while the main server was being destroyed.
OwnPoller == \A c \in In({"given", "session", "erasing"}) :
    peer[c].srv = peer[c].at \/ peer[c].orphan

\* A connection that is gone is not watched any more, unless it was given up
\* before it was watched; a session is watched as soon as both let go of it.
Unwatched == \A c \in Conns :
    /\ peer[c].st = "gone" /\ peer[c].attach = "on" => peer[c].early
    /\ peer[c].st = "session" /\ peer[c].attach = "no" => peer[c].held

\* While somebody waits to be accepted, some poller is going to look.
Looking == In({"waiting"}) # {} /\ owner => \E p \in Pollers : look[p] # "idle"

\* Once the user has dropped the server no session is left, on whatever poller.
Ends == ~owner ~> In({"given", "session", "erasing"}) = {}

ServerRight == ToldOnce /\ OwnPoller /\ Unwatched /\ Looking
=============================================================================
