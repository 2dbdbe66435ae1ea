----------------------------- MODULE UdpServer -----------------------------
(***************************************************************************)
(* UdpServer: every poller reads a socket of its own on the same port, and *)
(* all share one map of sessions by peer.  A datagram without a session    *)
(* makes one on a poller that need not be the one that read it, and two    *)
(* pollers may read the first datagrams of one peer.  A session that ended *)
(* stays in the map, deaf, for three seconds.                              *)
(***************************************************************************)
EXTENDS Naturals, Sequences, FiniteSets

CONSTANTS UdpPollers, Peers,
          MaxDatagrams, \* bound: datagrams that arrive
          MaxQueue,     \* bound: tasks of a poller when the manager starts a round
          MaxSessions   \* bound: sessions made

VARIABLES sessionMap, \* per peer: the session in _session_map; 0 is none
          sessions,   \* the sessions made, in their order
          sender,     \* per datagram: who sent it
          queued,     \* per poller: its tasks
          reading,    \* per poller: the datagram it looks up or makes a session for
          erasures,   \* the peers with a delayed erasure
          up          \* the server is not destroyed

udpVars == <<sessionMap, sessions, sender, queued, reading, erasures, up>>

Idle == [peer |-> "none"]

Init == /\ sessionMap = [id \in Peers |-> 0] /\ sessions = <<>> /\ sender = <<>>
        /\ queued = [a \in UdpPollers |-> <<>>] /\ erasures = {} /\ up = TRUE
        /\ reading = [a \in UdpPollers |-> Idle]

Put(b, task) == queued' = [queued EXCEPT ![b] = Append(@, task)]
Free(a) == reading[a] = Idle

\* emitSessionRecv: a session that ended takes nothing.
Received(s, d) == [sessions EXCEPT ![s].got = IF sessions[s].enable THEN Append(@, d) ELSE @]

\* onRead_l's last step: to the session here, or to its poller with a copy.
Emit(a, s, d) == IF sessions[s].at = a
                 THEN sessions' = Received(s, d) /\ UNCHANGED queued
                 ELSE /\ Put(sessions[s].at, [do |-> "recv", session |-> s, data |-> d])
                      /\ UNCHANGED sessions

-----------------------------------------------------------------------------
\* Reading, on any poller.

\* getOrCreateSession for a datagram that is to go to the session of peer id.
Lookup(a, id, from) ==
    /\ up /\ Free(a) /\ Len(sender) < MaxDatagrams
    /\ sender' = Append(sender, from)
    /\ IF sessionMap[id] # 0
       THEN Emit(a, sessionMap[id], Len(sender) + 1) /\ UNCHANGED reading
       ELSE /\ reading' = [reading EXCEPT ![a] = [peer |-> id, from |-> from,
                                                  data |-> Len(sender) + 1]]
            /\ UNCHANGED <<sessions, queued>>
    /\ UNCHANGED <<sessionMap, erasures, up>>

\* On the server's socket.
OnRead(a, id) == Lookup(a, id, id)

\* On a session's socket; the kernel may have put datagrams of other peers there
\* before it was connected to its own, and these go the way of the session's id.
OnSessionRead(s, from) ==
    IF from = sessions[s].addr
    THEN /\ up /\ Free(sessions[s].at) /\ Len(sender) < MaxDatagrams
         /\ sender' = Append(sender, from)
         /\ sessions' = Received(s, Len(sender) + 1)
         /\ UNCHANGED <<sessionMap, queued, reading, erasures, up>>
    ELSE Lookup(sessions[s].at, sessions[s].peer, from)

\* mutant: the map is not looked into again
MakeAlways(b, id, from) ==
    /\ Len(sessions) < MaxSessions
    /\ sessions' = Append(sessions, [peer |-> id, addr |-> from, at |-> b, enable |-> TRUE,
                                     errs |-> 0, got |-> <<>>])
    /\ sessionMap' = [sessionMap EXCEPT ![id] = Len(sessions) + 1]

\* helper_creator, under the lock: another poller may have made it meanwhile.
Make(b, id, from) ==
    IF sessionMap[id] # 0 THEN UNCHANGED <<sessions, sessionMap>>
    ELSE /\ Len(sessions) < MaxSessions
         /\ sessions' = Append(sessions,
                [peer |-> id, addr |-> from, at |-> b, enable |-> TRUE, errs |-> 0, got |-> <<>>])
         /\ sessionMap' = [sessionMap EXCEPT ![id] = Len(sessions) + 1]

\* createSession: the socket of the new session is of any poller. Its own thread
\* goes on at once and hands the datagram over in onRead_l.
CreateHere(a) ==
    /\ ~Free(a) /\ reading[a].peer \in Peers
    /\ IF up THEN Make(a, reading[a].peer, reading[a].from)
             ELSE UNCHANGED <<sessions, sessionMap>>
    /\ reading' = [reading EXCEPT ![a] =
           IF up THEN [peer |-> "made", session |-> sessionMap'[reading[a].peer],
                       data |-> reading[a].data]
           ELSE Idle]
    /\ UNCHANGED <<sender, queued, erasures, up>>

Made(a) == /\ ~Free(a) /\ reading[a].peer = "made"
           /\ Emit(a, reading[a].session, reading[a].data)
           /\ reading' = [reading EXCEPT ![a] = Idle]
           /\ UNCHANGED <<sessionMap, sender, erasures, up>>

CreateThere(a, b) ==
    /\ ~Free(a) /\ a # b /\ reading[a].peer \in Peers
    /\ Put(b, [do |-> "create", peer |-> reading[a].peer, from |-> reading[a].from,
               data |-> reading[a].data])
    /\ reading' = [reading EXCEPT ![a] = Idle]
    /\ UNCHANGED <<sessionMap, sessions, sender, erasures, up>>

-----------------------------------------------------------------------------
\* A poller's tasks.

\* on_err: the session is deaf and told, and leaves the map later.
Ended(s) == [sessions EXCEPT ![s].enable = FALSE, ![s].errs = @ + 1]

RunTask(b) ==
    /\ Free(b) /\ queued[b] # <<>>
    /\ LET task == Head(queued[b])
       IN  \/ /\ task.do = "recv" /\ sessions' = Received(task.session, task.data)
              /\ queued' = [queued EXCEPT ![b] = Tail(@)]
              /\ UNCHANGED <<sessionMap, reading, erasures>>
           \/ /\ task.do = "create"
              /\ IF up
                 THEN /\ Make(b, task.peer, task.from)
                      /\ reading' = [reading EXCEPT ![b] =
                             [peer |-> "made", session |-> sessionMap'[task.peer],
                              data |-> task.data]]
                 ELSE UNCHANGED <<sessions, sessionMap, reading>>
              /\ queued' = [queued EXCEPT ![b] = Tail(@)]
              /\ UNCHANGED erasures
           \/ /\ task.do = "manage" /\ queued' = [queued EXCEPT ![b] = Tail(@)]
              /\ \E over \in SUBSET {s \in task.sessions :
                                        sessions[s].at = b /\ sessions[s].errs = 0} :
                    /\ sessions' = [s \in DOMAIN sessions |->
                           IF s \in over THEN Ended(s)[s] ELSE sessions[s]]
                    /\ erasures' = IF up THEN erasures \cup {sessions[s].peer : s \in over}
                                   ELSE erasures
              /\ UNCHANGED <<sessionMap, reading>>
    /\ UNCHANGED <<sender, up>>

\* The session's socket fails or the session shuts it down; told once.
Fail(s) == /\ sessions[s].errs = 0 /\ Free(sessions[s].at)
           /\ sessions' = Ended(s)
           /\ erasures' = IF up THEN erasures \cup {sessions[s].peer} ELSE erasures
           /\ UNCHANGED <<sessionMap, sender, queued, reading, up>>

\* The delayed task, by the peer's name: whatever session it has by then.
Erase(id) == /\ id \in erasures
             /\ erasures' = erasures \ {id}
             /\ sessionMap' = IF up THEN [sessionMap EXCEPT ![id] = 0] ELSE sessionMap
             /\ UNCHANGED <<sessions, sender, queued, reading, up>>

\* The main server's timer copies the map and gives every poller the copy.
InMap == {sessionMap[id] : id \in Peers} \ {0}
OnManager == /\ up /\ InMap # {} /\ \A b \in UdpPollers : Len(queued[b]) < MaxQueue
             /\ queued' = [b \in UdpPollers |->
                    Append(queued[b], [do |-> "manage", sessions |-> InMap])]
             /\ UNCHANGED <<sessionMap, sessions, sender, reading, erasures, up>>

\* The main server is destroyed; what holds only a weak reference does nothing.
Destroy == /\ up /\ up' = FALSE
           /\ sessionMap' = [id \in Peers |-> 0]
           /\ UNCHANGED <<sessions, sender, queued, reading, erasures>>

Next == \/ \E a \in UdpPollers : \/ \E id \in Peers : OnRead(a, id)
                                 \/ CreateHere(a) \/ Made(a) \/ RunTask(a)
                                 \/ \E b \in UdpPollers : CreateThere(a, b)
        \/ \E s \in DOMAIN sessions : Fail(s) \/ \E from \in Peers : OnSessionRead(s, from)
        \/ \E id \in Peers : Erase(id)
        \/ OnManager \/ Destroy

Spec == Init /\ [][Next]_udpVars

-----------------------------------------------------------------------------
\* While the server is up a session is in the map or has been told, once, that it
\* ended: no erasure takes a session it was not meant for, and no peer has two.
Kept == \A s \in DOMAIN sessions :
    /\ sessions[s].errs <= 1
    /\ up => sessionMap[sessions[s].peer] = s \/ (~sessions[s].enable /\ sessions[s].errs = 1)

\* The datagrams on their way, and those the sessions took.
OnTheWay(d) ==
    Cardinality({a \in UdpPollers : ~Free(a) /\ reading[a].data = d})
    + Cardinality(UNION {{b} \X {i \in DOMAIN queued[b] : /\ queued[b][i].do # "manage"
                                                         /\ queued[b][i].data = d} : b \in UdpPollers})
Taken(d) ==
    Cardinality(UNION {{s} \X {i \in DOMAIN sessions[s].got : sessions[s].got[i] = d} :
                       s \in DOMAIN sessions})

\* No datagram is taken twice, and none is lost while no session has ended.
EachOnce == \A d \in DOMAIN sender :
    /\ Taken(d) + OnTheWay(d) <= 1
    /\ up /\ (\A s \in DOMAIN sessions : sessions[s].enable) => Taken(d) + OnTheWay(d) = 1

UdpRight == Kept /\ EachOnce

\* A datagram that came to the wrong socket goes to its sender's session.
OwnPeer == \A s \in DOMAIN sessions : \A i \in DOMAIN sessions[s].got :
    sender[sessions[s].got[i]] = sessions[s].peer
=============================================================================
