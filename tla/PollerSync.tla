----------------------------- MODULE PollerSync -----------------------------
(***************************************************************************)
(* sync and sync_first between the pollers of a pool, which wait on a      *)
(* semaphore for a task they post to another poller, and getExecutorDelay, *)
(* which posts to all of them and calls back when the last has run.        *)
(***************************************************************************)
EXTENDS Naturals, Sequences, FiniteSets

CONSTANTS Loops,    \* the pollers
          Outside,  \* threads that are no poller's
          Probe, Nobody,
          MaxSyncs  \* bound: tasks posted

VARIABLES jobs,    \* every poller's tasks, each by who posted it
          doing,   \* who posted the task it runs
          waitsFor, \* the poller a thread's semaphore waits for
          posts,
          probing  \* the pollers that hold the shared callback of getExecutorDelay

syncVars == <<jobs, doing, waitsFor, posts, probing>>

Threads == Loops \cup Outside

Init == /\ jobs = [q \in Loops |-> <<>>] /\ doing = [q \in Loops |-> Nobody]
        /\ waitsFor = [t \in Threads |-> Nobody] /\ posts = 0 /\ probing = {}

Busy(q) == doing[q] # Nobody
\* A thread can call: a poller when it runs a task of another thread.
Runs(t) == waitsFor[t] = Nobody /\ (t \in Loops => doing[t] \in Threads)

Post(q, by, first) == /\ posts < MaxSyncs /\ posts' = posts + 1
                      /\ jobs' = [jobs EXCEPT ![q] = IF first THEN <<by>> \o @ ELSE Append(@, by)]

\* Posted to its own poller the task would run at once.
Sync(t, q, first) == /\ Runs(t) /\ t # q
                     /\ Post(q, t, first)
                     /\ waitsFor' = [waitsFor EXCEPT ![t] = q]
                     /\ UNCHANGED <<doing, probing>>

GetExecutorDelay == /\ probing = {} /\ posts < MaxSyncs /\ posts' = posts + 1
                    /\ \E t \in Threads : Runs(t)
                    /\ probing' = Loops
                    /\ jobs' = [q \in Loops |-> Append(jobs[q], Probe)]
                    /\ UNCHANGED <<doing, waitsFor>>

Take(q) == /\ ~Busy(q) /\ jobs[q] # <<>>
           /\ doing' = [doing EXCEPT ![q] = Head(jobs[q])]
           /\ jobs' = [jobs EXCEPT ![q] = Tail(@)]
           /\ UNCHANGED <<waitsFor, posts, probing>>

\* mutant: a task that throws does not post the semaphore
FinishThrows(q) == /\ Busy(q) /\ waitsFor[q] = Nobody
                   /\ doing' = [doing EXCEPT ![q] = Nobody]
                   /\ waitsFor' \in {waitsFor, IF doing[q] \in Threads
                                               THEN [waitsFor EXCEPT ![doing[q]] = Nobody] ELSE waitsFor}
                   /\ probing' = IF doing[q] = Probe THEN probing \ {q} ELSE probing
                   /\ UNCHANGED <<jobs, posts>>

\* Returning or throwing, the task posts the semaphore it captured.
Finish(q) == /\ Busy(q) /\ waitsFor[q] = Nobody
             /\ doing' = [doing EXCEPT ![q] = Nobody]
             /\ waitsFor' = IF doing[q] \in Threads
                            THEN [waitsFor EXCEPT ![doing[q]] = Nobody] ELSE waitsFor
             /\ probing' = IF doing[q] = Probe THEN probing \ {q} ELSE probing
             /\ UNCHANGED <<jobs, posts>>

Turn == \E q \in Loops : Take(q) \/ Finish(q)

Next == \/ \E t \in Threads, q \in Loops, first \in BOOLEAN : Sync(t, q, first)
        \/ GetExecutorDelay \/ Turn

\* Pollers run what they have, and their tasks end.
Spec == Init /\ [][Next]_syncVars /\ WF_syncVars(Turn)

-----------------------------------------------------------------------------
\* The pollers a thread waits for, directly or through what they wait for.
Chain(t) ==
    LET Reached[n \in Nat] ==
            IF n = 0 THEN {waitsFor[t]} \ {Nobody}
            ELSE Reached[n - 1] \cup ({waitsFor[u] : u \in Reached[n - 1]} \ {Nobody})
    IN  Reached[Cardinality(Loops)]

\* Pollers that wait for one another, in a circle.
Knot == {q \in Loops : q \in Chain(q)}

\* A sync returns, and a question for the delays is answered, unless pollers have
\* called sync on one another.
SyncEnds ==
    /\ \A t \in Threads : waitsFor[t] # Nobody ~> waitsFor[t] = Nobody \/ Knot # {}
    /\ probing # {} ~> probing = {} \/ Knot # {}
=============================================================================
