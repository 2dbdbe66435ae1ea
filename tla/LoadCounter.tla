---------------------------- MODULE LoadCounter ----------------------------
(***************************************************************************)
(* ThreadLoadCounter and TaskExecutorGetterImp::getExecutor: every thread  *)
(* of a pool keeps the lengths of its last turns of work and of sleep, and *)
(* the pool hands out the thread whose turns say it works least, starting  *)
(* behind the one it handed out before.                                    *)
(***************************************************************************)
EXTENDS Integers, Sequences, FiniteSets, SequencesExt, FiniteSetsExt

CONSTANTS Threads,  \* the threads, 1..n as in _threads
          MaxSize,  \* _max_size
          MaxSpan,  \* _max_usec
          MaxTicks  \* bound: the clock

VARIABLES ticks, begun, \* begun: the threads whose loop has begun
          record,    \* _time_list of every thread
          sleeping,  \* _sleeping
          lastSleep, lastWake,
          worked,    \* the ticks every thread has truly worked
          position   \* _thread_pos

counterVars == <<ticks, begun, record, sleeping, lastSleep, lastWake, worked, position>>

Each(v) == [th \in Threads |-> v]

\* A thread is created awake, though the counter says it sleeps; the first thing
\* its loop does is to tell the counter that it goes to sleep.
Init == /\ ticks = 0 /\ begun = {} /\ record = Each(<<>>) /\ sleeping = Each(TRUE)
        /\ lastSleep = Each(0) /\ lastWake = Each(0) /\ worked = Each({})
        /\ position = 0

Sum(list) == FoldLeft(LAMBDA acc, r : acc + r.time, 0, list)

Tick == /\ ticks < MaxTicks /\ ticks' = ticks + 1
        /\ worked' = [th \in Threads |-> IF sleeping[th] /\ th \in begun THEN worked[th]
                                     ELSE worked[th] \cup {ticks}]
        /\ UNCHANGED <<begun, record, sleeping, lastSleep, lastWake, position>>

\* emplace_back, and pop_front of what is too much.
Noted(list, r) == IF Len(list) = MaxSize THEN Append(Tail(list), r) ELSE Append(list, r)

StartSleep(th) ==
    /\ ~sleeping[th] \/ th \notin begun
    /\ begun' = begun \cup {th}
    /\ sleeping' = [sleeping EXCEPT ![th] = TRUE]
    /\ lastSleep' = [lastSleep EXCEPT ![th] = ticks]
    /\ record' = [record EXCEPT ![th] = Noted(@, [time |-> ticks - lastWake[th], sleep |-> FALSE])]
    /\ UNCHANGED <<ticks, lastWake, worked, position>>

SleepWakeUp(th) ==
    /\ sleeping[th] /\ th \in begun
    /\ sleeping' = [sleeping EXCEPT ![th] = FALSE]
    /\ lastWake' = [lastWake EXCEPT ![th] = ticks]
    /\ record' = [record EXCEPT ![th] = Noted(@, [time |-> ticks - lastSleep[th], sleep |-> TRUE])]
    /\ UNCHANGED <<ticks, begun, lastSleep, worked, position>>

-----------------------------------------------------------------------------
\* load: the turn that goes on counts; the oldest turns go while all of them span
\* more than the window.
Going(th) == ticks - (IF sleeping[th] THEN lastSleep[th] ELSE lastWake[th])
Span(th, list) == Sum(list) + Going(th)

Windowed(th) ==
    LET from(i) == SubSeq(record[th], i, Len(record[th]))
    IN  from(Min({Len(record[th]) + 1} \cup
                 {i \in 1..Len(record[th]) : Span(th, from(i)) <= MaxSpan}))

Run(th, list) == Sum(SelectSeq(list, LAMBDA r : ~r.sleep)) + IF sleeping[th] THEN 0 ELSE Going(th)

\* mutant: the turn that goes on is taken for work
LoadRunning(th) == LET list == Windowed(th)
                   IN  IF Span(th, list) = 0 THEN 0
                       ELSE ((Sum(SelectSeq(list, LAMBDA r : ~r.sleep)) + Going(th)) * 100) \div Span(th, list)

Load(th) == LET list == Windowed(th)
            IN  IF Span(th, list) = 0 THEN 0 ELSE (Run(th, list) * 100) \div Span(th, list)

\* getExecutor: the threads are looked at one after the other, from the position
\* kept, until one has no load; that one keeps the position.  No tick passes
\* between two looks.
Order == [i \in 1..(Cardinality(Threads) + 1) |-> 1 + ((position + i - 1) % Cardinality(Threads))]

Idle == {i \in 1..Len(Order) : Load(Order[i]) = 0}
\* The first thread is left even when it is idle.
LookedAt == 1..(IF Idle = {} THEN Len(Order) ELSE Max({2, Min(Idle)}))
Chosen == Order[Min({i \in LookedAt : \A j \in LookedAt : Load(Order[i]) <= Load(Order[j])})]

\* Looking takes the old turns out.
GetExecutor ==
    /\ position' = Order[Max(LookedAt)] - 1
    /\ record' = [th \in Threads |->
                     IF \E i \in LookedAt : Order[i] = th THEN Windowed(th) ELSE record[th]]
    /\ UNCHANGED <<ticks, begun, sleeping, lastSleep, lastWake, worked>>

Next == Tick \/ GetExecutor \/ \E th \in Threads : StartSleep(th) \/ SleepWakeUp(th)

Spec == Init /\ [][Next]_counterVars

-----------------------------------------------------------------------------
\* The turns kept are the last ones without a gap, so that the load is the share
\* of the ticks truly worked since the oldest of them; and getExecutor returns a
\* thread that works least.
LoadRight ==
    /\ \A th \in begun :
          LET since == ticks - Span(th, Windowed(th))
              true  == Cardinality({n \in worked[th] : n >= since})
          IN  /\ since >= 0
              /\ Load(th) = IF since = ticks THEN 0 ELSE (true * 100) \div (ticks - since)
    /\ \A th \in Threads : Load(Chosen) <= Load(th)
=============================================================================
