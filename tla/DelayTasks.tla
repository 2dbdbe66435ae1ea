----------------------------- MODULE DelayTasks -----------------------------
(***************************************************************************)
(* The delayed tasks of EventPoller: doDelayTask puts a task into          *)
(* _delay_task_map under its deadline, and each turn of the loop runs what *)
(* is due and sleeps in epoll_wait until the next deadline.  Deadlines are *)
(* kept relative to the clock: line[t] is the deadline of t minus now, and *)
(* a tick of the clock lowers every one of them, so time has no bound.     *)
(***************************************************************************)
EXTENDS Integers, FiniteSets, FiniteSetsExt

CONSTANTS Tasks,      \* DelayTask objects
          MaxDelay,   \* bound: delays are at most MaxDelay milliseconds
          MaxLag,     \* bound: one flush lasts at most MaxLag milliseconds, and
                      \* a deadline missed by more is one missed by MaxLag
          ZeroInside  \* may a delayed task itself post one with delay zero?

VARIABLES
  place,      \* where each task is: the list of async tasks, the map, the copy
              \* that flushDelayTask works on, being called, or nowhere
  line,       \* its deadline minus now
  cancelled,  \* cancel() was called: the task is kept and does nothing
  loop,       \* the place of the poller's thread
  base,       \* now_time of the flush in progress minus now
  timeout     \* what is left of the sleep; Forever: epoll_wait's -1

vars == <<place, line, cancelled, loop, base, timeout>>

Forever == -1
At(p) == {t \in Tasks : place[t] = p}
First(S) == Min({line[t] : t \in S})
Delays == 1..MaxDelay

Init == /\ place = [t \in Tasks |-> "none"]
        /\ line = [t \in Tasks |-> 0]
        /\ cancelled = [t \in Tasks |-> FALSE]
        /\ loop = "min" /\ base = 0 /\ timeout = Forever

\* mutant: the map is changed from the calling thread
DoDelayTaskDirect == \E t \in At("none"), d \in {0} \cup Delays :
    /\ place' = [place EXCEPT ![t] = "map"]
    /\ line' = [line EXCEPT ![t] = d]
    /\ cancelled' = [cancelled EXCEPT ![t] = FALSE]
    /\ UNCHANGED <<loop, base, timeout>>

\* doDelayTask of another thread: the deadline is taken at once, the task gets
\* into the map when the poller runs the async task.
DoDelayTask == \E t \in At("none"), d \in {0} \cup Delays :
    /\ place' = [place EXCEPT ![t] = "queued"]
    /\ line' = [line EXCEPT ![t] = d]
    /\ cancelled' = [cancelled EXCEPT ![t] = FALSE]
    /\ UNCHANGED <<loop, base, timeout>>

\* doDelayTask on the poller's thread, by a delayed task or an event callback:
\* async_first calls the insertion at once.
DoDelayHere == \E t \in At("none"), d \in {0} \cup Delays :
    /\ loop \in {"body", "event"}
    /\ d # 0 \/ ZeroInside \/ loop = "event"
    /\ place' = [place EXCEPT ![t] = "map"]
    /\ line' = [line EXCEPT ![t] = d]
    /\ cancelled' = [cancelled EXCEPT ![t] = FALSE]
    /\ UNCHANGED <<loop, base, timeout>>

Cancel == \E t \in Tasks \ At("none") :
    /\ cancelled' = [cancelled EXCEPT ![t] = TRUE]
    /\ UNCHANGED <<place, line, loop, base, timeout>>

Move(p, q) == [t \in Tasks |-> IF place[t] = p THEN q ELSE place[t]]

-----------------------------------------------------------------------------
\* getMinDelay
SleepNone == /\ loop = "min" /\ At("map") = {}
             /\ timeout' = Forever
             /\ loop' = "sleep"
             /\ UNCHANGED <<place, line, cancelled, base>>

SleepFirst == /\ loop = "min" /\ At("map") # {} /\ First(At("map")) > 0
              /\ timeout' = First(At("map"))
              /\ loop' = "sleep"
              /\ UNCHANGED <<place, line, cancelled, base>>

\* flushDelayTask
FlushBegin == /\ loop = "min" /\ At("map") # {} /\ First(At("map")) <= 0
              /\ place' = Move("map", "copy")
              /\ base' = 0
              /\ loop' = "flush"
              /\ UNCHANGED <<line, cancelled, timeout>>

Due == {t \in At("copy") : line[t] <= base}

RunDue == \E t \in Due :
    /\ loop = "flush" /\ line[t] = First(Due)
    /\ IF cancelled[t]
       THEN /\ place' = [place EXCEPT ![t] = "none"]
            /\ UNCHANGED loop
       ELSE /\ place' = [place EXCEPT ![t] = "called"]
            /\ loop' = "body"
    /\ UNCHANGED <<line, cancelled, base, timeout>>

\* The task returns zero, or the delay until it is called again.
Return == \E t \in At("called") :
    /\ loop = "body"
    /\ \E next \in {0} \cup Delays :
          /\ place' = [place EXCEPT ![t] = IF next = 0 THEN "none" ELSE "map"]
          /\ line' = [line EXCEPT ![t] = IF next = 0 THEN line[t] ELSE base + next]
    /\ loop' = "flush"
    /\ UNCHANGED <<cancelled, base, timeout>>

\* What is left of the copy goes back; the sleep is counted from now_time, and a
\* sleep of zero is epoll_wait's -1.
Wait(n) == IF n = 0 THEN Forever ELSE n

\* mutant: the sleep is counted from the end of the flush
FlushEndNow ==
    /\ loop = "flush" /\ Due = {}
    /\ place' = Move("copy", "map")
    /\ timeout' = LET left == At("copy") \cup At("map")
                  IN IF left = {} THEN Forever ELSE Wait(First(left))
    /\ loop' = "sleep"
    /\ UNCHANGED <<line, cancelled, base>>

\* mutant: what was not due is dropped with the copy
FlushEndDrops ==
    /\ loop = "flush" /\ Due = {}
    /\ place' = Move("copy", "none")
    /\ timeout' = IF At("map") = {} THEN Forever ELSE Wait(First(At("map")) - base)
    /\ loop' = "sleep"
    /\ UNCHANGED <<line, cancelled, base>>

FlushEnd == /\ loop = "flush" /\ Due = {}
            /\ place' = Move("copy", "map")
            /\ timeout' = LET left == At("copy") \cup At("map")
                          IN IF left = {} THEN Forever ELSE Wait(First(left) - base)
            /\ loop' = "sleep"
            /\ UNCHANGED <<line, cancelled, base>>

\* epoll_wait returns for the pipe when tasks are queued, for other descriptors,
\* or both, and else at the timeout.  Their callbacks, and async tasks, may post
\* delayed tasks before the loop turns.
Timeout == /\ loop = "sleep" /\ timeout = 0 /\ At("queued") = {}
           /\ loop' = "min"
           /\ UNCHANGED <<place, line, cancelled, base, timeout>>

PipeEvent == /\ loop = "sleep" /\ At("queued") # {}
             /\ place' = Move("queued", "map")
             /\ loop' = "event"
             /\ UNCHANGED <<line, cancelled, base, timeout>>

Event == /\ loop = "sleep" /\ At("queued") = {}
         /\ loop' = "event"
         /\ UNCHANGED <<place, line, cancelled, base, timeout>>

EventDone == /\ loop = "event"
             /\ loop' = "min"
             /\ UNCHANGED <<place, line, cancelled, base, timeout>>

-----------------------------------------------------------------------------
Flushing == loop \in {"flush", "body"}

Tick == /\ Flushing => base > -MaxLag
        /\ line' = [t \in Tasks |-> IF place[t] # "none" /\ line[t] > -MaxLag
                                    THEN line[t] - 1 ELSE line[t]]
        /\ base' = IF Flushing THEN base - 1 ELSE base
        /\ timeout' = IF loop = "sleep" /\ timeout > 0 THEN timeout - 1 ELSE timeout
        /\ UNCHANGED <<place, cancelled, loop>>

Loop == \/ SleepNone \/ SleepFirst \/ FlushBegin \/ RunDue \/ Return \/ FlushEnd
        \/ Timeout \/ PipeEvent \/ EventDone
Next == Loop \/ DoDelayTask \/ DoDelayHere \/ Cancel \/ Event \/ Tick

Spec == Init /\ [][Next]_vars

\* The loop's thread goes on, and so does time.
FairSpec == Spec /\ WF_vars(Loop) /\ WF_vars(Tick)

-----------------------------------------------------------------------------
TypeOK == /\ place \in [Tasks -> {"none", "queued", "map", "copy", "called"}]
          /\ line \in [Tasks -> -MaxLag..MaxDelay]
          /\ cancelled \in [Tasks -> BOOLEAN]
          /\ loop \in {"min", "flush", "body", "sleep", "event"}
          /\ base \in -MaxLag..0
          /\ timeout \in -1..(MaxDelay + MaxLag)

\* The sleep ends with the first deadline in the map, or later by at most the
\* time that the flush before it took, whoever posts a delayed task meanwhile.
SleepCovers == loop = "sleep" =>
    \A t \in At("map") : /\ timeout # Forever
                         /\ line[t] > -MaxLag => timeout <= line[t] + MaxLag

\* flushDelayTask and getMinDelay return zero, and the loop then sleeps without
\* a timeout, only when no delayed task is left.
ZeroMeansNone == loop = "sleep" /\ timeout = Forever => At("map") = {}

\* A delayed task is called, unless it is cancelled.
DelayedRuns == \A t \in Tasks :
    place[t] \in {"queued", "map", "copy"} ~> place[t] = "called" \/ cancelled[t]
=============================================================================
