--------------------------- MODULE AsyncExecutor ---------------------------
(***************************************************************************)
(* What TaskExecutorInterface promises of async and async_first: a task is *)
(* run once, tasks posted by async run in the order of posting, and a task *)
(* posted by async_first may overtake them.                                *)
(***************************************************************************)
EXTENDS Naturals

VARIABLES posted,     \* tasks are numbered in the order of posting
          waiting,    \* tasks of async that have yet to run
          urgent,     \* tasks of async_first that have yet to run
          done        \* tasks that have run

vars == <<posted, waiting, urgent, done>>

Init == posted = 0 /\ waiting = {} /\ urgent = {} /\ done = {}

Async == /\ posted' = posted + 1
         /\ waiting' = waiting \cup {posted + 1}
         /\ UNCHANGED <<urgent, done>>

AsyncFirst == /\ posted' = posted + 1
              /\ urgent' = urgent \cup {posted + 1}
              /\ UNCHANGED <<waiting, done>>

\* The one that was posted first is the next.
RunNext == \E t \in waiting : /\ \A u \in waiting : t <= u
                              /\ done' = done \cup {t}
                              /\ waiting' = waiting \ {t}
                              /\ UNCHANGED <<posted, urgent>>

RunUrgent == \E t \in urgent : /\ done' = done \cup {t}
                               /\ urgent' = urgent \ {t}
                               /\ UNCHANGED <<posted, waiting>>

Next == Async \/ AsyncFirst \/ RunNext \/ RunUrgent

Spec == Init /\ [][Next]_vars
=============================================================================
