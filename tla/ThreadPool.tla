----------------------------- MODULE ThreadPool -----------------------------
(***************************************************************************)
(* zltoolkit's ThreadPool: workers that take tasks from a TaskQueue, whose *)
(* semaphore counts the tasks and, at the end, one token per worker that   *)
(* is to leave.  A task is put into the queue and the semaphore posted in  *)
(* two steps, a worker waits for the semaphore and takes a task in two     *)
(* steps, and nothing but the number of tokens tells "no task" from        *)
(* "leave".  A task that posts with may_sync calls the new task at once,   *)
(* which is no step of the pool.                                           *)
(***************************************************************************)
EXTENDS Naturals, Sequences, FiniteSets, SequencesExt

CONSTANTS Callers,   \* threads outside the pool
          Workers,   \* _thread_num threads of the pool, started by it
          MaxTasks   \* bound: tasks posted

ASSUME ThreadsAssumption ==
    /\ IsFiniteSet(Callers) /\ IsFiniteSet(Workers) /\ Workers # {}
    /\ Callers \cap Workers = {}
ASSUME BoundAssumption == MaxTasks \in Nat

VARIABLES queue,     \* _queue
          count,     \* _sem._count
          posting,   \* the task each thread put in and has yet to post a token for; 0: none
          at,        \* where each worker is
          waitFor,   \* the task each caller waits for in sync; 0: none
          cancelled, \* tasks whose cancel() was called
          owner,     \* the thread that destroys the pool
          posted,    \* tasks posted, which numbers them
          begun,     \* tasks that were called
          doing      \* the task each worker calls

workers == <<at, doing>>
tasks == <<cancelled, posted, begun>>
vars == <<queue, count, posting, workers, waitFor, owner, tasks>>

Threads == Callers \cup Workers
Task(op, n) == [op |-> op, id |-> n]
Tasks == [op : {"async", "first"}, id : 1..MaxTasks]
Places == {"ready", "asleep", "awake", "take", "run", "gone"}
At(p) == {w \in Workers : at[w] = p}

Init == /\ queue = <<>> /\ count = 0 /\ posting = [p \in Threads |-> 0]
        /\ at = [w \in Workers |-> "ready"]
        /\ doing = [w \in Workers |-> 0]
        /\ waitFor = [c \in Callers |-> 0]
        /\ cancelled = {} /\ posted = 0 /\ begun = {}
        /\ owner = "alive"

-----------------------------------------------------------------------------
\* push_task and push_task_first: the task under the queue's lock, then a token.

Put(p, op) == /\ posted < MaxTasks
              /\ posting[p] = 0
              /\ queue' = IF op = "first" THEN <<Task(op, posted + 1)>> \o queue
                                          ELSE Append(queue, Task(op, posted + 1))
              /\ posting' = [posting EXCEPT ![p] = posted + 1]
              /\ posted' = posted + 1

Busy(c) == posting[c] # 0 \/ waitFor[c] # 0

Async(c) == /\ owner = "alive" /\ ~Busy(c)
            /\ \E op \in {"async", "first"} : Put(c, op)
            /\ UNCHANGED <<count, workers, waitFor, owner, cancelled, begun>>

\* sync waits for its task on a semaphore of its own.
Sync(c) == /\ owner = "alive" /\ ~Busy(c)
           /\ \E op \in {"async", "first"} : Put(c, op)
           /\ waitFor' = [waitFor EXCEPT ![c] = posted + 1]
           /\ UNCHANGED <<count, workers, owner, cancelled, begun>>

\* A task posts to its own pool, with may_sync = false.
AsyncHere(w) == /\ at[w] = "run"
                /\ \E op \in {"async", "first"} : Put(w, op)
                /\ UNCHANGED <<count, workers, waitFor, owner, cancelled, begun>>

\* The caller of async cancels the Task it got back: sync gives none. Cancelling
\* a task that was called is no step here.
Cancel == \E n \in (1..posted) \ (begun \cup Range(posting) \cup Range(waitFor)) :
              /\ cancelled' = cancelled \cup {n}
              /\ UNCHANGED <<queue, count, posting, workers, waitFor, owner,
                             posted, begun>>

WakeOne == IF At("asleep") = {} THEN UNCHANGED at
           ELSE \E w \in At("asleep") : at' = [at EXCEPT ![w] = "awake"]
WakeAll == at' = [w \in Workers |-> IF at[w] = "asleep" THEN "awake" ELSE at[w]]

\* mutant: nobody is woken while tokens are left
PostQuiet(p) == /\ posting[p] # 0
                /\ posting' = [posting EXCEPT ![p] = 0]
                /\ count' = count + 1
                /\ IF count = 0 THEN WakeOne ELSE UNCHANGED at
                /\ UNCHANGED <<queue, doing, waitFor, owner, tasks>>

\* mutant: the semaphore is raised and nobody is woken
PostSilent(p) == /\ posting[p] # 0
                 /\ posting' = [posting EXCEPT ![p] = 0]
                 /\ count' = count + 1
                 /\ UNCHANGED <<queue, workers, waitFor, owner, tasks>>

Post(p) == /\ posting[p] # 0
           /\ posting' = [posting EXCEPT ![p] = 0]
           /\ count' = count + 1
           /\ WakeOne
           /\ UNCHANGED <<queue, doing, waitFor, owner, tasks>>

-----------------------------------------------------------------------------
\* get_task: semaphore::wait tests the count again after every wake-up, also
\* one without a cause, and only then the queue is looked at.

\* mutant: the count is not tested again after a wake-up
WaitOnce(w) == /\ at[w] \in {"ready", "awake"}
               /\ IF count = 0 /\ at[w] = "ready"
                  THEN at' = [at EXCEPT ![w] = "asleep"] /\ UNCHANGED count
                  ELSE /\ at' = [at EXCEPT ![w] = "take"]
                       /\ count' = count - 1
               /\ UNCHANGED <<queue, posting, doing, waitFor, owner, tasks>>

Wait(w) == /\ at[w] \in {"ready", "awake"}
           /\ IF count = 0
              THEN at' = [at EXCEPT ![w] = "asleep"] /\ UNCHANGED count
              ELSE at' = [at EXCEPT ![w] = "take"] /\ count' = count - 1
           /\ UNCHANGED <<queue, posting, doing, waitFor, owner, tasks>>

Spurious(w) == /\ at[w] = "asleep"
               /\ at' = [at EXCEPT ![w] = "awake"]
               /\ UNCHANGED <<queue, count, posting, doing, waitFor, owner, tasks>>

\* mutant: a pool that ends does not take what is left
TakeOrLeave(w) ==
    /\ at[w] = "take" /\ queue # <<>>
    /\ queue' = Tail(queue)
    /\ LET n == Head(queue).id
       IN IF n \in cancelled \/ owner # "alive"
          THEN /\ at' = [at EXCEPT ![w] = "ready"]
               /\ UNCHANGED <<doing, begun>>
          ELSE /\ at' = [at EXCEPT ![w] = "run"]
               /\ doing' = [doing EXCEPT ![w] = n]
               /\ begun' = begun \cup {n}
    /\ UNCHANGED <<count, posting, waitFor, owner, cancelled, posted>>

\* mutant: the newest task is taken
TakeNewest(w) ==
    /\ at[w] = "take" /\ queue # <<>>
    /\ queue' = Front(queue)
    /\ at' = [at EXCEPT ![w] = "run"]
    /\ doing' = [doing EXCEPT ![w] = Last(queue).id]
    /\ begun' = begun \cup {Last(queue).id}
    /\ UNCHANGED <<count, posting, waitFor, owner, cancelled, posted>>

\* A cancelled task is taken and nothing is called.
Take(w) == /\ at[w] = "take" /\ queue # <<>>
           /\ queue' = Tail(queue)
           /\ LET n == Head(queue).id
              IN IF n \in cancelled
                 THEN /\ at' = [at EXCEPT ![w] = "ready"]
                      /\ UNCHANGED <<doing, begun>>
                 ELSE /\ at' = [at EXCEPT ![w] = "run"]
                      /\ doing' = [doing EXCEPT ![w] = n]
                      /\ begun' = begun \cup {n}
           /\ UNCHANGED <<count, posting, waitFor, owner, cancelled, posted>>

\* A worker that finds no task leaves.
Leave(w) == /\ at[w] = "take" /\ queue = <<>>
            /\ at' = [at EXCEPT ![w] = "gone"]
            /\ UNCHANGED <<queue, count, posting, doing, waitFor, owner, tasks>>

\* The task returns or throws; if it was that of a sync, its caller goes on.
Finish(w) == /\ at[w] = "run" /\ posting[w] = 0
             /\ at' = [at EXCEPT ![w] = "ready"]
             /\ doing' = [doing EXCEPT ![w] = 0]
             /\ waitFor' = [c \in Callers |-> IF waitFor[c] = doing[w] THEN 0
                                                                       ELSE waitFor[c]]
             /\ UNCHANGED <<queue, count, posting, owner, tasks>>

-----------------------------------------------------------------------------
\* ~ThreadPool: push_exit posts a token for every worker, then all are joined.

\* mutant: one worker is woken and not all
ShutdownOne == /\ owner = "alive" /\ \A c \in Callers : ~Busy(c)
               /\ owner' = "join"
               /\ count' = count + Cardinality(Workers)
               /\ WakeOne
               /\ UNCHANGED <<queue, posting, doing, waitFor, tasks>>

Shutdown == /\ owner = "alive" /\ \A c \in Callers : ~Busy(c)
            /\ owner' = "join"
            /\ count' = count + Cardinality(Workers)
            /\ IF Cardinality(Workers) = 1 THEN WakeOne ELSE WakeAll
            /\ UNCHANGED <<queue, posting, doing, waitFor, tasks>>

Joined == /\ owner = "join" /\ At("gone") = Workers
          /\ owner' = "joined"
          /\ UNCHANGED <<queue, count, posting, workers, waitFor, tasks>>

Caller(c) == Async(c) \/ Sync(c)
Worker(w) == Wait(w) \/ Take(w) \/ Leave(w) \/ Finish(w)

Next == \/ \E c \in Callers : Caller(c)
        \/ \E w \in Workers : Worker(w) \/ AsyncHere(w) \/ Spurious(w)
        \/ \E p \in Threads : Post(p)
        \/ Cancel \/ Shutdown \/ Joined

Spec == Init /\ [][Next]_vars

\* Every worker goes on when it can, and so does a thread that put in a task
\* and a destructor that waits; the semaphore's lock starves nobody for ever.
FairSpec == /\ Spec
            /\ \A w \in Workers : WF_vars(Worker(w))
            /\ \A p \in Threads : WF_vars(Post(p))
            /\ WF_vars(Joined)

-----------------------------------------------------------------------------
TypeOK == /\ queue \in Seq(Tasks)
          /\ count \in Nat
          /\ posting \in [Threads -> 0..MaxTasks]
          /\ at \in [Workers -> Places]
          /\ doing \in [Workers -> 0..MaxTasks]
          /\ waitFor \in [Callers -> 0..MaxTasks]
          /\ cancelled \in SUBSET (1..MaxTasks) /\ begun \in SUBSET (1..MaxTasks)
          /\ owner \in {"alive", "join", "joined"}
          /\ posted \in 0..MaxTasks

\* A worker never takes an empty queue for the end while the pool lives: a task
\* is in the queue before its token, and each token is taken once.
NoEarlyLeave == At("gone") # {} => owner # "alive"

\* While a worker sleeps, every token has a worker that was woken for it: no
\* task waits for the next post although a worker is free.
SleepersCovered == At("asleep") # {} => count <= Cardinality(At("awake"))

\* When the destructor returns no task is left that was neither called nor
\* cancelled, also none that a task posted while the pool was ending.
Drained == owner = "joined" =>
    queue = <<>> /\ \A n \in 1..posted : n \in begun \cup cancelled

\* The pool's queue keeps the promise of async and async_first: each task is
\* taken once, those of async in their order, by whichever worker.
Ids(op) == {t.id : t \in {u \in Range(queue) : u.op = op}}
Executor == INSTANCE AsyncExecutor
            WITH waiting <- Ids("async"), urgent <- Ids("first"),
                 done <- (1..posted) \ {t.id : t \in Range(queue)}
ImplementsExecutor == Executor!Spec

\* A caller of sync goes on, whatever else is posted, cancelled or ended
\* (finitely often: async_first could overtake it for ever).
SyncReturns == \A c \in Callers : waitFor[c] # 0 ~> waitFor[c] = 0

\* The destructor returns: every worker sees a token and leaves.
JoinEnds == owner = "join" ~> owner = "joined"

\* Nobody who waits for the pool, in sync or in the destructor, waits for ever.
CallsReturn == SyncReturns /\ JoinEnds
=============================================================================
