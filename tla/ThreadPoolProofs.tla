-------------------------- MODULE ThreadPoolProofs --------------------------
(***************************************************************************)
(* Theorems about ThreadPool, for any finite set of callers and workers    *)
(* and any number of tasks.  The tokens of the semaphore are accounted     *)
(* for by Tokens: those left, those a worker holds and those a poster owes *)
(* are as many as the tasks in the queue and, once the pool ends, the      *)
(* workers that have yet to leave.                                         *)
(***************************************************************************)
EXTENDS ThreadPool, SequenceLemmas, TLAPS, FiniteSetTheorems, SequenceTheorems

-----------------------------------------------------------------------------
(* Where the threads are, and how many there are. *)

LEMMA AtFinite ==
    ASSUME NEW p
    PROVE  /\ At(p) \subseteq Workers
           /\ IsFiniteSet(At(p)) /\ Cardinality(At(p)) \in Nat
<1>1. IsFiniteSet(Workers)
  BY ThreadsAssumption
<1>2. At(p) \subseteq Workers
  BY DEF At
<1> QED BY <1>1, <1>2, FS_Subset, FS_CardinalityType

\* A worker that goes from one place to another.
LEMMA Moved ==
    ASSUME TypeOK, NEW w \in Workers, NEW o \in Places, NEW q \in Places,
           at[w] = o, o # q, at' = [at EXCEPT ![w] = q]
    PROVE  /\ \A p \in Places \ {o, q} : At(p)' = At(p)
           /\ At(q)' = At(q) \cup {w} /\ At(o)' = At(o) \ {w}
           /\ Cardinality(At(q)') = Cardinality(At(q)) + 1
           /\ Cardinality(At(o)') = Cardinality(At(o)) - 1
           /\ Cardinality(At(o)) >= 1
<1>1. at \in [Workers -> Places]
  BY DEF TypeOK
<1>2. \A v \in Workers : at'[v] = IF v = w THEN q ELSE at[v]
  BY <1>1
<1>3. \A p \in Places \ {o, q} : At(p)' = At(p)
  BY <1>2 DEF At
<1>4. At(q)' = At(q) \cup {w} /\ w \notin At(q)
  BY <1>2 DEF At
<1>5. At(o)' = At(o) \ {w} /\ w \in At(o)
  BY <1>2 DEF At
<1>6. IsFiniteSet(At(q)) /\ IsFiniteSet(At(o)) /\ Cardinality(At(o)) \in Nat
  BY AtFinite
<1>7. Cardinality(At(q) \cup {w}) = Cardinality(At(q)) + 1
  BY <1>4, <1>6, FS_AddElement
<1>8. Cardinality(At(o) \ {w}) = Cardinality(At(o)) - 1
  BY <1>5, <1>6, FS_RemoveElement
<1>9. Cardinality(At(o)) # 0
  BY <1>5, <1>6, FS_EmptySet
<1>10. Cardinality(At(o)) >= 1
  BY <1>6, <1>9
<1> QED BY <1>3, <1>4, <1>5, <1>7, <1>8, <1>10

\* Threads that owe the semaphore a token.
Owing == {p \in Threads : posting[p] # 0}

LEMMA OwingFinite == IsFiniteSet(Owing) /\ Cardinality(Owing) \in Nat
<1>1. IsFiniteSet(Threads) /\ Owing \subseteq Threads
  BY ThreadsAssumption, FS_Union DEF Threads, Owing
<1> QED BY <1>1, FS_Subset, FS_CardinalityType

LEMMA Owes ==
    ASSUME TypeOK, NEW p \in Threads, NEW n \in Nat \ {0}, posting[p] = 0,
           posting' = [posting EXCEPT ![p] = n]
    PROVE  Cardinality(Owing') = Cardinality(Owing) + 1
<1>1. Owing' = Owing \cup {p} /\ p \notin Owing
  BY DEF Owing, TypeOK
<1> QED BY <1>1, OwingFinite, FS_AddElement

LEMMA Pays ==
    ASSUME TypeOK, NEW p \in Threads, posting[p] # 0,
           posting' = [posting EXCEPT ![p] = 0]
    PROVE  /\ Cardinality(Owing') = Cardinality(Owing) - 1
           /\ Cardinality(Owing) >= 1
<1>1. Owing' = Owing \ {p} /\ p \in Owing
  BY DEF Owing, TypeOK
<1>2. Cardinality(Owing') = Cardinality(Owing) - 1
  BY <1>1, OwingFinite, FS_RemoveElement
<1>3. Cardinality(Owing) # 0
  BY <1>1, OwingFinite, FS_EmptySet
<1> QED BY <1>2, <1>3, OwingFinite

-----------------------------------------------------------------------------
(* The steps of the pool, split as their proofs need them. *)

\* Somebody puts in a task.
Puts == \/ \E c \in Callers : Async(c) \/ Sync(c)
        \/ \E w \in Workers : AsyncHere(w)

\* What a thread that puts in a task does, whoever it is.
LEMMA PutStep ==
    ASSUME Puts
    PROVE  \E p \in Threads, op \in {"async", "first"} :
              /\ Put(p, op)
              /\ \/ owner = "alive" /\ p \in Callers
                 \/ p \in Workers /\ at[p] = "run"
              /\ UNCHANGED <<count, workers, owner, cancelled, begun>>
  BY DEF Puts, Async, Sync, AsyncHere, Threads

\* The queue after each of its operations.
LEMMA PutQueue ==
    ASSUME TypeOK, NEW p, NEW op \in {"async", "first"}, Put(p, op)
    PROVE  /\ posted' \in 1..MaxTasks /\ posted' = posted + 1
           /\ queue' \in Seq(Tasks) /\ Len(queue') = Len(queue) + 1
<1> DEFINE t == Task(op, posted + 1)
<1>1. /\ posted + 1 \in 1..MaxTasks /\ posted' = posted + 1
      /\ queue \in Seq(Tasks)
  BY BoundAssumption DEF TypeOK, Put
<1>2. t \in Tasks
  BY <1>1 DEF Task, Tasks
<1>3. queue' = <<t>> \o queue \/ queue' = Append(queue, t)
  BY DEF Put
<1> HIDE DEF t
<1>4. Append(queue, t) \in Seq(Tasks) /\ Len(Append(queue, t)) = Len(queue) + 1
  BY <1>1, <1>2, AppendProperties
<1>5. <<t>> \in Seq(Tasks) /\ Len(<<t>>) = 1
  BY <1>2
<1>6. <<t>> \o queue \in Seq(Tasks) /\ Len(<<t>> \o queue) = 1 + Len(queue)
  BY <1>1, <1>5, ConcatProperties
<1>7. Len(queue) \in Nat
  BY <1>1, LenProperties
<1>8. CASE queue' = <<t>> \o queue
  BY <1>1, <1>6, <1>7, <1>8
<1>9. CASE queue' = Append(queue, t)
  BY <1>1, <1>4, <1>9
<1> QED BY <1>3, <1>8, <1>9

LEMMA TakeQueue ==
    ASSUME TypeOK, queue # <<>>
    PROVE  /\ Head(queue) \in Tasks /\ Tail(queue) \in Seq(Tasks)
           /\ Len(Tail(queue)) = Len(queue) - 1 /\ Len(queue) \in Nat \ {0}
<1>1. queue \in Seq(Tasks)
  BY DEF TypeOK
<1> QED BY <1>1, HeadTailProperties, LenProperties, EmptySeq

LEMMA TypeStep == TypeOK /\ [Next]_vars => TypeOK'
<1> SUFFICES ASSUME TypeOK, [Next]_vars PROVE TypeOK'
  OBVIOUS
<1>1. ASSUME Puts PROVE TypeOK'
  <2>1. PICK p \in Threads, op \in {"async", "first"} :
              /\ Put(p, op)
              /\ UNCHANGED <<count, workers, owner, cancelled, begun>>
    BY <1>1, PutStep
  <2>2. posted' \in 1..MaxTasks /\ posted' = posted + 1 /\ queue' \in Seq(Tasks)
    BY <2>1, PutQueue
  <2>3. posting' \in [Threads -> 0..MaxTasks]
    BY <2>1, <2>2 DEF TypeOK, Put
  <2>4. waitFor' \in [Callers -> 0..MaxTasks]
    <3>1. \/ waitFor' = waitFor
          \/ \E c \in Callers : waitFor' = [waitFor EXCEPT ![c] = posted + 1]
      BY <1>1 DEF Puts, Async, Sync, AsyncHere
    <3>2. waitFor \in [Callers -> 0..MaxTasks] /\ posted + 1 \in 0..MaxTasks
      BY <2>2 DEF TypeOK
    <3> QED BY <3>1, <3>2
  <2> QED BY <2>1, <2>2, <2>3, <2>4 DEF TypeOK, workers
<1>2. ASSUME NEW p \in Threads, Post(p) PROVE TypeOK'
  <2>1. at' \in [Workers -> Places]
    BY <1>2 DEF Post, WakeOne, At, TypeOK, Places
  <2>2. posting' \in [Threads -> 0..MaxTasks] /\ count' \in Nat
    BY <1>2, BoundAssumption DEF Post, TypeOK
  <2> QED BY <1>2, <2>1, <2>2 DEF Post, TypeOK, tasks
<1>3. ASSUME NEW w \in Workers, Wait(w) \/ Leave(w) \/ Spurious(w) PROVE TypeOK'
  <2>1. at' \in [Workers -> Places]
    BY <1>3 DEF Wait, Leave, Spurious, TypeOK, Places
  <2>2. count' \in Nat
    BY <1>3 DEF Wait, Leave, Spurious, TypeOK
  <2> QED BY <1>3, <2>1, <2>2 DEF Wait, Leave, Spurious, TypeOK, tasks
<1>4. ASSUME NEW w \in Workers, Take(w) PROVE TypeOK'
  <2>1. Head(queue) \in Tasks /\ queue' \in Seq(Tasks)
    BY <1>4, TakeQueue DEF Take
  <2>2. Head(queue).id \in 1..MaxTasks
    BY <2>1 DEF Tasks
  <2>3. at' \in [Workers -> Places]
    BY <1>4 DEF Take, TypeOK, Places
  <2>4. doing' \in [Workers -> 0..MaxTasks] /\ begun' \in SUBSET (1..MaxTasks)
    <3>1. \/ UNCHANGED <<doing, begun>>
          \/ /\ doing' = [doing EXCEPT ![w] = Head(queue).id]
             /\ begun' = begun \cup {Head(queue).id}
      BY <1>4 DEF Take
    <3>2. /\ doing \in [Workers -> 0..MaxTasks] /\ begun \in SUBSET (1..MaxTasks)
          /\ Head(queue).id \in 0..MaxTasks
      BY <2>2 DEF TypeOK
    <3> QED BY <2>2, <3>1, <3>2
  <2> QED BY <1>4, <2>1, <2>3, <2>4 DEF Take, TypeOK
<1>5. ASSUME NEW w \in Workers, Finish(w) PROVE TypeOK'
  <2>1. at' \in [Workers -> Places] /\ doing' \in [Workers -> 0..MaxTasks]
    BY <1>5, BoundAssumption DEF Finish, TypeOK, Places
  <2>2. waitFor' \in [Callers -> 0..MaxTasks]
    BY <1>5, BoundAssumption DEF Finish, TypeOK
  <2> QED BY <1>5, <2>1, <2>2 DEF Finish, TypeOK, tasks
<1>6. ASSUME Cancel PROVE TypeOK'
  <2>1. PICK n \in 1..posted : cancelled' = cancelled \cup {n}
    BY <1>6 DEF Cancel
  <2>2. n \in 1..MaxTasks
    BY <2>1, BoundAssumption DEF TypeOK
  <2> QED BY <1>6, <2>1, <2>2 DEF Cancel, TypeOK, workers
<1>7. ASSUME Shutdown PROVE TypeOK'
  <2>1. at' \in [Workers -> Places]
    BY <1>7 DEF Shutdown, WakeOne, WakeAll, At, TypeOK, Places
  <2>2. count' \in Nat
    BY <1>7, ThreadsAssumption, FS_CardinalityType DEF Shutdown, TypeOK
  <2> QED BY <1>7, <2>1, <2>2 DEF Shutdown, TypeOK, tasks
<1>8. ASSUME Joined PROVE TypeOK'
  BY <1>8 DEF Joined, TypeOK, workers, tasks
<1>9. CASE UNCHANGED vars
  BY <1>9 DEF TypeOK, vars, workers, tasks
<1> QED BY <1>1, <1>2, <1>3, <1>4, <1>5, <1>6, <1>7, <1>8, <1>9
        DEF Next, Caller, Worker, Puts, Threads

LEMMA TypeInit == Init => TypeOK
<1>1. <<>> \in Seq(Tasks)
  OBVIOUS
<1> QED BY <1>1, BoundAssumption DEF Init, TypeOK, Places

\* Every variable keeps its type; the semaphore, an unsigned number, is never
\* taken below zero.
THEOREM TypeOKHolds == Spec => []TypeOK
  BY TypeInit, TypeStep, PTL DEF Spec

-----------------------------------------------------------------------------
(* No worker mistakes a token for the end.                                 *)

\* Workers that have yet to leave, once the pool ends.
ToLeave == IF owner = "alive" THEN 0
           ELSE Cardinality(Workers) - Cardinality(At("gone"))

Tokens == count + Cardinality(At("take")) + Cardinality(Owing)
          = Len(queue) + ToLeave

TokensInv == TypeOK /\ Tokens /\ NoEarlyLeave

\* The numbers Tokens adds up are numbers.
LEMMA TokenTypes ==
    ASSUME TypeOK
    PROVE  /\ count \in Nat /\ Len(queue) \in Nat
           /\ Cardinality(Owing) \in Nat /\ Cardinality(Workers) \in Nat
           /\ \A p \in Places : Cardinality(At(p)) \in Nat
<1>1. count \in Nat /\ Len(queue) \in Nat
  BY LenProperties DEF TypeOK
<1>2. Cardinality(Workers) \in Nat
  BY ThreadsAssumption, FS_CardinalityType
<1> QED BY <1>1, <1>2, OwingFinite, AtFinite

\* A worker that is woken or goes to sleep holds no token.
LEMMA SleepStep ==
    ASSUME TypeOK,
           \/ WakeOne \/ WakeAll
           \/ \E w \in Workers : \/ /\ at[w] \in {"ready", "awake"}
                                    /\ at' = [at EXCEPT ![w] = "asleep"]
                                 \/ Spurious(w)
    PROVE  At("take")' = At("take") /\ At("gone")' = At("gone")
<1>1. \A w \in Workers : \/ at'[w] = at[w]
                         \/ at[w] # "take" /\ at'[w] # "take"
                            /\ at[w] # "gone" /\ at'[w] # "gone"
  BY DEF WakeOne, WakeAll, Spurious, At, TypeOK
<1> QED BY <1>1 DEF At

LEMMA TokensStep == TokensInv /\ [Next]_vars => TokensInv'
<1> SUFFICES ASSUME TokensInv, [Next]_vars PROVE TokensInv'
  OBVIOUS
<1>0. TypeOK /\ TypeOK' /\ Tokens /\ NoEarlyLeave
  BY TypeStep DEF TokensInv
<1> SUFFICES Tokens' /\ NoEarlyLeave'
  BY <1>0 DEF TokensInv
<1>t. /\ count \in Nat /\ Len(queue) \in Nat
      /\ Cardinality(Owing) \in Nat /\ Cardinality(Workers) \in Nat
      /\ Cardinality(At("take")) \in Nat /\ Cardinality(At("gone")) \in Nat
  BY <1>0, TokenTypes DEF Places
<1>1. ASSUME Puts PROVE Tokens' /\ NoEarlyLeave'
  <2>1. PICK p \in Threads, op \in {"async", "first"} :
              /\ Put(p, op)
              /\ UNCHANGED <<count, workers, owner, cancelled, begun>>
    BY <1>1, PutStep
  <2>2. Len(queue') = Len(queue) + 1 /\ posted + 1 \in Nat \ {0}
    BY <1>0, <2>1, PutQueue
  <2>3. Cardinality(Owing') = Cardinality(Owing) + 1
    BY <1>0, <2>1, <2>2, Owes DEF Put
  <2>4. UNCHANGED <<count, owner, At("take"), At("gone")>>
    BY <2>1 DEF workers, At
  <2>5. ToLeave' = ToLeave /\ ToLeave \in Int
    BY <1>t, <2>4 DEF ToLeave
  <2>6. Tokens'
    BY <1>0, <1>t, <2>2, <2>3, <2>4, <2>5 DEF Tokens
  <2>7. NoEarlyLeave'
    BY <1>0, <2>4 DEF NoEarlyLeave
  <2> QED BY <2>6, <2>7
<1>2. ASSUME NEW p \in Threads, Post(p) PROVE Tokens' /\ NoEarlyLeave'
  <2>1. UNCHANGED <<At("take"), At("gone")>>
    BY <1>0, <1>2, SleepStep DEF Post
  <2>2. Cardinality(Owing') = Cardinality(Owing) - 1
    BY <1>0, <1>2, Pays DEF Post
  <2>3. count' = count + 1 /\ UNCHANGED <<queue, owner>>
    BY <1>2 DEF Post
  <2> QED BY <1>0, <1>t, <2>1, <2>2, <2>3 DEF Tokens, ToLeave, NoEarlyLeave
<1>3. ASSUME NEW w \in Workers, Wait(w) PROVE Tokens' /\ NoEarlyLeave'
  <2>1. UNCHANGED <<queue, owner, Owing>>
    BY <1>3 DEF Wait, Owing
  <2>2. CASE count = 0
    <3>1. UNCHANGED <<count, At("take"), At("gone")>>
      BY <1>0, <1>3, <2>2, SleepStep DEF Wait
    <3> QED BY <1>0, <2>1, <3>1 DEF Tokens, ToLeave, NoEarlyLeave
  <2>3. CASE count # 0
    <3>1. count' = count - 1
      BY <1>3, <2>3 DEF Wait
    <3>2. /\ Cardinality(At("take")') = Cardinality(At("take")) + 1
          /\ At("gone")' = At("gone")
      <4>1. /\ at[w] \in {"ready", "awake"}
            /\ at' = [at EXCEPT ![w] = "take"]
        BY <1>3, <2>3 DEF Wait
      <4> QED BY <1>0, <4>1, Moved DEF Places
    <3> QED BY <1>0, <1>t, <2>1, <3>1, <3>2 DEF Tokens, ToLeave, NoEarlyLeave
  <2> QED BY <2>2, <2>3
<1>4. ASSUME NEW w \in Workers, Spurious(w) PROVE Tokens' /\ NoEarlyLeave'
  <2>1. UNCHANGED <<At("take"), At("gone")>>
    BY <1>0, <1>4, SleepStep
  <2>2. UNCHANGED <<queue, count, owner, Owing>>
    BY <1>4 DEF Spurious, Owing
  <2> QED BY <1>0, <2>1, <2>2 DEF Tokens, ToLeave, NoEarlyLeave
<1>5. ASSUME NEW w \in Workers, Take(w) PROVE Tokens' /\ NoEarlyLeave'
  <2>1. Len(queue') = Len(queue) - 1
    BY <1>0, <1>5, TakeQueue DEF Take
  <2>2. UNCHANGED <<count, owner, Owing>>
    BY <1>5 DEF Take, Owing
  <2>3. PICK q \in {"ready", "run"} : at' = [at EXCEPT ![w] = q]
    BY <1>5 DEF Take
  <2>4. /\ Cardinality(At("take")') = Cardinality(At("take")) - 1
        /\ At("gone")' = At("gone")
    BY <1>0, <1>5, <2>3, Moved DEF Places, Take
  <2> QED BY <1>0, <1>t, <2>1, <2>2, <2>4 DEF Tokens, ToLeave, NoEarlyLeave
<1>6. ASSUME NEW w \in Workers, Leave(w) PROVE Tokens' /\ NoEarlyLeave'
  <2>1. /\ Cardinality(At("take")') = Cardinality(At("take")) - 1
        /\ Cardinality(At("gone")') = Cardinality(At("gone")) + 1
        /\ Cardinality(At("take")) >= 1
    BY <1>0, <1>6, Moved DEF Places, Leave
  <2>2. UNCHANGED <<queue, count, owner, Owing>>
    BY <1>6 DEF Leave, Owing
  <2>3. Len(queue) = 0
    BY <1>6 DEF Leave
  <2>4. owner # "alive"
    BY <1>0, <1>t, <2>1, <2>3 DEF Tokens, ToLeave
  <2> QED BY <1>0, <1>t, <2>1, <2>2, <2>4 DEF Tokens, ToLeave, NoEarlyLeave
<1>7. ASSUME NEW w \in Workers, Finish(w) PROVE Tokens' /\ NoEarlyLeave'
  <2>1. UNCHANGED <<At("take"), At("gone")>>
    BY <1>0, <1>7, Moved DEF Places, Finish
  <2>2. UNCHANGED <<queue, count, owner, Owing>>
    BY <1>7 DEF Finish, Owing
  <2> QED BY <1>0, <2>1, <2>2 DEF Tokens, ToLeave, NoEarlyLeave
<1>8. ASSUME Shutdown PROVE Tokens' /\ NoEarlyLeave'
  <2>1. UNCHANGED <<At("take"), At("gone")>>
    BY <1>0, <1>8, SleepStep DEF Shutdown
  <2>2. UNCHANGED <<queue, Owing>> /\ owner = "alive" /\ owner' = "join"
    BY <1>8 DEF Shutdown, Owing
  <2>3. count' = count + Cardinality(Workers)
    BY <1>8 DEF Shutdown
  <2>4. Cardinality(At("gone")) = 0
    BY <1>0, <2>2, FS_EmptySet DEF NoEarlyLeave
  <2> QED BY <1>0, <1>t, <2>1, <2>2, <2>3, <2>4 DEF Tokens, ToLeave, NoEarlyLeave
<1>9. ASSUME Cancel \/ Joined \/ UNCHANGED vars PROVE Tokens' /\ NoEarlyLeave'
  <2>1. UNCHANGED <<queue, count, Owing, At("take"), At("gone")>>
    BY <1>9 DEF Cancel, Joined, vars, workers, Owing, At
  <2>2. owner' = owner \/ (owner = "join" /\ owner' = "joined")
    BY <1>9 DEF Cancel, Joined, vars
  <2> QED BY <1>0, <2>1, <2>2 DEF Tokens, ToLeave, NoEarlyLeave
<1> QED BY <1>1, <1>2, <1>3, <1>4, <1>5, <1>6, <1>7, <1>8, <1>9
        DEF Next, Caller, Worker, Puts, Threads

LEMMA TokensInit == Init => TokensInv
<1> SUFFICES ASSUME Init PROVE Tokens /\ NoEarlyLeave
  BY TypeInit DEF TokensInv
<1>1. At("take") = {} /\ At("gone") = {} /\ Owing = {}
  BY DEF Init, At, Owing
<1>2. Cardinality(At("take")) = 0 /\ Cardinality(Owing) = 0
  BY <1>1, FS_EmptySet
<1>3. count = 0 /\ Len(queue) = 0 /\ owner = "alive"
  BY DEF Init
<1>4. Tokens
  BY <1>2, <1>3 DEF Tokens, ToLeave
<1> QED BY <1>1, <1>4 DEF NoEarlyLeave

\* No worker leaves while the pool lives: get_task never finds the queue empty
\* behind a token of push_task, in whatever order threads put in, post and take.
THEOREM NoEarlyLeaveHolds == Spec => []NoEarlyLeave
<1>1. TokensInv => NoEarlyLeave
  BY DEF TokensInv
<1> QED BY <1>1, TokensInit, TokensStep, PTL DEF Spec

-----------------------------------------------------------------------------
(* No task waits for the next post while a worker sleeps.                  *)

SleepersInv == TypeOK /\ SleepersCovered

\* With nobody woken and nobody newly asleep there is no more to cover.
LEMMA SleepersFrame ==
    ASSUME SleepersCovered,
           count' = count, At("asleep")' = At("asleep"), At("awake")' = At("awake")
    PROVE  SleepersCovered'
  BY DEF SleepersCovered

\* A token and one sleeper woken for it.
LEMMA WokenOne ==
    ASSUME TypeOK, SleepersCovered, WakeOne, count' = count + 1
    PROVE  SleepersCovered'
<1>0. /\ count \in Nat /\ Cardinality(At("awake")) \in Nat
  BY TokenTypes DEF TypeOK, Places
<1>1. CASE At("asleep") = {}
  BY <1>1 DEF WakeOne, At, SleepersCovered
<1>2. CASE At("asleep") # {}
  <2>1. PICK w \in At("asleep") : at' = [at EXCEPT ![w] = "awake"]
    BY <1>2 DEF WakeOne
  <2>2. w \in Workers /\ at[w] = "asleep"
    BY <2>1 DEF At
  <2>3. Cardinality(At("awake")') = Cardinality(At("awake")) + 1
    BY <2>1, <2>2, Moved DEF Places
  <2> QED BY <1>0, <1>2, <2>3 DEF SleepersCovered
<1> QED BY <1>1, <1>2

LEMMA SleepersStep == SleepersInv /\ [Next]_vars => SleepersInv'
<1> SUFFICES ASSUME SleepersInv, [Next]_vars PROVE SleepersCovered'
  BY TypeStep DEF SleepersInv
<1>0. /\ TypeOK /\ SleepersCovered
      /\ count \in Nat /\ Cardinality(At("awake")) \in Nat
  BY TokenTypes DEF SleepersInv, TypeOK, Places
<1>1. ASSUME Puts \/ Cancel \/ Joined \/ UNCHANGED vars PROVE SleepersCovered'
  <2>1. UNCHANGED <<count, at>>
    BY <1>1 DEF Puts, Async, Sync, AsyncHere, Cancel, Joined, vars, workers
  <2> QED BY <1>0, <2>1, SleepersFrame DEF At
<1>2. ASSUME NEW p \in Threads, Post(p) PROVE SleepersCovered'
  BY <1>0, <1>2, WokenOne DEF Post
<1>3. ASSUME NEW w \in Workers, Wait(w) PROVE SleepersCovered'
  <2>1. CASE count = 0
    <3>1. count' = 0
      BY <1>3, <2>1 DEF Wait
    <3>2. TypeOK'
      BY TypeStep DEF SleepersInv
    <3>3. Cardinality(At("awake")') >= 0
      <4>1. At("awake")' \subseteq Workers
        BY DEF At
      <4>2. IsFiniteSet(At("awake")')
        BY <4>1, ThreadsAssumption, FS_Subset
      <4>3. Cardinality(At("awake")') \in Nat
        BY <4>2, FS_CardinalityType
      <4> QED BY <4>3
    <3> QED BY <3>1, <3>3 DEF SleepersCovered
  <2>2. CASE count # 0
    <3>1. /\ count' = count - 1 /\ at[w] \in {"ready", "awake"}
          /\ at' = [at EXCEPT ![w] = "take"]
      BY <1>3, <2>2 DEF Wait
    <3>2. At("asleep")' = At("asleep")
      BY <1>0, <3>1, Moved DEF Places
    <3>3. \/ At("awake")' = At("awake")
          \/ Cardinality(At("awake")') = Cardinality(At("awake")) - 1
      BY <1>0, <3>1, Moved DEF Places
    <3> QED BY <1>0, <3>1, <3>2, <3>3 DEF SleepersCovered
  <2> QED BY <2>1, <2>2
<1>4. ASSUME NEW w \in Workers, Spurious(w) PROVE SleepersCovered'
  <2>1. /\ at[w] = "asleep" /\ at' = [at EXCEPT ![w] = "awake"] /\ count' = count
        /\ At("asleep") # {}
    BY <1>4 DEF Spurious, At
  <2>2. Cardinality(At("awake")') = Cardinality(At("awake")) + 1
    BY <1>0, <2>1, Moved DEF Places
  <2> QED BY <1>0, <2>1, <2>2 DEF SleepersCovered
<1>5. ASSUME NEW w \in Workers, Take(w) \/ Leave(w) \/ Finish(w)
      PROVE  SleepersCovered'
  <2>1. PICK o \in {"take", "run"}, q \in {"ready", "run", "gone"} :
           at[w] = o /\ o # q /\ at' = [at EXCEPT ![w] = q]
    BY <1>5 DEF Take, Leave, Finish
  <2>2. UNCHANGED <<count, At("asleep"), At("awake")>>
    BY <1>0, <1>5, <2>1, Moved DEF Places, Take, Leave, Finish
  <2> QED BY <1>0, <2>2, SleepersFrame
<1>6. ASSUME Shutdown PROVE SleepersCovered'
  <2>1. CASE Cardinality(Workers) = 1
    BY <1>0, <1>6, <2>1, WokenOne DEF Shutdown
  <2>2. CASE Cardinality(Workers) # 1
    <3>1. \A w \in Workers : at'[w] # "asleep"
      BY <1>6, <2>2 DEF Shutdown, WakeAll
    <3> QED BY <3>1 DEF SleepersCovered, At
  <2> QED BY <2>1, <2>2
<1> QED BY <1>1, <1>2, <1>3, <1>4, <1>5, <1>6
        DEF Next, Caller, Worker, Puts, Threads

LEMMA SleepersInit == Init => SleepersInv
<1>1. Init => At("asleep") = {}
  BY DEF Init, At
<1> QED BY <1>1, TypeInit DEF SleepersInv, SleepersCovered

\* A post wakes a sleeper for every token that nobody was woken for: with one
\* notify_one per task no worker sleeps on while a task waits.
THEOREM SleepersCoveredHolds == Spec => []SleepersCovered
<1>1. SleepersInv => SleepersCovered
  BY DEF SleepersInv
<1> QED BY <1>1, SleepersInit, SleepersStep, PTL DEF Spec

-----------------------------------------------------------------------------
(* No task is lost, also none that was posted while the pool was ending.   *)

Queued == {t.id : t \in Range(queue)}
Accounted == \A n \in 1..posted : n \in begun \cup cancelled \cup Queued
LastLeft == At("gone") = Workers => queue = <<>>
JoinedLeft == owner = "joined" => At("gone") = Workers

DrainedInv == TypeOK /\ NoEarlyLeave /\ Accounted /\ LastLeft /\ JoinedLeft

\* What is put in is queued, and what is taken was the queue's.
LEMMA PutQueued ==
    ASSUME TypeOK, NEW p, NEW op \in {"async", "first"}, Put(p, op)
    PROVE  Queued' = Queued \cup {posted + 1}
<1> DEFINE t == Task(op, posted + 1)
<1>1. queue \in Seq(Tasks) /\ posted + 1 \in 1..MaxTasks
  BY BoundAssumption DEF TypeOK, Put
<1>2. t \in Tasks /\ t.id = posted + 1
  BY <1>1 DEF Task, Tasks
<1>3. queue' = <<t>> \o queue \/ queue' = Append(queue, t)
  BY DEF Put
<1> HIDE DEF t
<1>4. Range(<<t>> \o queue) = Range(queue) \cup {t}
  BY <1>1, <1>2, RangePrepend
<1>5. Range(Append(queue, t)) = Range(queue) \cup {t}
  BY <1>1, <1>2, RangeAppend
<1>6. Range(queue') = Range(queue) \cup {t}
  BY <1>3, <1>4, <1>5
<1> QED BY <1>2, <1>6 DEF Queued

LEMMA TakeQueued ==
    ASSUME TypeOK, queue # <<>>, queue' = Tail(queue)
    PROVE  Queued = Queued' \cup {Head(queue).id}
<1>1. Range(queue) = Range(queue') \cup {Head(queue)}
  BY RangeTail DEF TypeOK
<1> QED BY <1>1 DEF Queued

LEMMA DrainedStep == DrainedInv /\ [Next]_vars /\ NoEarlyLeave' => DrainedInv'
<1> SUFFICES ASSUME DrainedInv, [Next]_vars, NoEarlyLeave'
             PROVE  Accounted' /\ LastLeft' /\ JoinedLeft'
  BY TypeStep DEF DrainedInv
<1>0. TypeOK /\ NoEarlyLeave /\ Accounted /\ LastLeft /\ JoinedLeft
  BY DEF DrainedInv
<1>1. ASSUME Puts PROVE Accounted' /\ LastLeft' /\ JoinedLeft'
  <2>1. PICK p \in Threads, op \in {"async", "first"} :
              /\ Put(p, op)
              /\ \/ owner = "alive" /\ p \in Callers
                 \/ p \in Workers /\ at[p] = "run"
              /\ UNCHANGED <<count, workers, owner, cancelled, begun>>
    BY <1>1, PutStep
  <2>2. Queued' = Queued \cup {posted + 1} /\ posted' = posted + 1
    BY <1>0, <2>1, PutQueued DEF Put
  <2>3. \A n \in 1..posted' : n \in 1..posted \/ n = posted + 1
    BY <1>0, <2>2, BoundAssumption DEF TypeOK
  <2>4. Accounted'
    BY <1>0, <2>1, <2>2, <2>3 DEF Accounted
  <2>5. At("gone") # Workers
    BY <1>0, <2>1, ThreadsAssumption DEF NoEarlyLeave, At
  <2> QED BY <1>0, <2>1, <2>4, <2>5 DEF LastLeft, JoinedLeft, workers, At
<1>2. ASSUME NEW p \in Threads, Post(p) PROVE Accounted' /\ LastLeft' /\ JoinedLeft'
  <2>1. At("gone")' = At("gone")
    BY <1>0, <1>2, SleepStep DEF Post
  <2>2. UNCHANGED <<queue, owner, posted, begun, cancelled>>
    BY <1>2 DEF Post, tasks
  <2> QED BY <1>0, <2>1, <2>2 DEF Accounted, Queued, LastLeft, JoinedLeft
<1>3. ASSUME NEW w \in Workers, Wait(w) \/ Spurious(w) \/ Finish(w)
      PROVE  Accounted' /\ LastLeft' /\ JoinedLeft'
  <2>1. PICK o \in {"ready", "awake", "asleep", "run"},
             q \in {"ready", "awake", "asleep", "take"} :
           at[w] = o /\ at' = [at EXCEPT ![w] = q]
    BY <1>3 DEF Wait, Spurious, Finish
  <2>2. At("gone")' = At("gone")
    BY <1>0, <2>1 DEF At, TypeOK
  <2>3. UNCHANGED <<queue, owner, posted, begun, cancelled>>
    BY <1>3 DEF Wait, Spurious, Finish, tasks
  <2> QED BY <1>0, <2>2, <2>3 DEF Accounted, Queued, LastLeft, JoinedLeft
<1>4. ASSUME NEW w \in Workers, Take(w) PROVE Accounted' /\ LastLeft' /\ JoinedLeft'
  <2>1. Queued = Queued' \cup {Head(queue).id}
    BY <1>0, <1>4, TakeQueued DEF Take
  <2>2. /\ begun \subseteq begun' /\ UNCHANGED <<posted, cancelled, owner>>
        /\ Head(queue).id \in begun' \cup cancelled
    BY <1>4 DEF Take
  <2>3. Accounted'
    BY <1>0, <2>1, <2>2 DEF Accounted
  <2>4. At("gone")' = At("gone") /\ At("gone") # Workers
    BY <1>0, <1>4 DEF Take, At, TypeOK
  <2> QED BY <1>0, <2>2, <2>3, <2>4 DEF LastLeft, JoinedLeft
<1>5. ASSUME NEW w \in Workers, Leave(w) PROVE Accounted' /\ LastLeft' /\ JoinedLeft'
  <2>1. queue = <<>> /\ UNCHANGED <<queue, posted, begun, cancelled, owner>>
    BY <1>5 DEF Leave, tasks
  <2>2. At("gone") # Workers
    BY <1>5 DEF Leave, At
  <2> QED BY <1>0, <2>1, <2>2 DEF Accounted, Queued, LastLeft, JoinedLeft
<1>6. ASSUME Cancel PROVE Accounted' /\ LastLeft' /\ JoinedLeft'
  <2>1. /\ cancelled \subseteq cancelled'
        /\ UNCHANGED <<queue, workers, owner, posted, begun>>
    BY <1>6 DEF Cancel
  <2> QED BY <1>0, <2>1 DEF Accounted, Queued, LastLeft, JoinedLeft, workers, At
<1>7. ASSUME Shutdown PROVE Accounted' /\ LastLeft' /\ JoinedLeft'
  <2>1. At("gone")' = At("gone")
    BY <1>0, <1>7, SleepStep DEF Shutdown
  <2>2. UNCHANGED <<queue, posted, begun, cancelled>> /\ owner' = "join"
    BY <1>7 DEF Shutdown, tasks
  <2> QED BY <1>0, <2>1, <2>2 DEF Accounted, Queued, LastLeft, JoinedLeft
<1>8. ASSUME Joined PROVE Accounted' /\ LastLeft' /\ JoinedLeft'
  BY <1>0, <1>8 DEF Joined, Accounted, Queued, LastLeft, JoinedLeft, workers,
                    tasks, At
<1>9. CASE UNCHANGED vars
  BY <1>0, <1>9 DEF vars, Accounted, Queued, LastLeft, JoinedLeft, workers,
                    tasks, At
<1> QED BY <1>1, <1>2, <1>3, <1>4, <1>5, <1>6, <1>7, <1>8, <1>9
        DEF Next, Caller, Worker, Puts, Threads

LEMMA DrainedInit == Init => DrainedInv
<1> SUFFICES ASSUME Init PROVE DrainedInv
  OBVIOUS
<1>1. At("gone") = {} /\ queue = <<>> /\ owner = "alive" /\ posted = 0
  BY DEF Init, At
<1>2. 1..posted = {}
  BY <1>1
<1> QED BY <1>1, <1>2, TypeInit
        DEF DrainedInv, NoEarlyLeave, Accounted, LastLeft, JoinedLeft

\* When ~ThreadPool returns, every task was called or cancelled, also the tasks
\* that the last tasks posted.
THEOREM DrainedHolds == Spec => []Drained
<1>1. DrainedInv => Drained
  BY DEF DrainedInv, Accounted, LastLeft, JoinedLeft, Drained, Queued, Range
<1> QED BY <1>1, DrainedInit, DrainedStep, NoEarlyLeaveHolds, PTL DEF Spec

-----------------------------------------------------------------------------
(* The pool implements AsyncExecutor.  In the queue a task of async comes   *)
(* before those of async that were posted later, and no number occurs twice. *)

Earlier == {p \in Tasks \X Tasks :
               /\ p[1].id # p[2].id
               /\ p[1].op = "async" /\ p[2].op = "async" => p[1].id < p[2].id}

InOrder == Pairwise(queue, Earlier)
Numbered == \A t \in Range(queue) : t.id \in 1..posted

OrderInv == TypeOK /\ InOrder /\ Numbered

LEMMA PutOrder ==
    ASSUME OrderInv, NEW p, NEW op \in {"async", "first"}, Put(p, op)
    PROVE  /\ InOrder' /\ Numbered'
           /\ Range(queue') = Range(queue) \cup {Task(op, posted + 1)}
<1> DEFINE t == Task(op, posted + 1)
<1>1. /\ queue \in Seq(Tasks) /\ posted \in 0..MaxTasks /\ posted' = posted + 1
      /\ posted + 1 \in 1..MaxTasks /\ MaxTasks \in Nat
  BY BoundAssumption DEF OrderInv, TypeOK, Put
<1>2. t \in Tasks /\ t.id = posted + 1 /\ t.op = op
  BY <1>1 DEF Task, Tasks
<1>3. \/ op = "first" /\ queue' = <<t>> \o queue
      \/ op = "async" /\ queue' = Append(queue, t)
  BY DEF Put
<1> HIDE DEF t
<1>4. Range(queue') = Range(queue) \cup {t}
  <2>1. Range(<<t>> \o queue) = Range(queue) \cup {t}
    BY <1>1, <1>2, RangePrepend
  <2>2. Range(Append(queue, t)) = Range(queue) \cup {t}
    BY <1>1, <1>2, RangeAppend
  <2> QED BY <1>3, <2>1, <2>2
<1>5. \A x \in Range(queue) : x \in Tasks /\ x.id \in 1..posted
  BY <1>1, RangeType DEF OrderInv, Numbered
<1>6. Numbered'
  BY <1>1, <1>2, <1>4, <1>5 DEF Numbered
<1>7. CASE op = "first"
  <2>1. \A x \in Range(queue) : <<t, x>> \in Earlier
    BY <1>1, <1>2, <1>5, <1>7 DEF Earlier
  <2>2. Pairwise(<<t>> \o queue, Earlier)
    BY <1>1, <1>2, <2>1, PairwisePrepend DEF InOrder, OrderInv
  <2> QED BY <1>3, <1>4, <1>6, <1>7, <2>2 DEF InOrder, t
<1>8. CASE op = "async"
  <2>1. \A x \in Range(queue) : <<x, t>> \in Earlier
    BY <1>1, <1>2, <1>5, <1>8 DEF Earlier
  <2>2. Pairwise(Append(queue, t), Earlier)
    BY <1>1, <1>2, <2>1, PairwiseAppend DEF InOrder, OrderInv
  <2> QED BY <1>3, <1>4, <1>6, <1>8, <2>2 DEF InOrder, t
<1> QED BY <1>7, <1>8

LEMMA TakeOrder ==
    ASSUME OrderInv, queue # <<>>, queue' = Tail(queue), posted' = posted
    PROVE  /\ InOrder' /\ Numbered'
           /\ Head(queue) \in Tasks
           /\ Range(queue) = Range(queue') \cup {Head(queue)}
           /\ \A t \in Range(queue') : t \in Tasks /\ <<Head(queue), t>> \in Earlier
<1>1. queue \in Seq(Tasks)
  BY DEF OrderInv, TypeOK
<1>2. Range(queue) = Range(queue') \cup {Head(queue)} /\ Range(queue) \subseteq Tasks
  BY <1>1, RangeTail, RangeType
<1>3. /\ Pairwise(queue', Earlier)
      /\ \A t \in Range(queue') : <<Head(queue), t>> \in Earlier
  BY <1>1, PairwiseTail DEF OrderInv, InOrder
<1> QED BY <1>2, <1>3 DEF OrderInv, InOrder, Numbered

\* The other steps leave the queue alone.
LEMMA OtherStep ==
    ASSUME Next, ~Puts, \A w \in Workers : ~Take(w)
    PROVE  UNCHANGED <<queue, posted>>
  BY DEF Next, Caller, Worker, Puts, Post, Wait, Leave, Finish, Spurious, Cancel,
         Shutdown, Joined, tasks

LEMMA OrderStep == OrderInv /\ [Next]_vars => OrderInv'
<1> SUFFICES ASSUME OrderInv, [Next]_vars PROVE InOrder' /\ Numbered'
  BY TypeStep DEF OrderInv
<1>1. CASE Puts
  BY <1>1, PutStep, PutOrder
<1>2. ASSUME NEW w \in Workers, Take(w) PROVE InOrder' /\ Numbered'
  BY <1>2, TakeOrder DEF Take
<1>3. CASE UNCHANGED <<queue, posted>>
  BY <1>3 DEF OrderInv, InOrder, Numbered, Pairwise
<1> QED BY <1>1, <1>2, <1>3, OtherStep DEF vars, tasks

LEMMA OrderInit == Init => OrderInv
<1> SUFFICES ASSUME Init PROVE InOrder /\ Numbered
  BY TypeInit DEF OrderInv
<1> QED BY PairwiseEmpty, RangeEmpty DEF Init, InOrder, Numbered

\* A step of the pool is one of the executor or leaves it as it is.
LEMMA ExecutorStep ==
    ASSUME OrderInv, OrderInv', [Next]_vars
    PROVE  [Executor!Next]_(Executor!vars)
<1>a. /\ posted \in Nat /\ queue \in Seq(Tasks)
      /\ \A t \in Range(queue) : t.id \in 1..posted
  BY BoundAssumption DEF OrderInv, TypeOK, Numbered
<1>b. \A t \in Tasks : t.op \in {"async", "first"} /\ t.id \in Nat
  BY DEF Tasks
<1>0. /\ posted \in Nat /\ Range(queue) \subseteq Tasks
      /\ \A t \in Range(queue) : t.id \in 1..posted
      /\ \A t \in Tasks : t.op \in {"async", "first"} /\ t.id \in Nat
  BY <1>a, <1>b, RangeType
<1>1. CASE Puts
  <2>1. PICK p \in Threads, op \in {"async", "first"} : Put(p, op)
    BY <1>1, PutStep
  <2>2. PICK t : /\ t.id = posted + 1 /\ t.op = op /\ posted' = posted + 1
                 /\ Range(queue') = Range(queue) \cup {t}
    BY <2>1, PutOrder DEF Put, Task
  <2>3. /\ Ids(op)' = Ids(op) \cup {posted + 1}
        /\ \A o \in {"async", "first"} \ {op} : Ids(o)' = Ids(o)
    BY <2>2 DEF Ids
  <2>4. Queued' = Queued \cup {posted + 1}
    BY <2>2 DEF Queued
  <2>5. ((1..posted) \ Queued)' = (1..posted) \ Queued
    BY <1>0, <2>2, <2>4 DEF Queued
  <2>6. CASE op = "async"
    BY <2>2, <2>3, <2>5, <2>6 DEF Executor!Next, Executor!Async, Queued
  <2>7. CASE op = "first"
    BY <2>2, <2>3, <2>5, <2>7 DEF Executor!Next, Executor!AsyncFirst, Queued
  <2> QED BY <2>6, <2>7
<1>2. ASSUME NEW w \in Workers, Take(w) PROVE Executor!Next
  <2>1. /\ queue # <<>> /\ queue' = Tail(queue) /\ posted' = posted
    BY <1>2 DEF Take
  <2>2. PICK t \in Tasks :
           /\ Range(queue) = Range(queue') \cup {t}
           /\ \A u \in Range(queue') : u \in Tasks /\ <<t, u>> \in Earlier
    BY <2>1, TakeOrder
  <2>3. /\ \A u \in Range(queue') : u.id # t.id
        /\ t.op = "async" => \A u \in Range(queue') : u.op = "async" => t.id < u.id
    BY <2>2 DEF Earlier
  <2>4. /\ t.id \in Ids(t.op) /\ Ids(t.op)' = Ids(t.op) \ {t.id}
        /\ \A o \in {"async", "first"} \ {t.op} : Ids(o)' = Ids(o)
    BY <2>2, <2>3 DEF Ids
  <2>5. ((1..posted) \ Queued)' = ((1..posted) \ Queued) \cup {t.id}
    <3>1. Queued' = Queued \ {t.id}
      BY <2>2, <2>3 DEF Queued
    <3>2. t.id \in 1..posted
      BY <1>0, <2>2
    <3> QED BY <2>1, <3>1, <3>2
  <2>6. CASE t.op = "async"
    <3>1. \A n \in Ids("async") : t.id <= n
      <4>1. SUFFICES ASSUME NEW u \in Range(queue), u.op = "async" PROVE t.id <= u.id
        BY DEF Ids
      <4> QED BY <1>0, <2>2, <2>3, <2>6, <4>1
    <3> QED BY <2>1, <2>4, <2>5, <2>6, <3>1 DEF Executor!Next, Executor!RunNext, Queued
  <2>7. CASE t.op = "first"
    BY <2>1, <2>4, <2>5, <2>7 DEF Executor!Next, Executor!RunUrgent, Queued
  <2> QED BY <1>0, <2>2, <2>6, <2>7
<1>3. CASE UNCHANGED <<queue, posted>>
  BY <1>3 DEF Executor!vars, Ids
<1> QED BY <1>1, <1>2, <1>3, OtherStep DEF vars, tasks

LEMMA ExecutorInit == Init => Executor!Init
<1> SUFFICES ASSUME Init PROVE Executor!Init
  OBVIOUS
<1>2. queue = <<>> /\ posted = 0
  BY DEF Init
<1>3. Range(queue) = {}
  BY <1>2, RangeEmpty
<1> QED BY <1>2, <1>3 DEF Executor!Init, Ids

\* The pool keeps the promise of async and async_first: however many workers
\* take from its queue, each task is taken once and those of async in order.
THEOREM ImplementsExecutorHolds == Spec => ImplementsExecutor
<1>1. Spec => []OrderInv
  BY OrderInit, OrderStep, PTL DEF Spec
<1>2. OrderInv /\ OrderInv' /\ [Next]_vars => [Executor!Next]_(Executor!vars)
  BY ExecutorStep
<1> QED BY <1>1, <1>2, ExecutorInit, PTL DEF Spec, ImplementsExecutor, Executor!Spec
=============================================================================
