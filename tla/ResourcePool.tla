---------------------------- MODULE ResourcePool ----------------------------
(***************************************************************************)
(* The recycling pool of zltoolkit.  Any thread obtains an object and any  *)
(* thread may drop its last reference; the pool's vector is guarded by a   *)
(* flag that is only ever tried: who does not get it makes a new object,   *)
(* or deletes the one it gives back.  An object in flight keeps a weak     *)
(* reference, so that the pool may go while objects are out.               *)
(***************************************************************************)
EXTENDS Naturals, Sequences

CONSTANTS PoolThreads, Objects, PoolSize

VARIABLES objs,    \* _objs
          busy,    \* _busy
          call,    \* per thread: where it is in obtain or in the deleter
          held,    \* the objects users refer to
          unborn,  \* the objects not allocated yet
          quit,    \* the objects whose _quit is set
          owned    \* the owner of the pool still has it

poolVars == <<objs, busy, call, held, unborn, quit, owned>>

Idle == [at |-> "idle"]
At(where, o) == [at |-> where, obj |-> o]

Init == /\ objs = <<>> /\ busy = FALSE /\ held = {} /\ unborn = Objects /\ quit = {}
        /\ owned = TRUE /\ call = [t \in PoolThreads |-> Idle]

Enter(t, from, to) == call[t].at = from /\ call' = [call EXCEPT ![t] = to]

-----------------------------------------------------------------------------
\* obtain, by somebody who still has the pool.

\* mutant: the flag is set whoever had it
TryObtainAlways(t) ==
    /\ owned /\ Enter(t, "idle", At("take", "none")) /\ busy' = TRUE
    /\ UNCHANGED <<objs, held, unborn, quit, owned>>

\* Without the flag a new object is made.
TryObtain(t) ==
    /\ owned
    /\ IF busy
       THEN \E o \in unborn : /\ call[t] = Idle /\ held' = held \cup {o}
                              /\ unborn' = unborn \ {o}
                              /\ UNCHANGED <<busy, call>>
       ELSE /\ Enter(t, "idle", At("take", "none")) /\ busy' = TRUE
            /\ UNCHANGED <<held, unborn>>
    /\ UNCHANGED <<objs, quit, owned>>

\* The newest pooled object is read, or there is none and one is made.
Take(t) ==
    /\ IF objs # <<>>
       THEN Enter(t, "take", At("pop", objs[Len(objs)])) /\ UNCHANGED unborn
       ELSE \E o \in unborn : /\ Enter(t, "take", At("taken", o))
                              /\ unborn' = unborn \ {o}
    /\ UNCHANGED <<objs, busy, held, quit, owned>>

\* An empty vector cannot be popped; one reaches that only without the flag.
Pop(t) == /\ Enter(t, "pop", At("taken", call[t].obj))
          /\ objs' = SubSeq(objs, 1, Len(objs) - 1)
          /\ UNCHANGED <<busy, held, unborn, quit, owned>>

Obtained(t) == /\ Enter(t, "taken", Idle)
               /\ busy' = FALSE /\ held' = held \cup {call[t].obj}
               /\ UNCHANGED <<objs, unborn, quit, owned>>

\* The user forbids, or allows again, that its object is pooled.
Quit(o) == /\ o \in held
           /\ quit' = IF o \in quit THEN quit \ {o} ELSE quit \cup {o}
           /\ UNCHANGED <<objs, busy, call, held, unborn, owned>>

-----------------------------------------------------------------------------
\* The deleter of the last reference.

\* Somebody who has the pool, or a deleter on its way, keeps it alive.
Giving(t) == call[t].at \in {"try", "push", "given"}
Alive == owned \/ \E t \in PoolThreads : Giving(t)

Release(t, o) ==
    /\ o \in held /\ held' = held \ {o} /\ quit' = quit \ {o}
    /\ IF Alive /\ o \notin quit THEN Enter(t, "idle", At("try", o))
                                 ELSE call[t] = Idle /\ UNCHANGED call
    /\ UNCHANGED <<objs, busy, unborn, owned>>

\* The pool goes with whoever held it last, and its objects with it.
Leave(t) == objs' = IF owned \/ \E u \in PoolThreads \ {t} : Giving(u)
                    THEN objs ELSE <<>>

\* Without the flag the object is deleted.
TryGive(t) ==
    /\ IF busy THEN Enter(t, "try", Idle) /\ Leave(t) /\ UNCHANGED busy
               ELSE /\ Enter(t, "try", At("push", call[t].obj))
                    /\ busy' = TRUE /\ UNCHANGED objs
    /\ UNCHANGED <<held, unborn, quit, owned>>

Push(t) == /\ Enter(t, "push", At("given", "none"))
           /\ objs' = IF Len(objs) >= PoolSize THEN objs ELSE Append(objs, call[t].obj)
           /\ UNCHANGED <<busy, held, unborn, quit, owned>>

Given(t) == /\ Enter(t, "given", Idle) /\ busy' = FALSE /\ Leave(t)
            /\ UNCHANGED <<held, unborn, quit, owned>>

\* The owner drops the pool; nobody is in obtain, which needs it.
Disown == /\ owned /\ \A t \in PoolThreads : call[t].at = "idle" \/ Giving(t)
          /\ owned' = FALSE
          /\ objs' = IF \E t \in PoolThreads : Giving(t) THEN objs ELSE <<>>
          /\ UNCHANGED <<busy, call, held, unborn, quit>>

Next == \/ \E t \in PoolThreads :
              \/ TryObtain(t) \/ Take(t) \/ Pop(t) \/ Obtained(t)
              \/ TryGive(t) \/ Push(t) \/ Given(t)
              \/ \E o \in Objects : Release(t, o)
        \/ \E o \in Objects : Quit(o)
        \/ Disown

Spec == Init /\ [][Next]_poolVars

-----------------------------------------------------------------------------
Hands(t) == IF call[t].at \in {"pop", "taken", "try", "push"} THEN {call[t].obj} ELSE {}

\* An object is in one place: unborn, with its user, in the hands of one thread
\* or at one index of the vector (where the one being popped still is).
OnePlace ==
    /\ \A o \in held : o \notin unborn /\ \A t \in PoolThreads : o \notin Hands(t)
    /\ \A t, u \in PoolThreads : t # u => Hands(t) \cap Hands(u) = {}
    /\ \A t \in PoolThreads : Hands(t) \cap unborn = {}
    /\ \A i \in DOMAIN objs :
          /\ objs[i] \notin held /\ objs[i] \notin unborn
          /\ \A t \in PoolThreads : objs[i] \in Hands(t) =>
                call[t].at = "pop" /\ i = Len(objs)
          /\ \A j \in DOMAIN objs : objs[i] = objs[j] => i = j

\* The vector never exceeds the size, and is gone with the pool.
Bounded == Len(objs) <= PoolSize /\ (objs # <<>> => Alive)

\* Who reads or changes the vector has the flag alone.
Alone == \A t, u \in PoolThreads :
    call[t].at \in {"take", "pop", "taken", "push", "given"}
        => busy /\ (u # t => call[u].at \notin {"take", "pop", "taken", "push", "given"})

PoolRight == OnePlace /\ Bounded /\ Alone
=============================================================================
