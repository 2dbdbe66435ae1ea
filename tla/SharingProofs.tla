------------------------------ MODULE SharingProofs ------------------------------
(***************************************************************************)
(* Theorems about the eleven parts that Sharing puts side by side, for any *)
(* sets of threads, objects, tags, peers, addresses, statements, names.    *)
(* The pool's property is inductive with the types.  The others are not:   *)
(* a listener on its way in and a removal on its way out have a say in it; *)
(* a datagram is counted in places that the invariant has as disjoint sets;*)
(* an event waits in epoll, a flag, a queue or a thread's hands before it  *)
(* is told; the files that clean removes come first in the order of names, *)
(* which is that of days only while names are wide enough; a clock that    *)
(* was set is corrected by the next reading; a wildcard is the first of an *)
(* order; and a directory is removed after it was looked into.  Each part  *)
(* has the invariant that says so (ReadInv, UtilInv, ..., FilesInv).       *)
(***************************************************************************)
EXTENDS Sharing, SequenceLemmas, TLAPS, FiniteSetTheorems, SequenceTheorems

-----------------------------------------------------------------------------
(* The pool of objects (ResourcePool). *)

InHand == {"pop", "taken", "try", "push"}
WithFlag == {"take", "pop", "taken", "push", "given"}
PoolCalls == {Pool!Idle} \cup {Pool!At(w, "none") : w \in {"take", "given"}}
             \cup {Pool!At(w, o) : w \in InHand, o \in Objects}
PoolTypes ==
    /\ objs \in Seq(Objects) /\ held \subseteq Objects /\ unborn \subseteq Objects
    /\ busy \in BOOLEAN /\ owned \in BOOLEAN /\ call \in [PoolThreads -> PoolCalls]

PoolInv == PoolTypes /\ Pool!PoolRight

LEMMA PoolCallFields ==
    ASSUME NEW c \in PoolCalls
    PROVE  /\ c.at \in {"idle", "take", "given"} \cup InHand
           /\ c.at = "idle" <=> c = Pool!Idle
           /\ c.at \in InHand => c.obj \in Objects
BY DEF PoolCalls, Pool!Idle, Pool!At, InHand

\* A thread whose call goes on.
LEMMA EnterStep ==
    ASSUME PoolTypes, NEW t \in PoolThreads, NEW from, NEW to \in PoolCalls, Pool!Enter(t, from, to)
    PROVE  /\ call[t].at = from /\ call' \in [PoolThreads -> PoolCalls] /\ call'[t] = to
           /\ \A u \in PoolThreads \ {t} : call'[u] = call[u]
BY DEF PoolTypes, Pool!Enter

LEMMA PoolPlaces ==
    /\ Pool!Idle \in PoolCalls /\ Pool!Idle.at = "idle"
    /\ \A w \in {"take", "given"} : Pool!At(w, "none") \in PoolCalls /\ Pool!At(w, "none").at = w
    /\ \A w \in InHand, o \in Objects : /\ Pool!At(w, o) \in PoolCalls
                                        /\ Pool!At(w, o).at = w /\ Pool!At(w, o).obj = o
<1>1. Pool!Idle \in PoolCalls /\ Pool!Idle.at = "idle"
  BY DEF PoolCalls, Pool!Idle
<1>2. \A w \in {"take", "given"} : Pool!At(w, "none") \in PoolCalls
  BY DEF PoolCalls
<1>3. \A w \in InHand, o \in Objects : Pool!At(w, o) \in PoolCalls
  BY DEF PoolCalls
<1>4. \A w, o : Pool!At(w, o).at = w /\ Pool!At(w, o).obj = o
  BY DEF Pool!At
<1> QED BY <1>1, <1>2, <1>3, <1>4

\* The conjuncts of OnePlace, with the hands as they are used below.
Hand(t) == Pool!Hands(t)

LEMMA HandOf ==
    ASSUME NEW t
    PROVE  Hand(t) = IF call[t].at \in InHand THEN {call[t].obj} ELSE {}
BY DEF Hand, Pool!Hands, InHand

\* What one thread's step must keep so that objects are in one place.
LEMMA OnePlaceStep ==
    ASSUME PoolInv, NEW t \in PoolThreads, \A u \in PoolThreads \ {t} : call'[u] = call[u],
           \A o \in held' : /\ o \notin unborn' /\ o \notin Hand(t)'
                            /\ \A u \in PoolThreads \ {t} : o \notin Hand(u),
           \A u \in PoolThreads \ {t} : Hand(u) \cap Hand(t)' = {} /\ Hand(u) \cap unborn' = {},
           Hand(t)' \cap unborn' = {},
           \A i \in DOMAIN objs' :
              /\ objs'[i] \notin held' /\ objs'[i] \notin unborn'
              /\ objs'[i] \in Hand(t)' => call'[t].at = "pop" /\ i = Len(objs')
              /\ \A u \in PoolThreads \ {t} : objs'[i] \in Hand(u) =>
                    call[u].at = "pop" /\ i = Len(objs')
              /\ \A j \in DOMAIN objs' : objs'[i] = objs'[j] => i = j
    PROVE  Pool!OnePlace'
<1>1. \A u \in PoolThreads \ {t} : Hand(u)' = Hand(u)
  BY HandOf DEF Hand, Pool!Hands
<1>2. \A u, v \in PoolThreads : u # v => Hand(u) \cap Hand(v) = {}
  BY DEF PoolInv, Pool!PoolRight, Pool!OnePlace, Hand
<1>3. \A u, v \in PoolThreads : u # v => Hand(u)' \cap Hand(v)' = {}
  BY <1>1, <1>2
<1>4. \A u \in PoolThreads : Hand(u)' \cap unborn' = {}
  BY <1>1
<1>5. \A o \in held' : o \notin unborn' /\ \A u \in PoolThreads : o \notin Hand(u)'
  BY <1>1
<1>6. \A i \in DOMAIN objs' :
          /\ objs'[i] \notin held' /\ objs'[i] \notin unborn'
          /\ \A u \in PoolThreads : objs'[i] \in Hand(u)' => call'[u].at = "pop" /\ i = Len(objs')
          /\ \A j \in DOMAIN objs' : objs'[i] = objs'[j] => i = j
  BY <1>1
<1> QED BY <1>3, <1>4, <1>5, <1>6 DEF Pool!OnePlace, Hand

\* Who sets the flag found it clear, who clears it had set it.
LEMMA AloneStep ==
    ASSUME PoolInv, NEW t \in PoolThreads, \A u \in PoolThreads \ {t} : call'[u] = call[u],
           \/ call[t].at \notin WithFlag /\ call'[t].at \notin WithFlag /\ busy' = busy
           \/ call[t].at \notin WithFlag /\ ~busy /\ busy'
           \/ call[t].at \in WithFlag /\ call'[t].at \in WithFlag /\ busy' = busy
           \/ call[t].at \in WithFlag /\ call'[t].at \notin WithFlag
    PROVE  Pool!Alone'
BY DEF PoolInv, Pool!PoolRight, Pool!Alone, WithFlag

LEMMA BoundedStep ==
    ASSUME PoolInv, NEW t \in PoolThreads, \A u \in PoolThreads \ {t} : call'[u] = call[u],
           owned' = owned, Len(objs') <= PoolSize,
           objs' # <<>> => owned \/ Pool!Giving(t)' \/ \E u \in PoolThreads \ {t} : Pool!Giving(u)
    PROVE  Pool!Bounded'
BY DEF Pool!Bounded, Pool!Alive, Pool!Giving

LEMMA PoolStart == ASSUME PoolSize \in Nat PROVE Pool!Init => PoolInv
<1> SUFFICES ASSUME Pool!Init PROVE PoolInv
  OBVIOUS
<1>1. /\ objs = <<>> /\ busy = FALSE /\ held = {} /\ unborn = Objects /\ owned = TRUE
      /\ call = [t \in PoolThreads |-> Pool!Idle]
  BY DEF Pool!Init
<1>2. PoolTypes
  <2>1. objs \in Seq(Objects) /\ Pool!Idle \in PoolCalls
    BY <1>1, PoolPlaces
  <2> QED BY <1>1, <2>1 DEF PoolTypes
<1>3. \A t \in PoolThreads : call[t].at = "idle" /\ Pool!Hands(t) = {}
  BY <1>1, PoolPlaces DEF Pool!Hands
<1>4. Pool!OnePlace
  BY <1>1, <1>3 DEF Pool!OnePlace
<1>5. Pool!Bounded /\ Pool!Alone
  BY <1>1, <1>3 DEF Pool!Bounded, Pool!Alone
<1> QED BY <1>2, <1>4, <1>5 DEF PoolInv, Pool!PoolRight

\* What the invariant says, in the terms of the step lemmas.
LEMMA PoolNow ==
    ASSUME PoolInv, NEW t \in PoolThreads
    PROVE  /\ \A o \in held : o \notin unborn /\ \A u \in PoolThreads : o \notin Hand(u)
           /\ \A u \in PoolThreads \ {t} : Hand(u) \cap Hand(t) = {}
           /\ \A u \in PoolThreads : Hand(u) \cap unborn = {}
           /\ \A i \in DOMAIN objs :
                 /\ objs[i] \notin held /\ objs[i] \notin unborn
                 /\ \A u \in PoolThreads : objs[i] \in Hand(u) => call[u].at = "pop" /\ i = Len(objs)
                 /\ \A j \in DOMAIN objs : objs[i] = objs[j] => i = j
           /\ Len(objs) <= PoolSize /\ (objs # <<>> => Pool!Alive)
           /\ call[t].at \in WithFlag =>
                 busy /\ \A u \in PoolThreads \ {t} : call[u].at \notin WithFlag
           /\ objs \in Seq(Objects) /\ DOMAIN objs = 1..Len(objs) /\ Len(objs) \in Nat
<1>1. objs \in Seq(Objects) /\ DOMAIN objs = 1..Len(objs) /\ Len(objs) \in Nat
  BY LenProperties DEF PoolInv, PoolTypes
<1> QED BY <1>1 DEF PoolInv, Pool!PoolRight, Pool!OnePlace, Pool!Bounded, Pool!Alone, Hand, WithFlag

LEMMA TryObtainStep ==
    ASSUME PoolSize \in Nat, PoolInv, NEW t \in PoolThreads, Pool!TryObtain(t)
    PROVE  PoolInv'
<1>1. UNCHANGED <<objs, owned>> /\ call[t].at = "idle" /\ PoolTypes
  BY PoolPlaces DEF Pool!TryObtain, Pool!Enter, PoolInv
<1>2. CASE busy
  <2>1. PICK o \in unborn : /\ held' = held \cup {o} /\ unborn' = unborn \ {o}
                            /\ UNCHANGED <<objs, busy, call, owned>>
    BY <1>1, <1>2 DEF Pool!TryObtain
  <2>2. PoolTypes'
    BY <1>1, <2>1 DEF PoolTypes
  <2>3. Hand(t)' = Hand(t) /\ \A u \in PoolThreads \ {t} : call'[u] = call[u]
    BY <2>1, HandOf DEF Hand, Pool!Hands
  <2>4. Pool!OnePlace'
    BY <2>1, <2>3, PoolNow, OnePlaceStep
  <2>5. Pool!Bounded' /\ Pool!Alone'
    BY <2>1 DEF PoolInv, Pool!PoolRight, Pool!Bounded, Pool!Alive, Pool!Giving, Pool!Alone
  <2> QED BY <2>2, <2>4, <2>5 DEF PoolInv, Pool!PoolRight
<1>3. CASE ~busy
  <2>1. Pool!Enter(t, "idle", Pool!At("take", "none")) /\ busy' /\ busy' \in BOOLEAN
        /\ UNCHANGED <<objs, held, unborn, owned>>
    BY <1>3 DEF Pool!TryObtain
  <2>2. /\ call' \in [PoolThreads -> PoolCalls] /\ call'[t].at = "take"
        /\ \A u \in PoolThreads \ {t} : call'[u] = call[u]
    BY <1>1, <2>1, EnterStep, PoolPlaces
  <2>3. PoolTypes'
    BY <1>1, <2>1, <2>2 DEF PoolTypes
  <2>4. Hand(t)' = {}
    BY <2>2 DEF Hand, Pool!Hands
  <2>5. Pool!OnePlace'
    BY <2>1, <2>2, <2>4, PoolNow, OnePlaceStep
  <2>6. Pool!Bounded'
    <3>1. objs # <<>> => owned \/ \E u \in PoolThreads \ {t} : Pool!Giving(u)
      BY <1>1, PoolNow DEF Pool!Alive, Pool!Giving
    <3> QED BY <2>1, <2>2, <3>1, PoolNow, BoundedStep
  <2>7. Pool!Alone'
    BY <1>1, <1>3, <2>1, <2>2, AloneStep DEF WithFlag
  <2> QED BY <2>3, <2>5, <2>6, <2>7 DEF PoolInv, Pool!PoolRight
<1> QED BY <1>2, <1>3

LEMMA TakeStep ==
    ASSUME PoolSize \in Nat, PoolInv, NEW t \in PoolThreads, Pool!Take(t)
    PROVE  PoolInv'
<1>1. UNCHANGED <<objs, busy, held, owned>> /\ PoolTypes
  BY DEF Pool!Take, PoolInv
<1>2. PICK to \in PoolCalls :
          /\ Pool!Enter(t, "take", to) /\ to.at \in {"pop", "taken"} /\ to.obj \in Objects
          /\ \/ /\ to.at = "pop" /\ objs # <<>> /\ to.obj = objs[Len(objs)] /\ unborn' = unborn
             \/ to.at = "taken" /\ to.obj \in unborn /\ unborn' = unborn \ {to.obj}
  <2>1. CASE objs # <<>>
    <3> DEFINE o == objs[Len(objs)]
    <3>1. o \in Objects
      BY <1>1, <2>1, EmptySeq, LenProperties, ElementOfSeq DEF PoolTypes
    <3>2. Pool!Enter(t, "take", Pool!At("pop", o)) /\ unborn' = unborn
      BY <2>1 DEF Pool!Take
    <3> HIDE DEF o
    <3>3. /\ Pool!At("pop", o) \in PoolCalls /\ Pool!At("pop", o).at = "pop"
          /\ Pool!At("pop", o).obj = o
      BY <3>1, PoolPlaces DEF InHand
    <3> QED BY <2>1, <3>1, <3>2, <3>3 DEF o
  <2>2. CASE objs = <<>>
    <3>1. PICK o \in unborn : /\ Pool!Enter(t, "take", Pool!At("taken", o))
                              /\ unborn' = unborn \ {o}
      BY <2>2 DEF Pool!Take
    <3>2. /\ Pool!At("taken", o) \in PoolCalls /\ Pool!At("taken", o).at = "taken"
          /\ Pool!At("taken", o).obj = o /\ o \in Objects
      BY <1>1, <3>1, PoolPlaces DEF InHand, PoolTypes
    <3> QED BY <3>1, <3>2
  <2> QED BY <2>1, <2>2
<1>3. /\ call[t].at = "take" /\ call' \in [PoolThreads -> PoolCalls] /\ call'[t] = to
      /\ \A u \in PoolThreads \ {t} : call'[u] = call[u]
  BY <1>1, <1>2, EnterStep
<1>4. PoolTypes'
  BY <1>1, <1>2, <1>3 DEF PoolTypes
<1>5. Hand(t)' = {to.obj}
  BY <1>2, <1>3 DEF Hand, Pool!Hands
<1>6. \A u \in PoolThreads \ {t} : call[u].at \notin WithFlag
  BY <1>3, PoolNow DEF WithFlag
<1>7. \A u \in PoolThreads \ {t} : \A i \in DOMAIN objs : objs[i] \notin Hand(u)
  BY <1>6, PoolNow DEF WithFlag
<1>8. objs # <<>> => Len(objs) \in DOMAIN objs
  BY <1>1, LenProperties, EmptySeq DEF PoolTypes
<1>9. Pool!OnePlace'
  <2>1. \A o \in held' : /\ o \notin unborn' /\ o \notin Hand(t)'
                          /\ \A u \in PoolThreads \ {t} : o \notin Hand(u)
    BY <1>1, <1>2, <1>5, <1>8, PoolNow
  <2>2. \A u \in PoolThreads \ {t} : Hand(u) \cap Hand(t)' = {} /\ Hand(u) \cap unborn' = {}
    BY <1>1, <1>2, <1>5, <1>7, <1>8, PoolNow
  <2>3. Hand(t)' \cap unborn' = {}
    BY <1>1, <1>2, <1>5, <1>8, PoolNow
  <2>4. \A i \in DOMAIN objs' :
            /\ objs'[i] \notin held' /\ objs'[i] \notin unborn'
            /\ objs'[i] \in Hand(t)' => call'[t].at = "pop" /\ i = Len(objs')
            /\ \A u \in PoolThreads \ {t} : objs'[i] \in Hand(u) =>
                  call[u].at = "pop" /\ i = Len(objs')
            /\ \A j \in DOMAIN objs' : objs'[i] = objs'[j] => i = j
    BY <1>1, <1>2, <1>3, <1>5, <1>8, PoolNow
  <2> QED BY <1>3, <2>1, <2>2, <2>3, <2>4, OnePlaceStep
<1>10. Pool!Bounded'
  <2>1. objs # <<>> => owned \/ \E u \in PoolThreads \ {t} : Pool!Giving(u)
    BY <1>3, PoolNow DEF Pool!Alive, Pool!Giving
  <2> QED BY <1>1, <1>3, <2>1, PoolNow, BoundedStep
<1>11. Pool!Alone'
  BY <1>1, <1>2, <1>3, AloneStep DEF WithFlag
<1> QED BY <1>4, <1>9, <1>10, <1>11 DEF PoolInv, Pool!PoolRight

LEMMA PopStep ==
    ASSUME PoolSize \in Nat, PoolInv, NEW t \in PoolThreads, Pool!Pop(t)
    PROVE  PoolInv'
<1> DEFINE o == call[t].obj
           to == Pool!At("taken", o)
<1>1. /\ UNCHANGED <<busy, held, unborn, owned>> /\ PoolTypes
      /\ objs' = SubSeq(objs, 1, Len(objs) - 1) /\ Pool!Enter(t, "pop", to)
  BY DEF Pool!Pop, PoolInv
<1>2. o \in Objects /\ call[t].at = "pop"
  BY <1>1, PoolCallFields DEF PoolTypes, InHand, Pool!Enter
<1>3. to \in PoolCalls /\ to.at = "taken" /\ to.obj = o
  BY <1>2, PoolPlaces DEF InHand
<1>4. Hand(t) = {o}
  BY <1>2, HandOf DEF InHand
<1> HIDE DEF o, to
<1>5. /\ call' \in [PoolThreads -> PoolCalls] /\ call'[t] = to
      /\ \A u \in PoolThreads \ {t} : call'[u] = call[u]
  BY <1>1, <1>3, EnterStep
<1>6. Hand(t)' = {o}
  BY <1>3, <1>5 DEF Hand, Pool!Hands
<1>7. /\ objs' \in Seq(Objects) /\ DOMAIN objs' \subseteq DOMAIN objs
      /\ Len(objs') <= Len(objs) /\ Len(objs') <= PoolSize
      /\ \A i \in DOMAIN objs' : objs'[i] = objs[i] /\ i # Len(objs)
      /\ objs' # <<>> => objs # <<>>
  <2>1. objs \in Seq(Objects) /\ Len(objs) \in Nat /\ Len(objs) <= PoolSize
    BY <1>1, PoolNow DEF PoolTypes
  <2>2. CASE objs = <<>>
    <3>1. objs' = <<>>
      BY <1>1, <2>2
    <3> QED BY <2>1, <2>2, <3>1
  <2>3. CASE objs # <<>>
    <3>1. Len(objs) - 1 \in 0..Len(objs)
      BY <2>1, <2>3, EmptySeq
    <3>2. /\ objs' \in Seq(Objects) /\ Len(objs') = Len(objs) - 1
          /\ \A i \in 1..Len(objs) - 1 : objs'[i] = objs[i]
      BY <1>1, <2>1, <2>3, DropLast
    <3>3. DOMAIN objs' = 1..Len(objs) - 1 /\ DOMAIN objs = 1..Len(objs)
      BY <2>1, <3>2, LenProperties
    <3> QED BY <2>1, <2>3, <3>1, <3>2, <3>3
  <2> QED BY <2>2, <2>3
<1>8. PoolTypes'
  BY <1>1, <1>5, <1>7 DEF PoolTypes
<1>9. \A u \in PoolThreads \ {t} : call[u].at # "pop"
  BY <1>2, PoolNow DEF WithFlag
<1>10. Pool!OnePlace'
  <2>1. \A c \in held' : /\ c \notin unborn' /\ c \notin Hand(t)'
                          /\ \A u \in PoolThreads \ {t} : c \notin Hand(u)
    BY <1>1, <1>4, <1>6, PoolNow
  <2>2. \A u \in PoolThreads \ {t} : Hand(u) \cap Hand(t)' = {} /\ Hand(u) \cap unborn' = {}
    BY <1>1, <1>4, <1>6, PoolNow
  <2>3. Hand(t)' \cap unborn' = {}
    BY <1>1, <1>4, <1>6, PoolNow
  <2>4. \A i \in DOMAIN objs' :
            /\ objs'[i] \notin held' /\ objs'[i] \notin unborn'
            /\ objs'[i] \in Hand(t)' => call'[t].at = "pop" /\ i = Len(objs')
            /\ \A u \in PoolThreads \ {t} : objs'[i] \in Hand(u) =>
                  call[u].at = "pop" /\ i = Len(objs')
            /\ \A j \in DOMAIN objs' : objs'[i] = objs'[j] => i = j
    BY <1>1, <1>4, <1>6, <1>7, <1>9, PoolNow
  <2> QED BY <1>5, <2>1, <2>2, <2>3, <2>4, OnePlaceStep
<1>11. Pool!Bounded'
  <2>1. objs # <<>> => owned \/ \E u \in PoolThreads \ {t} : Pool!Giving(u)
    BY <1>2, PoolNow DEF Pool!Alive, Pool!Giving
  <2> QED BY <1>1, <1>5, <1>7, <2>1, BoundedStep
<1>12. Pool!Alone'
  BY <1>1, <1>2, <1>3, <1>5, AloneStep DEF WithFlag
<1> QED BY <1>8, <1>10, <1>11, <1>12 DEF PoolInv, Pool!PoolRight

LEMMA ObtainedStep ==
    ASSUME PoolSize \in Nat, PoolInv, NEW t \in PoolThreads, Pool!Obtained(t)
    PROVE  PoolInv'
<1> DEFINE o == call[t].obj
<1>1. /\ UNCHANGED <<objs, unborn, owned>> /\ PoolTypes /\ busy' = FALSE
      /\ held' = held \cup {o} /\ Pool!Enter(t, "taken", Pool!Idle)
  BY DEF Pool!Obtained, PoolInv
<1>2. o \in Objects /\ call[t].at = "taken"
  BY <1>1, PoolCallFields DEF PoolTypes, InHand, Pool!Enter
<1>3. Hand(t) = {o}
  BY <1>2, HandOf DEF InHand
<1> HIDE DEF o
<1>4. /\ call' \in [PoolThreads -> PoolCalls] /\ call'[t] = Pool!Idle /\ call'[t].at = "idle"
      /\ \A u \in PoolThreads \ {t} : call'[u] = call[u]
  BY <1>1, EnterStep, PoolPlaces
<1>5. Hand(t)' = {}
  BY <1>4 DEF Hand, Pool!Hands
<1>6. PoolTypes'
  BY <1>1, <1>2, <1>4 DEF PoolTypes
<1>7. Pool!OnePlace'
  <2>1. \A c \in held' : /\ c \notin unborn' /\ c \notin Hand(t)'
                         /\ \A u \in PoolThreads \ {t} : c \notin Hand(u)
    BY <1>1, <1>3, <1>5, PoolNow
  <2>2. \A u \in PoolThreads \ {t} : Hand(u) \cap Hand(t)' = {} /\ Hand(u) \cap unborn' = {}
    BY <1>1, <1>5, PoolNow
  <2>3. \A i \in DOMAIN objs : objs[i] # o
    BY <1>2, <1>3, PoolNow
  <2> QED BY <1>1, <1>4, <1>5, <2>1, <2>2, <2>3, PoolNow, OnePlaceStep
<1>8. Pool!Bounded'
  <2>1. objs # <<>> => owned \/ \E u \in PoolThreads \ {t} : Pool!Giving(u)
    BY <1>2, PoolNow DEF Pool!Alive, Pool!Giving
  <2> QED BY <1>1, <1>4, <2>1, PoolNow, BoundedStep
<1>9. Pool!Alone'
  BY <1>1, <1>2, <1>4, AloneStep DEF WithFlag
<1> QED BY <1>6, <1>7, <1>8, <1>9 DEF PoolInv, Pool!PoolRight

LEMMA ReleaseStep ==
    ASSUME PoolSize \in Nat, PoolInv, NEW t \in PoolThreads, NEW o \in Objects,
           Pool!Release(t, o)
    PROVE  PoolInv'
<1>1. /\ UNCHANGED <<objs, busy, unborn, owned>> /\ PoolTypes
      /\ o \in held /\ held' = held \ {o}
  BY DEF Pool!Release, PoolInv
<1>2. /\ call[t].at = "idle" /\ call' \in [PoolThreads -> PoolCalls]
      /\ \A u \in PoolThreads \ {t} : call'[u] = call[u]
      /\ call'[t].at \in {"idle", "try"} /\ Hand(t)' \subseteq {o}
  <2>1. CASE Pool!Enter(t, "idle", Pool!At("try", o))
    <3>1. /\ Pool!At("try", o) \in PoolCalls /\ Pool!At("try", o).at = "try"
          /\ Pool!At("try", o).obj = o
      BY PoolPlaces DEF InHand
    <3>2. /\ call[t].at = "idle" /\ call' \in [PoolThreads -> PoolCalls]
          /\ call'[t] = Pool!At("try", o)
          /\ \A u \in PoolThreads \ {t} : call'[u] = call[u]
      BY <1>1, <2>1, <3>1, EnterStep
    <3> QED BY <3>1, <3>2 DEF Hand, Pool!Hands
  <2>2. CASE call[t] = Pool!Idle /\ call' = call
    <3>1. call'[t].at = "idle"
      BY <2>2, PoolPlaces
    <3> QED BY <1>1, <2>2, <3>1 DEF PoolTypes, Hand, Pool!Hands
  <2> QED BY <2>1, <2>2 DEF Pool!Release
<1>3. PoolTypes'
  BY <1>1, <1>2 DEF PoolTypes
<1>4. Pool!OnePlace'
  <2>1. \A c \in held' : /\ c \notin unborn' /\ c \notin Hand(t)'
                         /\ \A u \in PoolThreads \ {t} : c \notin Hand(u)
    BY <1>1, <1>2, PoolNow
  <2>2. \A u \in PoolThreads \ {t} : Hand(u) \cap Hand(t)' = {} /\ Hand(u) \cap unborn' = {}
    BY <1>1, <1>2, PoolNow
  <2>3. Hand(t)' \cap unborn' = {}
    BY <1>1, <1>2, PoolNow
  <2>4. \A i \in DOMAIN objs : objs[i] \notin Hand(t)'
    BY <1>1, <1>2, PoolNow
  <2> QED BY <1>1, <1>2, <2>1, <2>2, <2>3, <2>4, PoolNow, OnePlaceStep
<1>5. Pool!Bounded'
  <2>1. objs # <<>> => owned \/ \E u \in PoolThreads \ {t} : Pool!Giving(u)
    BY <1>2, PoolNow DEF Pool!Alive, Pool!Giving
  <2> QED BY <1>1, <1>2, <2>1, PoolNow, BoundedStep
<1>6. Pool!Alone'
  BY <1>1, <1>2, AloneStep DEF WithFlag
<1> QED BY <1>3, <1>4, <1>5, <1>6 DEF PoolInv, Pool!PoolRight

\* A deleter that is through leaves the pool as it is, or deletes it with its objects.
LEMMA LeaveStep ==
    ASSUME PoolSize \in Nat, PoolInv, NEW t \in PoolThreads, NEW from \in {"try", "given"},
           Pool!Enter(t, from, Pool!Idle), Pool!Leave(t), UNCHANGED <<held, unborn, owned>>,
           busy' = IF from = "try" THEN busy ELSE FALSE
    PROVE  PoolInv'
<1>1. PoolTypes /\ call[t].at = from
  BY DEF PoolInv, Pool!Enter
<1>2. /\ call' \in [PoolThreads -> PoolCalls] /\ call'[t].at = "idle"
      /\ \A u \in PoolThreads \ {t} : call'[u] = call[u]
  BY <1>1, EnterStep, PoolPlaces
<1>3. Hand(t)' = {}
  BY <1>2 DEF Hand, Pool!Hands
<1>4. /\ objs' \in {objs, <<>>} /\ <<>> \in Seq(Objects)
      /\ objs' # <<>> => owned \/ \E u \in PoolThreads \ {t} : Pool!Giving(u)
  BY DEF Pool!Leave
<1>5. PoolTypes'
  BY <1>1, <1>2, <1>4 DEF PoolTypes
<1>6. Pool!OnePlace'
  <2>1. \A i \in DOMAIN objs' :
            /\ objs' = objs
            /\ objs'[i] \notin held' /\ objs'[i] \notin unborn'
            /\ \A u \in PoolThreads \ {t} : objs'[i] \in Hand(u) =>
                  call[u].at = "pop" /\ i = Len(objs')
            /\ \A j \in DOMAIN objs' : objs'[i] = objs'[j] => i = j
    <3>1. CASE objs' = objs
      BY <3>1, PoolNow
    <3>2. CASE objs' = <<>>
      BY <3>2
    <3> QED BY <1>4, <3>1, <3>2
  <2> QED BY <1>2, <1>3, <2>1, PoolNow, OnePlaceStep
<1>7. Pool!Bounded'
  <2>1. Len(objs') <= PoolSize
    BY <1>4, PoolNow
  <2> QED BY <1>2, <1>4, <2>1, BoundedStep
<1>8. Pool!Alone'
  BY <1>1, <1>2, AloneStep DEF WithFlag
<1> QED BY <1>5, <1>6, <1>7, <1>8 DEF PoolInv, Pool!PoolRight

LEMMA TryGiveStep ==
    ASSUME PoolSize \in Nat, PoolInv, NEW t \in PoolThreads, Pool!TryGive(t)
    PROVE  PoolInv'
<1>1. UNCHANGED <<held, unborn, owned>> /\ PoolTypes
  BY DEF Pool!TryGive, PoolInv
<1>2. CASE busy
  BY <1>1, <1>2, LeaveStep DEF Pool!TryGive
<1>3. CASE ~busy
  <2> DEFINE o == call[t].obj
             to == Pool!At("push", o)
  <2>1. /\ Pool!Enter(t, "try", to) /\ busy' = TRUE /\ objs' = objs /\ call[t].at = "try"
    BY <1>3 DEF Pool!TryGive, Pool!Enter
  <2>2. o \in Objects
    BY <1>1, <2>1, PoolCallFields DEF PoolTypes, InHand
  <2>3. to \in PoolCalls /\ to.at = "push" /\ to.obj = o /\ Hand(t) = {o}
    BY <2>1, <2>2, PoolPlaces, HandOf DEF InHand
  <2> HIDE DEF o, to
  <2>4. /\ call' \in [PoolThreads -> PoolCalls] /\ call'[t] = to
        /\ \A u \in PoolThreads \ {t} : call'[u] = call[u]
    BY <1>1, <2>1, <2>3, EnterStep
  <2>5. Hand(t)' = Hand(t)
    BY <2>3, <2>4 DEF Hand, Pool!Hands
  <2>6. PoolTypes'
    BY <1>1, <2>1, <2>4 DEF PoolTypes
  <2>7. Pool!OnePlace'
    <3>1. \A i \in DOMAIN objs : objs[i] \notin Hand(t)
      BY <2>1, PoolNow
    <3> QED BY <1>1, <2>1, <2>4, <2>5, <3>1, PoolNow, OnePlaceStep
  <2>8. Pool!Bounded'
    <3>1. Pool!Giving(t)'
      BY <2>3, <2>4 DEF Pool!Giving
    <3> QED BY <1>1, <2>1, <2>4, <3>1, PoolNow, BoundedStep
  <2>9. Pool!Alone'
    BY <1>3, <2>1, <2>3, <2>4, AloneStep DEF WithFlag
  <2> QED BY <2>6, <2>7, <2>8, <2>9 DEF PoolInv, Pool!PoolRight
<1> QED BY <1>2, <1>3

LEMMA GivenStep ==
    ASSUME PoolSize \in Nat, PoolInv, NEW t \in PoolThreads, Pool!Given(t)
    PROVE  PoolInv'
BY LeaveStep DEF Pool!Given

LEMMA PushObjectStep ==
    ASSUME PoolSize \in Nat, PoolInv, NEW t \in PoolThreads, Pool!Push(t)
    PROVE  PoolInv'
<1> DEFINE o == call[t].obj
           to == Pool!At("given", "none")
<1>1. /\ UNCHANGED <<busy, held, unborn, owned>> /\ PoolTypes /\ call[t].at = "push"
      /\ Pool!Enter(t, "push", to)
      /\ objs' = IF Len(objs) >= PoolSize THEN objs ELSE Append(objs, o)
  BY DEF Pool!Push, Pool!Enter, PoolInv
<1>2. o \in Objects /\ Hand(t) = {o}
  BY <1>1, PoolCallFields, HandOf DEF PoolTypes, InHand
<1>3. to \in PoolCalls /\ to.at = "given"
  BY PoolPlaces
<1> HIDE DEF o, to
<1>4. /\ call' \in [PoolThreads -> PoolCalls] /\ call'[t].at = "given"
      /\ \A u \in PoolThreads \ {t} : call'[u] = call[u]
  BY <1>1, <1>3, EnterStep
<1>5. Hand(t)' = {}
  BY <1>4 DEF Hand, Pool!Hands
<1>6. \A i \in DOMAIN objs : objs[i] # o
  BY <1>1, <1>2, PoolNow
<1>7. \A u \in PoolThreads \ {t} : call[u].at # "pop" /\ o \notin Hand(u)
  BY <1>1, <1>2, PoolNow DEF WithFlag
<1>8. o \notin held /\ o \notin unborn
  BY <1>2, PoolNow
<1>9. /\ objs' \in Seq(Objects) /\ Len(objs') <= PoolSize
      /\ \A i \in DOMAIN objs' :
            \/ i \in DOMAIN objs /\ objs'[i] = objs[i]
            \/ i = Len(objs) + 1 /\ objs'[i] = o
  <2>1. objs \in Seq(Objects) /\ Len(objs) \in Nat /\ Len(objs) <= PoolSize /\ DOMAIN objs = 1..Len(objs)
    BY PoolNow
  <2>2. CASE Len(objs) >= PoolSize
    BY <1>1, <2>1, <2>2
  <2>3. CASE ~(Len(objs) >= PoolSize)
    <3>1. /\ objs' \in Seq(Objects) /\ Len(objs') = Len(objs) + 1
          /\ \A i \in 1..Len(objs) : objs'[i] = objs[i]
          /\ objs'[Len(objs) + 1] = o
      BY <1>1, <1>2, <2>1, <2>3, AppendProperties
    <3>2. DOMAIN objs' = 1..Len(objs) + 1
      BY <3>1, LenProperties
    <3> QED BY <2>1, <2>3, <3>1, <3>2
  <2> QED BY <2>2, <2>3
<1>10. PoolTypes'
  BY <1>1, <1>4, <1>9 DEF PoolTypes
<1>11. Pool!OnePlace'
  <2>1. \A i \in DOMAIN objs' :
            /\ objs'[i] \notin held' /\ objs'[i] \notin unborn'
            /\ \A u \in PoolThreads \ {t} : objs'[i] \notin Hand(u)
            /\ \A j \in DOMAIN objs' : objs'[i] = objs'[j] => i = j
    BY <1>1, <1>6, <1>7, <1>8, <1>9, PoolNow
  <2> QED BY <1>1, <1>4, <1>5, <2>1, PoolNow, OnePlaceStep
<1>12. Pool!Bounded'
  <2>1. Pool!Giving(t)'
    BY <1>4 DEF Pool!Giving
  <2> QED BY <1>1, <1>4, <1>9, <2>1, BoundedStep
<1>13. Pool!Alone'
  BY <1>1, <1>4, AloneStep DEF WithFlag
<1> QED BY <1>10, <1>11, <1>12, <1>13 DEF PoolInv, Pool!PoolRight

LEMMA OwnerStep ==
    ASSUME PoolSize \in Nat, PoolInv,
           \/ \E o \in Objects : Pool!Quit(o)
           \/ Pool!Disown
           \/ UNCHANGED Pool!poolVars
    PROVE  PoolInv'
<1>1. UNCHANGED <<busy, call, held, unborn>> /\ PoolTypes
  BY DEF Pool!Quit, Pool!Disown, Pool!poolVars, PoolInv
<1>2. /\ objs' \in {objs, <<>>} /\ owned' \in BOOLEAN /\ <<>> \in Seq(Objects)
      /\ objs' # <<>> => Pool!Alive'
  <2>1. CASE Pool!Disown
    <3>1. owned' = FALSE /\ call' = call
      BY <2>1 DEF Pool!Disown
    <3>2. objs' = IF \E t \in PoolThreads : Pool!Giving(t) THEN objs ELSE <<>>
      BY <2>1 DEF Pool!Disown
    <3>3. (\E t \in PoolThreads : Pool!Giving(t)) => Pool!Alive'
      BY <3>1 DEF Pool!Alive, Pool!Giving
    <3>4. <<>> \in Seq(Objects) /\ FALSE \in BOOLEAN
      OBVIOUS
    <3> HIDE DEF Pool!Alive, Pool!Giving
    <3>5. CASE \E t \in PoolThreads : Pool!Giving(t)
      BY <3>1, <3>2, <3>3, <3>4, <3>5
    <3>6. CASE ~\E t \in PoolThreads : Pool!Giving(t)
      BY <3>1, <3>2, <3>4, <3>6
    <3> QED BY <3>5, <3>6
  <2>2. CASE UNCHANGED <<objs, owned, call>>
    <3>1. objs # <<>> => Pool!Alive
      BY DEF PoolInv, Pool!PoolRight, Pool!Bounded
    <3>2. Pool!Alive => Pool!Alive'
      BY <2>2 DEF Pool!Alive, Pool!Giving
    <3>3. owned' \in BOOLEAN
      BY <1>1, <2>2 DEF PoolTypes
    <3>4. <<>> \in Seq(Objects)
      OBVIOUS
    <3> HIDE DEF Pool!Alive
    <3> QED BY <2>2, <3>1, <3>2, <3>3, <3>4
  <2> QED BY <2>1, <2>2 DEF Pool!Quit, Pool!poolVars
<1>3. PoolTypes'
  BY <1>1, <1>2 DEF PoolTypes
<1>4. Pool!OnePlace'
  <2>1. CASE objs' = objs
    BY <1>1, <2>1 DEF PoolInv, Pool!PoolRight, Pool!OnePlace, Pool!Hands
  <2>2. CASE objs' = <<>>
    BY <1>1, <2>2 DEF PoolInv, Pool!PoolRight, Pool!OnePlace, Pool!Hands
  <2> QED BY <1>2, <2>1, <2>2
<1>5. Pool!Bounded'
  <2>1. Len(objs) <= PoolSize /\ Len(<<>>) <= PoolSize
    BY DEF PoolInv, Pool!PoolRight, Pool!Bounded
  <2>2. Len(objs') <= PoolSize
    BY <1>2, <2>1
  <2> QED BY <1>2, <2>2 DEF Pool!Bounded
<1>6. Pool!Alone'
  BY <1>1 DEF PoolInv, Pool!PoolRight, Pool!Alone
<1> QED BY <1>3, <1>4, <1>5, <1>6 DEF PoolInv, Pool!PoolRight

LEMMA PoolStep ==
    ASSUME PoolSize \in Nat
    PROVE  PoolInv /\ [Pool!Next]_(Pool!poolVars) => PoolInv'
BY TryObtainStep, TakeStep, PopStep, ObtainedStep, ReleaseStep, TryGiveStep, PushObjectStep,
   GivenStep, OwnerStep DEF Pool!Next

-----------------------------------------------------------------------------
(* The notice center (NoticeCenter). *)

Calls ==
    {Notice!Idle}
    \cup [at : {"add"}, tag : Tags, disp : Notice!Dispatchers, alone : BOOLEAN]
    \cup [at : {"erase"}, tag : Tags, disp : Notice!Dispatchers]
    \cup [at : {"leave", "copy"}, disp : Notice!Dispatchers]
    \cup [at : {"call"}, due : SUBSET Tags]
NoticeTypes ==
    /\ made \in 0..MaxDispatchers /\ center \in 0..made
    /\ listeners \in [Notice!Dispatchers -> SUBSET Tags] /\ undisturbed \subseteq Tags
    /\ op \in [NoticeThreads -> Calls]
    /\ \A t \in NoticeThreads : op[t].at \in {"add", "erase", "leave"} => op[t].disp <= made

\* A listener on its way that has met no removal goes into the center's dispatcher, from
\* which nobody removes.
Adding == \A t \in NoticeThreads : op[t].at = "add" /\ op[t].alone =>
    /\ center # 0 /\ op[t].disp = center
    /\ \A u \in NoticeThreads : op[u].at \in {"erase", "leave"} => op[u].disp # center

\* The dispatcher that was found empty and has not left yet has no such listener.
Leaving == \A t \in NoticeThreads : op[t].at = "leave" /\ op[t].disp = center => undisturbed = {}
NoticeInv == NoticeTypes /\ Adding /\ Leaving /\ Notice!NotLost

LEMMA CallFields ==
    ASSUME NEW c \in Calls
    PROVE  /\ c.at \in {"idle", "add", "erase", "leave", "copy", "call"}
           /\ c.at = "idle" <=> c = Notice!Idle
           /\ c.at = "add" => /\ c.tag \in Tags /\ c.disp \in Notice!Dispatchers
                              /\ c.alone \in BOOLEAN
                              /\ [c EXCEPT !.alone = FALSE] \in Calls
                              /\ [c EXCEPT !.alone = FALSE].at = "add"
                              /\ [c EXCEPT !.alone = FALSE].disp = c.disp
                              /\ ~[c EXCEPT !.alone = FALSE].alone
           /\ c.at = "erase" => c.tag \in Tags /\ c.disp \in Notice!Dispatchers
           /\ c.at \in {"leave", "copy"} => c.disp \in Notice!Dispatchers
           /\ c.at = "call" => c.due \subseteq Tags
<1> DEFINE r == [c EXCEPT !.alone = FALSE]
<1>1. c = Notice!Idle => c.at = "idle"
  BY DEF Notice!Idle
<1>2. c \in {Notice!Idle} \/ c.at \in {"add", "erase", "leave", "copy", "call"}
  BY DEF Calls
<1>3. c.at = "add" =>
          c \in [at : {"add"}, tag : Tags, disp : Notice!Dispatchers, alone : BOOLEAN]
  BY <1>1 DEF Calls
<1>4. c.at = "add" => /\ r \in [at : {"add"}, tag : Tags, disp : Notice!Dispatchers, alone : BOOLEAN]
                      /\ r.at = "add" /\ r.disp = c.disp /\ ~r.alone
  BY <1>3
<1>5. c.at = "add" => r \in Calls
  BY <1>4 DEF Calls
<1>6. /\ c.at = "erase" => c.tag \in Tags /\ c.disp \in Notice!Dispatchers
      /\ c.at \in {"leave", "copy"} => c.disp \in Notice!Dispatchers
      /\ c.at = "call" => c.due \subseteq Tags
  BY <1>1 DEF Calls
<1> QED BY <1>1, <1>2, <1>3, <1>4, <1>5, <1>6

\* Disturb changes no call but those that add to the center's dispatcher.
LEMMA Disturbed ==
    ASSUME NoticeTypes
    PROVE  /\ Notice!Disturb \in [NoticeThreads -> Calls]
           /\ \A t \in NoticeThreads :
                 /\ Notice!Disturb[t].at = op[t].at
                 /\ op[t].at # "add" => Notice!Disturb[t] = op[t]
                 /\ op[t].at = "add" => Notice!Disturb[t].disp = op[t].disp
                 /\ op[t].at = "add" /\ Notice!Disturb[t].alone =>
                       op[t].alone /\ op[t].disp # center
<1> SUFFICES ASSUME NEW t \in NoticeThreads
             PROVE  LET d == Notice!Disturb[t]
                    IN  /\ d \in Calls /\ d.at = op[t].at
                        /\ op[t].at # "add" => d = op[t]
                        /\ op[t].at = "add" => d.disp = op[t].disp
                        /\ op[t].at = "add" /\ d.alone => op[t].alone /\ op[t].disp # center
  BY DEF Notice!Disturb
<1>1. op[t] \in Calls
  BY DEF NoticeTypes
<1>2. Notice!Disturb[t] = IF op[t].at = "add" /\ op[t].disp = center
                          THEN [op[t] EXCEPT !.alone = FALSE] ELSE op[t]
  BY DEF Notice!Disturb
<1>3. PICK c \in Calls : c = op[t]
  BY <1>1
<1>4. CASE c.at = "add" /\ c.disp = center
  BY <1>2, <1>3, <1>4, CallFields
<1>5. CASE ~(c.at = "add" /\ c.disp = center)
  BY <1>2, <1>3, <1>5
<1> QED BY <1>4, <1>5

LEMMA NoticeStart == ASSUME MaxDispatchers \in Nat PROVE Notice!Init => NoticeInv
<1> SUFFICES ASSUME Notice!Init PROVE NoticeInv
  OBVIOUS
<1>1. /\ center = 0 /\ made = 0 /\ listeners = [d \in Notice!Dispatchers |-> {}]
      /\ op = [t \in NoticeThreads |-> Notice!Idle] /\ undisturbed = {}
  BY DEF Notice!Init
<1>2. Notice!Idle \in Calls /\ Notice!Idle.at = "idle"
  BY DEF Calls, Notice!Idle
<1>3. NoticeTypes
  BY <1>1, <1>2 DEF NoticeTypes
<1> QED BY <1>1, <1>2, <1>3 DEF NoticeInv, Adding, Leaving, Notice!NotLost

\* A thread's call goes on and the others go on alone, or are disturbed.
LEMMA GetDispatcherStep ==
    ASSUME MaxDispatchers \in Nat, NoticeInv, NEW t \in NoticeThreads, NEW tag \in Tags,
           Notice!GetDispatcher(t, tag)
    PROVE  NoticeInv'
<1> DEFINE free == \A u \in NoticeThreads : op[u].at \in {"erase", "leave"} => op[u].disp # center'
           c == [at |-> "add", tag |-> tag, disp |-> center', alone |-> free]
<1>1. /\ op[t] = Notice!Idle /\ op' = [op EXCEPT ![t] = c]
      /\ UNCHANGED <<listeners, undisturbed>>
      /\ IF center = 0 THEN made < MaxDispatchers /\ made' = made + 1 /\ center' = made + 1
                       ELSE UNCHANGED <<made, center>>
  BY DEF Notice!GetDispatcher, Notice!Removing
<1>2. /\ made \in 0..MaxDispatchers /\ center \in 0..made
      /\ made' \in 0..MaxDispatchers /\ center' \in 1..made' /\ made <= made'
      /\ center' \in Notice!Dispatchers
  BY <1>1 DEF NoticeInv, NoticeTypes, Notice!Dispatchers
<1>3. c \in Calls /\ c.at = "add" /\ c.disp = center' /\ c.alone = free
  BY <1>2 DEF Calls
<1> HIDE DEF c
<1>4. /\ op \in [NoticeThreads -> Calls] /\ op' \in [NoticeThreads -> Calls] /\ op'[t] = c
      /\ \A u \in NoticeThreads \ {t} : op'[u] = op[u]
  BY <1>1, <1>3 DEF NoticeInv, NoticeTypes
<1>5. op[t].at = "idle"
  BY <1>1, <1>4, CallFields
<1>6. \A u \in NoticeThreads : op'[u].at \in {"erase", "leave"} => op'[u] = op[u]
  BY <1>3, <1>4
<1>7. \A u \in NoticeThreads : op[u].at \in {"add", "erase", "leave"} =>
          op[u].disp <= made /\ op[u].disp \in Nat
  <2>1. \A u \in NoticeThreads : op[u].at \in {"add", "erase", "leave"} => op[u].disp \in Notice!Dispatchers
    BY <1>4, CallFields
  <2> QED BY <2>1 DEF NoticeInv, NoticeTypes, Notice!Dispatchers
<1>8. NoticeTypes'
  <2>1. \A u \in NoticeThreads : op'[u].at \in {"add", "erase", "leave"} => op'[u].disp <= made'
    BY <1>2, <1>3, <1>4, <1>7
  <2> QED BY <1>1, <1>2, <1>4, <2>1 DEF NoticeInv, NoticeTypes
<1>9. Adding'
  <2> SUFFICES ASSUME NEW u \in NoticeThreads, op'[u].at = "add", op'[u].alone
               PROVE  /\ center' # 0 /\ op'[u].disp = center'
                      /\ \A v \in NoticeThreads :
                            op'[v].at \in {"erase", "leave"} => op'[v].disp # center'
    BY DEF Adding
  <2>1. CASE u = t
    <3>1. free /\ op'[u].disp = center'
      <4> HIDE DEF free
      <4> QED BY <1>3, <1>4, <2>1
    <3>2. center' # 0
      BY <1>2
    <3> QED BY <1>4, <1>6, <3>1, <3>2
  <2>2. CASE u # t
    <3>1. /\ center # 0 /\ op[u].disp = center
          /\ \A v \in NoticeThreads : op[v].at \in {"erase", "leave"} => op[v].disp # center
      BY <1>4, <2>2 DEF NoticeInv, Adding
    <3> QED BY <1>1, <1>4, <1>6, <2>2, <3>1
  <2> QED BY <2>1, <2>2
<1>10. Leaving'
  <2> SUFFICES ASSUME NEW u \in NoticeThreads, op'[u].at = "leave", op'[u].disp = center'
               PROVE  undisturbed' = {}
    BY DEF Leaving
  <2>1. u # t /\ op[u].at = "leave" /\ op[u].disp = center' /\ op[u].disp <= made
    BY <1>3, <1>4, <1>7
  <2>2. center' = center
    BY <1>1, <1>2, <2>1
  <2> QED BY <1>1, <2>1, <2>2 DEF NoticeInv, Leaving
<1>11. Notice!NotLost'
  BY <1>1 DEF NoticeInv, Notice!NotLost
<1> QED BY <1>8, <1>9, <1>10, <1>11 DEF NoticeInv

\* One thread goes on and the others stay where they are.
LEMMA OneCall ==
    ASSUME NoticeTypes, NEW t \in NoticeThreads, NEW c \in Calls, op' = [op EXCEPT ![t] = c]
    PROVE  /\ op' \in [NoticeThreads -> Calls] /\ op'[t] = c
           /\ \A u \in NoticeThreads \ {t} : op'[u] = op[u]
BY DEF NoticeTypes

\* What the invariant says, in the terms of the steps.
LEMMA NoticeNow ==
    ASSUME MaxDispatchers \in Nat, NoticeInv
    PROVE  /\ NoticeTypes /\ made \in Nat /\ center \in 0..made
           /\ \A t \in NoticeThreads :
                 /\ op[t] \in Calls
                 /\ op[t].at \in {"add", "erase", "leave"} =>
                       op[t].disp <= made /\ op[t].disp \in Nat \ {0}
                 /\ op[t].at = "add" /\ op[t].alone =>
                       /\ center # 0 /\ op[t].disp = center
                       /\ \A u \in NoticeThreads :
                             op[u].at \in {"erase", "leave"} => op[u].disp # center
                 /\ op[t].at = "leave" /\ op[t].disp = center => undisturbed = {}
           /\ undisturbed # {} => center # 0 /\ undisturbed \subseteq listeners[center]
<1>1. NoticeTypes /\ made \in Nat /\ center \in 0..made
  BY DEF NoticeInv, NoticeTypes
<1>2. \A t \in NoticeThreads : op[t] \in Calls
  BY DEF NoticeInv, NoticeTypes
<1>3. \A t \in NoticeThreads : op[t].at \in {"add", "erase", "leave"} =>
          op[t].disp <= made /\ op[t].disp \in Nat \ {0}
  <2>1. \A t \in NoticeThreads :
            op[t].at \in {"add", "erase", "leave"} => op[t].disp \in Notice!Dispatchers
    BY <1>2, CallFields
  <2> QED BY <2>1 DEF NoticeInv, NoticeTypes, Notice!Dispatchers
<1> QED BY <1>1, <1>2, <1>3 DEF NoticeInv, Adding, Leaving, Notice!NotLost

\* An emitting thread changes nothing but its own call.
LEMMA EmittingStep ==
    ASSUME MaxDispatchers \in Nat, NoticeInv, NEW t \in NoticeThreads,
           NEW c \in Calls, c.at \in {"idle", "copy", "call"}, op' = [op EXCEPT ![t] = c],
           UNCHANGED <<center, made, listeners, undisturbed>>
    PROVE  NoticeInv'
<1>1. /\ op' \in [NoticeThreads -> Calls] /\ op'[t] = c
      /\ \A u \in NoticeThreads \ {t} : op'[u] = op[u]
  BY NoticeNow, OneCall
<1>2. NoticeTypes'
  BY <1>1 DEF NoticeInv, NoticeTypes
<1>3. Adding' /\ Leaving' /\ Notice!NotLost'
  BY <1>1 DEF NoticeInv, Adding, Leaving, Notice!NotLost
<1> QED BY <1>2, <1>3 DEF NoticeInv

LEMMA EmitsStep ==
    ASSUME MaxDispatchers \in Nat, NoticeInv, NEW t \in NoticeThreads,
           \/ Notice!Emit(t) \/ Notice!Copy(t) \/ Notice!Emitted(t)
           \/ \E stop \in BOOLEAN : Notice!CallListener(t, stop)
    PROVE  NoticeInv'
<1> SUFFICES \E c \in Calls : c.at \in {"idle", "copy", "call"} /\ op' = [op EXCEPT ![t] = c]
  BY EmittingStep DEF Notice!Emit, Notice!Copy, Notice!Emitted, Notice!CallListener
<1>0. op[t] \in Calls /\ NoticeTypes /\ center \in 0..made
  BY NoticeNow
<1>1. CASE Notice!Emit(t)
  <2> DEFINE c == [at |-> "copy", disp |-> center]
  <2>1. center \in Notice!Dispatchers /\ op' = [op EXCEPT ![t] = c]
    BY <1>0, <1>1 DEF Notice!Emit, NoticeTypes, Notice!Dispatchers
  <2>2. c \in Calls /\ c.at = "copy"
    BY <2>1 DEF Calls
  <2> HIDE DEF c
  <2> QED BY <2>1, <2>2
<1>2. CASE Notice!Copy(t)
  <2> DEFINE c == [at |-> "call", due |-> listeners[op[t].disp]]
  <2>1. op[t].at = "copy" /\ op' = [op EXCEPT ![t] = c]
    BY <1>2 DEF Notice!Copy
  <2>2. op[t].disp \in Notice!Dispatchers
    BY <1>0, <2>1, CallFields
  <2>3. c \in Calls /\ c.at = "call"
    BY <1>0, <2>2 DEF Calls, NoticeTypes
  <2> HIDE DEF c
  <2> QED BY <2>1, <2>3
<1>3. CASE Notice!Emitted(t)
  <2>1. op' = [op EXCEPT ![t] = Notice!Idle]
    BY <1>3 DEF Notice!Emitted, Notice!Return
  <2>2. Notice!Idle \in Calls /\ Notice!Idle.at = "idle"
    BY DEF Calls, Notice!Idle
  <2> QED BY <2>1, <2>2
<1>4. CASE \E stop \in BOOLEAN : Notice!CallListener(t, stop)
  <2>1. op[t].at = "call" /\ \E d \in SUBSET op[t].due : op' = [op EXCEPT ![t].due = d]
    <3>1. PICK stop \in BOOLEAN : Notice!CallListener(t, stop)
      BY <1>4
    <3>2. PICK tag \in op[t].due :
              op' = [op EXCEPT ![t].due = IF stop THEN {} ELSE op[t].due \ {tag}]
      BY <3>1 DEF Notice!CallListener
    <3>3. (IF stop THEN {} ELSE op[t].due \ {tag}) \in SUBSET op[t].due
      OBVIOUS
    <3> QED BY <3>1, <3>2, <3>3 DEF Notice!CallListener
  <2>2. PICK d \in SUBSET op[t].due : op' = [op EXCEPT ![t].due = d]
    BY <2>1
  <2> DEFINE c == [op[t] EXCEPT !.due = d]
  <2>3. op[t] \in [at : {"call"}, due : SUBSET Tags]
    BY <1>0, <2>1 DEF Calls, Notice!Idle
  <2>4. c \in [at : {"call"}, due : SUBSET Tags] /\ c.at = "call"
    BY <2>3
  <2>5. c \in Calls
    BY <2>4 DEF Calls
  <2>6. op' = [op EXCEPT ![t] = c]
    BY <2>2
  <2> HIDE DEF c
  <2> QED BY <2>4, <2>5, <2>6
<1> QED BY <1>1, <1>2, <1>3, <1>4

LEMMA AddListenerStep ==
    ASSUME MaxDispatchers \in Nat, NoticeInv, NEW t \in NoticeThreads, Notice!AddListener(t)
    PROVE  NoticeInv'
<1>1. /\ op[t].at = "add" /\ op' = [op EXCEPT ![t] = Notice!Idle]
      /\ listeners' = [listeners EXCEPT ![op[t].disp] = listeners[op[t].disp] \cup {op[t].tag}]
      /\ undisturbed' = IF op[t].alone THEN undisturbed \cup {op[t].tag} ELSE undisturbed
      /\ UNCHANGED <<center, made>>
  BY DEF Notice!AddListener, Notice!Return
<1>2. Notice!Idle \in Calls /\ Notice!Idle.at = "idle"
  BY DEF Calls, Notice!Idle
<1>3. /\ op' \in [NoticeThreads -> Calls] /\ op'[t].at = "idle"
      /\ \A u \in NoticeThreads \ {t} : op'[u] = op[u]
  BY <1>1, <1>2, OneCall, NoticeNow
<1>4. op[t].tag \in Tags /\ op[t].disp \in Notice!Dispatchers
  BY <1>1, CallFields, NoticeNow
<1>5. /\ listeners' \in [Notice!Dispatchers -> SUBSET Tags] /\ undisturbed' \subseteq Tags
      /\ \A d \in Notice!Dispatchers : listeners[d] \subseteq listeners'[d]
      /\ op[t].tag \in listeners'[op[t].disp]
  BY <1>1, <1>4, NoticeNow DEF NoticeTypes
<1>6. NoticeTypes'
  BY <1>1, <1>3, <1>5, NoticeNow DEF NoticeTypes
<1>7. Adding'
  BY <1>1, <1>3 DEF NoticeInv, Adding
<1>8. Leaving'
  <2> SUFFICES ASSUME NEW u \in NoticeThreads, op'[u].at = "leave", op'[u].disp = center
               PROVE  undisturbed' = {}
    BY <1>1 DEF Leaving
  <2>1. op[u].at = "leave" /\ op[u].disp = center
    BY <1>3
  <2>2. undisturbed = {} /\ ~op[t].alone
    BY <1>1, <2>1, NoticeNow
  <2> QED BY <1>1, <2>2
<1>9. Notice!NotLost'
  <2> SUFFICES ASSUME NEW x \in undisturbed' PROVE center # 0 /\ x \in listeners'[center]
    BY <1>1 DEF Notice!NotLost
  <2>1. CASE x \in undisturbed
    <3>1. center # 0 /\ x \in listeners[center]
      BY <2>1, NoticeNow
    <3>2. center \in Notice!Dispatchers
      BY <3>1, NoticeNow DEF Notice!Dispatchers, NoticeTypes
    <3> QED BY <1>5, <3>1, <3>2
  <2>2. CASE x \notin undisturbed
    <3>1. x = op[t].tag /\ op[t].alone
      BY <1>1, <2>2
    <3>2. center # 0 /\ op[t].disp = center
      BY <1>1, <3>1, NoticeNow
    <3> QED BY <1>5, <3>1, <3>2
  <2> QED BY <2>1, <2>2
<1> QED BY <1>6, <1>7, <1>8, <1>9 DEF NoticeInv

LEMMA FindDispatcherStep ==
    ASSUME MaxDispatchers \in Nat, NoticeInv, NEW t \in NoticeThreads, NEW tag \in Tags,
           Notice!FindDispatcher(t, tag)
    PROVE  NoticeInv'
<1> DEFINE c == [at |-> "erase", tag |-> tag, disp |-> center]
<1>1. /\ op[t] = Notice!Idle /\ center # 0 /\ op' = [Notice!Disturb EXCEPT ![t] = c]
      /\ UNCHANGED <<center, made, listeners, undisturbed>>
  BY DEF Notice!FindDispatcher
<1>2. center \in Notice!Dispatchers
  BY <1>1, NoticeNow DEF NoticeTypes, Notice!Dispatchers
<1>3. c \in Calls /\ c.at = "erase" /\ c.disp = center
  BY <1>2 DEF Calls
<1> HIDE DEF c
<1>4. /\ Notice!Disturb \in [NoticeThreads -> Calls]
      /\ \A u \in NoticeThreads :
            /\ Notice!Disturb[u].at = op[u].at
            /\ op[u].at # "add" => Notice!Disturb[u] = op[u]
            /\ op[u].at = "add" => Notice!Disturb[u].disp = op[u].disp
            /\ op[u].at = "add" /\ Notice!Disturb[u].alone => op[u].alone /\ op[u].disp # center
  BY NoticeNow, Disturbed
<1>5. /\ op' \in [NoticeThreads -> Calls] /\ op'[t] = c
      /\ \A u \in NoticeThreads \ {t} : op'[u] = Notice!Disturb[u]
  BY <1>1, <1>3, <1>4
<1>6. NoticeTypes'
  <2>1. \A u \in NoticeThreads : op'[u].at \in {"add", "erase", "leave"} => op'[u].disp <= made
    BY <1>3, <1>4, <1>5, NoticeNow
  <2> QED BY <1>1, <1>5, <2>1, NoticeNow DEF NoticeTypes
<1>7. Adding'
  <2>1. \A u \in NoticeThreads : ~(op'[u].at = "add" /\ op'[u].alone)
    BY <1>3, <1>4, <1>5, NoticeNow
  <2> QED BY <2>1 DEF Adding
<1>8. Leaving'
  BY <1>1, <1>3, <1>4, <1>5 DEF NoticeInv, Leaving
<1>9. Notice!NotLost'
  BY <1>1 DEF NoticeInv, Notice!NotLost
<1> QED BY <1>6, <1>7, <1>8, <1>9 DEF NoticeInv

LEMMA DelListenerStep ==
    ASSUME MaxDispatchers \in Nat, NoticeInv, NEW t \in NoticeThreads, Notice!DelListener(t)
    PROVE  NoticeInv'
<1> DEFINE d == op[t].disp
           left == listeners[d] \ {op[t].tag}
           c == IF left = {} THEN [at |-> "leave", disp |-> d] ELSE Notice!Idle
<1>1. /\ op[t].at = "erase" /\ op' = [op EXCEPT ![t] = c]
      /\ listeners' = [listeners EXCEPT ![d] = left]
      /\ undisturbed' = undisturbed \ {op[t].tag} /\ UNCHANGED <<center, made>>
  BY DEF Notice!DelListener
<1>2. d \in Notice!Dispatchers /\ d <= made
  BY <1>1, CallFields, NoticeNow
<1>3. c \in Calls /\ c.at \in {"leave", "idle"} /\ (c.at = "leave" => left = {} /\ c.disp = d)
  <2>1. CASE left = {}
    BY <1>2, <2>1 DEF Calls
  <2>2. CASE left # {}
    BY <2>2 DEF Calls, Notice!Idle
  <2> QED BY <2>1, <2>2
<1>4. /\ listeners' \in [Notice!Dispatchers -> SUBSET Tags] /\ undisturbed' \subseteq Tags
      /\ listeners'[d] = left
      /\ \A x \in Notice!Dispatchers : listeners[x] \ {op[t].tag} \subseteq listeners'[x]
  BY <1>1, <1>2, NoticeNow DEF NoticeTypes
<1> HIDE DEF c
<1>5. /\ op' \in [NoticeThreads -> Calls] /\ op'[t] = c
      /\ \A u \in NoticeThreads \ {t} : op'[u] = op[u]
  BY <1>1, <1>3, OneCall, NoticeNow
<1>6. NoticeTypes'
  <2>1. \A u \in NoticeThreads : op'[u].at \in {"add", "erase", "leave"} => op'[u].disp <= made
    BY <1>2, <1>3, <1>5, NoticeNow
  <2> QED BY <1>1, <1>4, <1>5, <2>1, NoticeNow DEF NoticeTypes
<1>7. Adding'
  <2> SUFFICES ASSUME NEW u \in NoticeThreads, op'[u].at = "add", op'[u].alone
               PROVE  /\ center # 0 /\ op'[u].disp = center
                      /\ \A v \in NoticeThreads :
                            op'[v].at \in {"erase", "leave"} => op'[v].disp # center
    BY <1>1 DEF Adding
  <2>1. u # t /\ op'[u] = op[u]
    BY <1>3, <1>5
  <2>2. /\ center # 0 /\ op[u].disp = center
        /\ \A v \in NoticeThreads : op[v].at \in {"erase", "leave"} => op[v].disp # center
    BY <2>1, NoticeNow
  <2>3. op'[t].at = "leave" => op'[t].disp # center
    BY <1>1, <1>3, <1>5, <2>2
  <2> QED BY <1>3, <1>5, <2>1, <2>2, <2>3
<1>8. Notice!NotLost'
  <2> SUFFICES ASSUME NEW x \in undisturbed' PROVE center # 0 /\ x \in listeners'[center]
    BY <1>1 DEF Notice!NotLost
  <2>1. center # 0 /\ x \in listeners[center] /\ x # op[t].tag
    BY <1>1, NoticeNow
  <2>2. center \in Notice!Dispatchers
    BY <2>1, NoticeNow DEF Notice!Dispatchers, NoticeTypes
  <2> QED BY <1>4, <2>1, <2>2
<1>9. Leaving'
  <2> SUFFICES ASSUME NEW u \in NoticeThreads, op'[u].at = "leave", op'[u].disp = center
               PROVE  undisturbed' = {}
    BY <1>1 DEF Leaving
  <2>1. CASE u = t
    <3>1. left = {} /\ d = center
      BY <1>3, <1>5, <2>1
    <3>2. \A x \in undisturbed' : x \in listeners'[center]
      BY <1>1, <1>8 DEF Notice!NotLost
    <3> QED BY <1>4, <3>1, <3>2
  <2>2. CASE u # t
    <3>1. undisturbed = {}
      BY <1>5, <2>2, NoticeNow
    <3> QED BY <1>1, <3>1
  <2> QED BY <2>1, <2>2
<1> QED BY <1>6, <1>7, <1>8, <1>9 DEF NoticeInv

LEMMA DelDispatcherStep ==
    ASSUME MaxDispatchers \in Nat, NoticeInv, NEW t \in NoticeThreads, Notice!DelDispatcher(t)
    PROVE  NoticeInv'
<1>1. /\ op[t].at = "leave" /\ op' = [op EXCEPT ![t] = Notice!Idle]
      /\ center' = IF center = op[t].disp THEN 0 ELSE center
      /\ UNCHANGED <<made, listeners, undisturbed>>
  BY DEF Notice!DelDispatcher, Notice!Return
<1>2. Notice!Idle \in Calls /\ Notice!Idle.at = "idle"
  BY DEF Calls, Notice!Idle
<1>3. /\ op' \in [NoticeThreads -> Calls] /\ op'[t].at = "idle"
      /\ \A u \in NoticeThreads \ {t} : op'[u] = op[u]
  BY <1>1, <1>2, OneCall, NoticeNow
<1>4. center' \in 0..made
  BY <1>1, NoticeNow
<1>5. NoticeTypes'
  BY <1>1, <1>3, <1>4, NoticeNow DEF NoticeTypes
<1>6. Adding'
  <2> SUFFICES ASSUME NEW u \in NoticeThreads, op'[u].at = "add", op'[u].alone
               PROVE  /\ center' # 0 /\ op'[u].disp = center'
                      /\ \A v \in NoticeThreads :
                            op'[v].at \in {"erase", "leave"} => op'[v].disp # center'
    BY DEF Adding
  <2>1. op'[u] = op[u]
    BY <1>3
  <2>2. /\ center # 0 /\ op[u].disp = center
        /\ \A v \in NoticeThreads : op[v].at \in {"erase", "leave"} => op[v].disp # center
    BY <2>1, NoticeNow
  <2>3. center' = center
    BY <1>1, <2>2
  <2> QED BY <1>3, <2>1, <2>2, <2>3
<1>7. Leaving'
  <2> SUFFICES ASSUME NEW u \in NoticeThreads, op'[u].at = "leave", op'[u].disp = center'
               PROVE  undisturbed = {}
    BY <1>1 DEF Leaving
  <2>1. op'[u] = op[u]
    BY <1>3
  <2>2. center' = center
    BY <1>1, <2>1, NoticeNow
  <2> QED BY <2>1, <2>2, NoticeNow
<1>8. Notice!NotLost'
  <2> SUFFICES ASSUME undisturbed # {}
               PROVE  \A x \in undisturbed : center' # 0 /\ x \in listeners[center']
    BY <1>1 DEF Notice!NotLost
  <2>1. center # op[t].disp
    BY <1>1, NoticeNow
  <2> QED BY <1>1, <2>1, NoticeNow
<1> QED BY <1>5, <1>6, <1>7, <1>8 DEF NoticeInv

\* The two calls that disturb every listener on its way and may empty the map.
LEMMA DelEverywhereStep ==
    ASSUME MaxDispatchers \in Nat, NoticeInv, NEW t \in NoticeThreads,
           Notice!ClearAll(t) \/ \E tag \in Tags : Notice!DelEverywhere(t, tag)
    PROVE  NoticeInv'
<1>1. op' = Notice!Disturb /\ made' = made
  BY DEF Notice!ClearAll, Notice!DelEverywhere
<1>2. /\ center' \in {center, 0} /\ undisturbed' \subseteq undisturbed
      /\ listeners' \in [Notice!Dispatchers -> SUBSET Tags]
      /\ undisturbed' # {} => center' # 0 /\ undisturbed' \subseteq listeners'[center']
  <2>1. CASE Notice!ClearAll(t)
    BY <2>1, NoticeNow DEF Notice!ClearAll, NoticeTypes
  <2>2. CASE \E tag \in Tags : Notice!DelEverywhere(t, tag)
    <3>1. PICK tag \in Tags : Notice!DelEverywhere(t, tag)
      BY <2>2
    <3> DEFINE left == listeners[center] \ {tag}
    <3>2. /\ center # 0 /\ listeners' = [listeners EXCEPT ![center] = left]
          /\ center' = IF left = {} THEN 0 ELSE center
          /\ undisturbed' = undisturbed \ {tag}
      BY <3>1 DEF Notice!DelEverywhere
    <3>3. center \in Notice!Dispatchers
      BY <3>2, NoticeNow DEF Notice!Dispatchers, NoticeTypes
    <3>4. listeners' \in [Notice!Dispatchers -> SUBSET Tags] /\ listeners'[center] = left
      BY <3>2, <3>3, NoticeNow DEF NoticeTypes
    <3>5. undisturbed' \subseteq left
      BY <3>2, NoticeNow
    <3> HIDE DEF left
    <3> QED BY <3>2, <3>4, <3>5
  <2> QED BY <2>1, <2>2
<1>3. /\ Notice!Disturb \in [NoticeThreads -> Calls]
      /\ \A u \in NoticeThreads :
            /\ Notice!Disturb[u].at = op[u].at
            /\ op[u].at # "add" => Notice!Disturb[u] = op[u]
            /\ op[u].at = "add" => Notice!Disturb[u].disp = op[u].disp
            /\ op[u].at = "add" /\ Notice!Disturb[u].alone => op[u].alone /\ op[u].disp # center
  BY NoticeNow, Disturbed
<1>4. NoticeTypes'
  <2>1. center' \in 0..made
    BY <1>2, NoticeNow
  <2>2. \A u \in NoticeThreads : op'[u].at \in {"add", "erase", "leave"} => op'[u].disp <= made
    BY <1>1, <1>3, NoticeNow
  <2>3. made \in 0..MaxDispatchers /\ undisturbed' \subseteq Tags
    BY <1>2, NoticeNow DEF NoticeTypes
  <2> QED BY <1>1, <1>2, <1>3, <2>1, <2>2, <2>3 DEF NoticeTypes
<1>5. Adding'
  <2>1. \A u \in NoticeThreads : ~(op'[u].at = "add" /\ op'[u].alone)
    BY <1>1, <1>3, NoticeNow
  <2> QED BY <2>1 DEF Adding
<1>6. Leaving'
  <2> SUFFICES ASSUME NEW u \in NoticeThreads, op'[u].at = "leave", op'[u].disp = center'
               PROVE  undisturbed' = {}
    BY DEF Leaving
  <2>1. op[u].at = "leave" /\ op[u].disp = center'
    BY <1>1, <1>3
  <2>2. center' = center
    BY <1>2, <2>1, NoticeNow
  <2>3. undisturbed = {}
    BY <2>1, <2>2, NoticeNow
  <2> QED BY <1>2, <2>3
<1>7. Notice!NotLost'
  BY <1>2 DEF Notice!NotLost
<1> QED BY <1>4, <1>5, <1>6, <1>7 DEF NoticeInv

LEMMA NoticeStep ==
    ASSUME MaxDispatchers \in Nat
    PROVE  NoticeInv /\ [Notice!Next]_(Notice!noticeVars) => NoticeInv'
<1> SUFFICES ASSUME NoticeInv, [Notice!Next]_(Notice!noticeVars) PROVE NoticeInv'
  OBVIOUS
<1>1. CASE UNCHANGED Notice!noticeVars
  BY <1>1 DEF Notice!noticeVars, NoticeInv, NoticeTypes, Adding, Leaving, Notice!NotLost
<1> QED BY <1>1, GetDispatcherStep, AddListenerStep, FindDispatcherStep, DelListenerStep,
           DelDispatcherStep, DelEverywhereStep, EmitsStep DEF Notice!Next

-----------------------------------------------------------------------------
(* Families of sets that hold the datagrams 1..n, each in one place. *)

Family(f, B, n) == /\ \A b \in B : f[b] \subseteq 1..n
                   /\ \A b, c \in B : b # c => f[b] \cap f[c] = {}
Covered(f, B, n) == \A u \in 1..n : \E b \in B : u \in f[b]

LEMMA FamilyFewer ==
    ASSUME NEW B, NEW n, NEW f, NEW g, Family(f, B, n), \A b \in B : g[b] \subseteq f[b]
    PROVE  Family(g, B, n)
<1>1. \A b \in B : g[b] \subseteq 1..n
  BY DEF Family
<1>2. ASSUME NEW b \in B, NEW c \in B, b # c PROVE g[b] \cap g[c] = {}
  <2>1. f[b] \cap f[c] = {} /\ g[b] \subseteq f[b] /\ g[c] \subseteq f[c]
    BY <1>2 DEF Family
  <2> QED BY <2>1
<1> QED BY <1>1, <1>2 DEF Family

\* A datagram goes from one place to another.
LEMMA FamilyMove ==
    ASSUME NEW B, NEW n, NEW f, NEW g, Family(f, B, n), NEW x \in B, NEW y \in B, x # y,
           NEW u \in f[x], g[x] = f[x] \ {u}, g[y] = f[y] \cup {u},
           \A b \in B \ {x, y} : g[b] = f[b]
    PROVE  Family(g, B, n) /\ (Covered(f, B, n) => Covered(g, B, n))
<1>1. \A b \in B : g[b] \subseteq 1..n
  BY DEF Family
<1>2. \A b \in B \ {x} : u \notin f[b]
  BY DEF Family
<1>3. ASSUME NEW b \in B, NEW c \in B, b # c PROVE g[b] \cap g[c] = {}
  <2>1. f[b] \cap f[c] = {}
    BY <1>3 DEF Family
  <2>2. g[b] \subseteq f[b] \cup {u} /\ g[c] \subseteq f[c] \cup {u}
    OBVIOUS
  <2>3. u \notin g[b] \/ u \notin g[c]
    BY <1>2, <1>3
  <2> QED BY <2>1, <2>2, <2>3
<1>4. ASSUME Covered(f, B, n), NEW v \in 1..n PROVE \E b \in B : v \in g[b]
  <2>1. PICK b \in B : v \in f[b]
    BY <1>4 DEF Covered
  <2>2. CASE v = u
    BY <2>2
  <2>3. CASE v # u
    <3>1. v \in g[b]
      BY <2>1, <2>3
    <3> QED BY <3>1
  <2> QED BY <2>2, <2>3
<1>5. Family(g, B, n)
  BY <1>1, <1>3 DEF Family
<1> QED BY <1>4, <1>5 DEF Covered

\* The next datagram comes in, or is not taken.
LEMMA FamilyNew ==
    ASSUME NEW B, NEW n \in Nat, NEW f, NEW g, Family(f, B, n), NEW y \in B,
           g[y] = f[y] \cup {n + 1}, \A b \in B \ {y} : g[b] = f[b]
    PROVE  Family(g, B, n + 1) /\ (Covered(f, B, n) => Covered(g, B, n + 1))
<1>1. \A b \in B : f[b] \subseteq 1..n /\ n + 1 \notin f[b]
  BY DEF Family
<1>2. \A b \in B : g[b] \subseteq f[b] \cup {n + 1} /\ f[b] \subseteq g[b]
  OBVIOUS
<1>3. \A b \in B : g[b] \subseteq 1..n + 1
  BY <1>1, <1>2
<1>4. ASSUME NEW b \in B, NEW c \in B, b # c PROVE g[b] \cap g[c] = {}
  <2>1. f[b] \cap f[c] = {}
    BY <1>4 DEF Family
  <2>2. n + 1 \notin g[b] \/ n + 1 \notin g[c]
    BY <1>1, <1>4
  <2> QED BY <1>2, <2>1, <2>2
<1>5. ASSUME Covered(f, B, n), NEW v \in 1..n + 1 PROVE \E b \in B : v \in g[b]
  <2>1. CASE v = n + 1
    BY <2>1
  <2>2. CASE v # n + 1
    <3>1. PICK b \in B : v \in f[b]
      BY <1>5, <2>2 DEF Covered
    <3> QED BY <1>2, <3>1
  <2> QED BY <2>1, <2>2
<1>6. Family(g, B, n + 1)
  BY <1>3, <1>4 DEF Family
<1> QED BY <1>5, <1>6 DEF Covered

LEMMA FamilyMore ==
    ASSUME NEW B, NEW n \in Nat, NEW f, Family(f, B, n)
    PROVE  Family(f, B, n + 1)
<1>1. 1..n \subseteq 1..n + 1
  OBVIOUS
<1> QED BY <1>1 DEF Family

-----------------------------------------------------------------------------
(* The sessions of a UDP server (UdpServer). *)

UdpIdle == [peer |-> "none"]
Sessions == [peer : Peers, addr : Peers, at : UdpPollers, enable : BOOLEAN, errs : 0..1,
             got : Seq(Nat)]
RecvTasks == [do : {"recv"}, session : Nat, data : Nat]
CreateTasks == [do : {"create"}, peer : Peers, from : Peers, data : Nat]
ManageTasks == [do : {"manage"}, sessions : SUBSET Nat]
UdpTasks == RecvTasks \cup CreateTasks \cup ManageTasks
Lookups == [peer : Peers, from : Peers, data : Nat]
Mades == [peer : {"made"}, session : Nat, data : Nat]
UdpTypes ==
    /\ sessions \in Seq(Sessions) /\ sender \in Seq(Peers) /\ up \in BOOLEAN
    /\ sessionMap \in [Peers -> Nat] /\ erasures \subseteq Peers
    /\ queued \in [UdpPollers -> Seq(UdpTasks)]
    /\ reading \in [UdpPollers -> {UdpIdle} \cup Lookups \cup Mades]

\* What is called a session is one, of the peer it is called by.
Referred ==
    /\ \A id \in Peers : sessionMap[id] # 0 =>
          sessionMap[id] \in DOMAIN sessions /\ sessions[sessionMap[id]].peer = id
    /\ \A a \in UdpPollers : reading[a] \in Mades => reading[a].session \in DOMAIN sessions
    /\ \A b \in UdpPollers : \A x \in Range(queued[b]) :
          /\ x \in RecvTasks => x.session \in DOMAIN sessions
          /\ x \in ManageTasks => x.sessions \subseteq DOMAIN sessions

\* A session is enabled until it ended; while the server is up, one that is not in the map
\* has ended, and one that is to be erased is in the map and has ended.
Ending ==
    /\ \A s \in DOMAIN sessions : sessions[s].enable <=> sessions[s].errs = 0
    /\ up => \A s \in DOMAIN sessions :
          sessions[s].enable => sessionMap[sessions[s].peer] = s
    /\ up => \A id \in erasures :
          sessionMap[id] # 0 /\ ~sessions[sessionMap[id]].enable

\* The datagrams in one place each.
DataOf(x) == IF x \in ManageTasks THEN {} ELSE {x.data}
ReadBy(a) == IF reading[a] = UdpIdle THEN {} ELSE {reading[a].data}
Datas(q) == UNION {DataOf(x) : x \in Range(q)}
InQueue(b) == Datas(queued[b])
Got(s) == IF s \in DOMAIN sessions THEN Range(sessions[s].got) ELSE {}
Reader(a) == <<"hand", a>>
Queue(b) == <<"queue", b>>
Session(s) == <<"session", s>>
UdpBoxes == {Reader(a) : a \in UdpPollers} \cup {Queue(b) : b \in UdpPollers}
            \cup {Session(s) : s \in Nat}
Data == [x \in UdpBoxes |-> CASE x[1] = "hand"    -> ReadBy(x[2])
                              [] x[1] = "queue"   -> InQueue(x[2])
                              [] x[1] = "session" -> Got(x[2])]
Distinct == {p \in UdpTasks \X UdpTasks : DataOf(p[1]) \cap DataOf(p[2]) = {}}
Listening == up /\ \A s \in DOMAIN sessions : sessions[s].enable
Once ==
    /\ Family(Data, UdpBoxes, Len(sender))
    /\ \A b \in UdpPollers : Pairwise(queued[b], Distinct)
    /\ \A s \in DOMAIN sessions : IsInjective(sessions[s].got)
    /\ Listening => Covered(Data, UdpBoxes, Len(sender))

UdpInv == UdpTypes /\ Referred /\ Ending /\ Once

LEMMA DataNow ==
    /\ \A a \in UdpPollers : /\ Reader(a) \in UdpBoxes /\ Queue(a) \in UdpBoxes
                             /\ Data[Reader(a)] = ReadBy(a) /\ Data[Queue(a)] = InQueue(a)
                             /\ Data'[Reader(a)] = ReadBy(a)' /\ Data'[Queue(a)] = InQueue(a)'
    /\ \A s \in Nat : /\ Session(s) \in UdpBoxes
                      /\ Data[Session(s)] = Got(s) /\ Data'[Session(s)] = Got(s)'
BY DEF Data, UdpBoxes, Reader, Queue, Session

LEMMA UdpBoxesApart ==
    /\ \A a, b \in UdpPollers : Reader(a) # Queue(b)
    /\ \A a, b \in UdpPollers : a # b => Reader(a) # Reader(b) /\ Queue(a) # Queue(b)
    /\ \A a \in UdpPollers, s \in Nat : Reader(a) # Session(s) /\ Queue(a) # Session(s)
    /\ \A s, t \in Nat : s # t => Session(s) # Session(t)
BY DEF Reader, Queue, Session

\* What one place holds, a step may have changed; what the others hold, it has not.
Elsewhere(X) ==
    /\ \A a \in UdpPollers : Reader(a) \notin X => ReadBy(a)' = ReadBy(a)
    /\ \A b \in UdpPollers : Queue(b) \notin X => InQueue(b)' = InQueue(b)
    /\ \A s \in Nat : Session(s) \notin X => Got(s)' = Got(s)

LEMMA ElsewhereSame ==
    ASSUME NEW X, Elsewhere(X)
    PROVE  \A x \in UdpBoxes \ X : Data'[x] = Data[x]
<1> SUFFICES ASSUME NEW x \in UdpBoxes, x \notin X PROVE Data'[x] = Data[x]
  OBVIOUS
<1>1. CASE x \in {Reader(a) : a \in UdpPollers}
  BY <1>1, DataNow DEF Elsewhere
<1>2. CASE x \in {Queue(a) : a \in UdpPollers}
  BY <1>2, DataNow DEF Elsewhere
<1>3. CASE x \in {Session(s) : s \in Nat}
  BY <1>3, DataNow DEF Elsewhere
<1> QED BY <1>1, <1>2, <1>3 DEF UdpBoxes

\* The kinds of tasks and of what a poller is at.
LEMMA UdpKinds ==
    /\ \A x \in RecvTasks : x.do = "recv" /\ x.session \in Nat /\ x.data \in Nat /\ DataOf(x) = {x.data}
    /\ \A x \in CreateTasks : /\ x.do = "create" /\ x.peer \in Peers /\ x.from \in Peers
                              /\ x.data \in Nat /\ DataOf(x) = {x.data}
    /\ \A x \in ManageTasks : x.do = "manage" /\ DataOf(x) = {}
    /\ \A x \in UdpTasks : /\ x.do = "recv" <=> x \in RecvTasks
                           /\ x.do = "create" <=> x \in CreateTasks
                           /\ x.do = "manage" <=> x \in ManageTasks
BY DEF RecvTasks, CreateTasks, ManageTasks, UdpTasks, DataOf

LEMMA QueueAppended ==
    ASSUME NEW q \in Seq(UdpTasks), NEW e \in UdpTasks, Pairwise(q, Distinct),
           DataOf(e) \cap Datas(q) = {}
    PROVE  /\ Append(q, e) \in Seq(UdpTasks) /\ Pairwise(Append(q, e), Distinct)
           /\ Datas(Append(q, e)) = Datas(q) \cup DataOf(e)
           /\ Range(Append(q, e)) = Range(q) \cup {e}
<1>1. Range(Append(q, e)) = Range(q) \cup {e} /\ Range(q) \subseteq UdpTasks
  BY RangeAppend, RangeType
<1>2. \A x \in Range(q) : <<x, e>> \in Distinct
  BY <1>1 DEF Distinct, Datas
<1>3. Pairwise(Append(q, e), Distinct)
  BY <1>2, PairwiseAppend
<1> QED BY <1>1, <1>3, AppendProperties DEF Datas

LEMMA QueueTaken ==
    ASSUME NEW q \in Seq(UdpTasks), q # <<>>, Pairwise(q, Distinct)
    PROVE  /\ Head(q) \in UdpTasks /\ Tail(q) \in Seq(UdpTasks) /\ Pairwise(Tail(q), Distinct)
           /\ Datas(Tail(q)) = Datas(q) \ DataOf(Head(q)) /\ DataOf(Head(q)) \subseteq Datas(q)
           /\ Head(q) \in Range(q) /\ Range(Tail(q)) \subseteq Range(q)
<1>1. /\ Head(q) \in UdpTasks /\ Tail(q) \in Seq(UdpTasks)
      /\ Head(q) \in Range(q) /\ Range(q) = Range(Tail(q)) \cup {Head(q)}
  BY HeadTailProperties, RangeTail
<1>2. Pairwise(Tail(q), Distinct) /\ \A x \in Range(Tail(q)) : <<Head(q), x>> \in Distinct
  BY PairwiseTail
<1>3. \A x \in Range(Tail(q)) : DataOf(Head(q)) \cap DataOf(x) = {}
  BY <1>2 DEF Distinct
<1> QED BY <1>1, <1>2, <1>3 DEF Datas

\* What a session is, whichever fields a step changes.
LEMMA SessionFields ==
    ASSUME UdpTypes, NEW s \in DOMAIN sessions
    PROVE  /\ s \in Nat /\ s # 0 /\ s \in 1..Len(sessions) /\ sessions[s] \in Sessions
           /\ sessions[s].peer \in Peers /\ sessions[s].at \in UdpPollers
           /\ sessions[s].enable \in BOOLEAN /\ sessions[s].errs \in 0..1
           /\ sessions[s].got \in Seq(Nat) /\ Got(s) = Range(sessions[s].got)
<1>1. Len(sessions) \in Nat /\ DOMAIN sessions = 1..Len(sessions) /\ sessions[s] \in Sessions
  BY LenProperties, ElementOfSeq DEF UdpTypes
<1> QED BY <1>1 DEF Sessions, Got

\* The sessions and their peers stay; what is enabled may end.
Stays == /\ sessions' \in Seq(Sessions) /\ DOMAIN sessions' = DOMAIN sessions
         /\ \A s \in DOMAIN sessions : /\ sessions'[s].peer = sessions[s].peer
                                       /\ sessions'[s].at = sessions[s].at

LEMMA ReceivedFacts ==
    ASSUME UdpTypes, NEW s \in DOMAIN sessions, NEW d \in Nat, sessions' = Udp!Received(s, d),
           d \notin Got(s), \A t \in DOMAIN sessions : IsInjective(sessions[t].got)
    PROVE  /\ Stays
           /\ \A t \in DOMAIN sessions : /\ sessions'[t].enable = sessions[t].enable
                                         /\ sessions'[t].errs = sessions[t].errs
                                         /\ IsInjective(sessions'[t].got)
           /\ \A t \in Nat \ {s} : Got(t)' = Got(t)
           /\ Got(s)' = IF sessions[s].enable THEN Got(s) \cup {d} ELSE Got(s)
<1> DEFINE g == sessions[s].got
           h == IF sessions[s].enable THEN Append(g, d) ELSE g
<1>1. g \in Seq(Nat) /\ Got(s) = Range(g) /\ IsInjective(g) /\ s \in 1..Len(sessions)
  BY SessionFields
<1>2. h \in Seq(Nat) /\ IsInjective(h)
      /\ Range(h) = IF sessions[s].enable THEN Range(g) \cup {d} ELSE Range(g)
  <2>1. Append(g, d) \in Seq(Nat) /\ Range(Append(g, d)) = Range(g) \cup {d}
    BY <1>1, AppendProperties, RangeAppend
  <2>2. d \notin Range(g) => IsInjective(Append(g, d))
    BY <1>1, InjectiveAppend
  <2> QED BY <1>1, <2>1, <2>2
<1> HIDE DEF h
<1>3. sessions' = [sessions EXCEPT ![s].got = h]
  BY DEF Udp!Received, h
<1>4. /\ DOMAIN sessions' = DOMAIN sessions
      /\ \A t \in DOMAIN sessions \ {s} : sessions'[t] = sessions[t]
      /\ sessions'[s] = [sessions[s] EXCEPT !.got = h]
  BY <1>3
<1>5. [sessions[s] EXCEPT !.got = h] \in Sessions
  BY <1>2, SessionFields DEF Sessions
<1>6. sessions' \in Seq(Sessions)
  <2>1. sessions' = [sessions EXCEPT ![s] = [sessions[s] EXCEPT !.got = h]]
    BY <1>3
  <2>2. sessions \in Seq(Sessions)
    BY DEF UdpTypes
  <2> QED BY <1>1, <1>5, <2>1, <2>2, ExceptSeq
<1>7. /\ sessions'[s].peer = sessions[s].peer /\ sessions'[s].at = sessions[s].at
      /\ sessions'[s].enable = sessions[s].enable /\ sessions'[s].errs = sessions[s].errs
      /\ sessions'[s].got = h
  <2>1. sessions[s] \in Sessions
    BY SessionFields
  <2> QED BY <1>4, <2>1 DEF Sessions
<1>8. \A t \in Nat \ {s} : Got(t)' = Got(t)
  BY <1>4 DEF Got
<1>9. Got(s)' = Range(h)
  BY <1>4, <1>7 DEF Got
<1> QED BY <1>1, <1>2, <1>4, <1>6, <1>7, <1>8, <1>9 DEF Stays

\* A new session, unless there is one by now.
LEMMA MakeFacts ==
    ASSUME UdpTypes, Referred, Ending, up, NEW b \in UdpPollers, NEW id \in Peers, NEW from \in Peers,
           Udp!Make(b, id, from), UNCHANGED <<erasures, up>>,
           \A t \in DOMAIN sessions : IsInjective(sessions[t].got)
    PROVE  /\ sessions' \in Seq(Sessions) /\ sessionMap' \in [Peers -> Nat]
           /\ DOMAIN sessions \subseteq DOMAIN sessions'
           /\ \A t \in DOMAIN sessions : sessions'[t] = sessions[t]
           /\ \A t \in DOMAIN sessions' : IsInjective(sessions'[t].got)
           /\ \A t \in Nat : Got(t)' = Got(t)
           /\ \A p \in Peers : sessionMap'[p] # 0 =>
                 sessionMap'[p] \in DOMAIN sessions' /\ sessions'[sessionMap'[p]].peer = p
           /\ sessionMap'[id] # 0
           /\ Ending'
           /\ Listening' => Listening
<1>1. CASE sessionMap[id] # 0
  <2>1. UNCHANGED <<sessions, sessionMap>>
    BY <1>1 DEF Udp!Make
  <2> QED BY <1>1, <2>1 DEF UdpTypes, Referred, Ending, Got, Listening
<1>2. CASE sessionMap[id] = 0
  <2> DEFINE e == [peer |-> id, addr |-> from, at |-> b, enable |-> TRUE, errs |-> 0, got |-> <<>>]
             n == Len(sessions) + 1
  <2>1. sessions' = Append(sessions, e) /\ sessionMap' = [sessionMap EXCEPT ![id] = n]
    BY <1>2 DEF Udp!Make
  <2>2. e \in Sessions /\ e.peer = id /\ e.enable /\ e.errs = 0 /\ e.got = <<>>
    BY DEF Sessions
  <2> HIDE DEF e
  <2>3. /\ sessions' \in Seq(Sessions) /\ Len(sessions') = n /\ sessions'[n] = e
        /\ \A t \in 1..Len(sessions) : sessions'[t] = sessions[t]
    BY <2>1, <2>2, AppendProperties DEF UdpTypes
  <2>4. /\ Len(sessions) \in Nat /\ DOMAIN sessions = 1..Len(sessions) /\ DOMAIN sessions' = 1..n
        /\ n \in Nat /\ n # 0 /\ n \notin DOMAIN sessions
    BY <2>3, LenProperties DEF UdpTypes
  <2>5. DOMAIN sessions' = DOMAIN sessions \cup {n}
    BY <2>4
  <2>6. /\ sessionMap' \in [Peers -> Nat] /\ sessionMap'[id] = n
        /\ \A p \in Peers \ {id} : sessionMap'[p] = sessionMap[p]
    BY <2>1, <2>4 DEF UdpTypes
  <2>7. IsInjective(<<>>) /\ Range(<<>>) = {}
    <3>1. DOMAIN <<>> = {}
      OBVIOUS
    <3> QED BY <3>1, RangeEmpty DEF IsInjective
  <2>8. \A t \in DOMAIN sessions' : IsInjective(sessions'[t].got)
    BY <2>2, <2>3, <2>4, <2>5, <2>7
  <2>9. \A t \in Nat : Got(t)' = Got(t)
    <3> SUFFICES ASSUME NEW t \in Nat PROVE Got(t)' = Got(t)
      OBVIOUS
    <3>1. CASE t = n
      BY <2>2, <2>3, <2>5, <2>4, <2>7, <3>1 DEF Got
    <3>2. CASE t # n
      BY <2>3, <2>4, <2>5, <3>2 DEF Got
    <3> QED BY <3>1, <3>2
  <2>10. \A p \in Peers : sessionMap'[p] # 0 =>
            sessionMap'[p] \in DOMAIN sessions' /\ sessions'[sessionMap'[p]].peer = p
    <3> SUFFICES ASSUME NEW p \in Peers, sessionMap'[p] # 0
                 PROVE  sessionMap'[p] \in DOMAIN sessions' /\ sessions'[sessionMap'[p]].peer = p
      OBVIOUS
    <3>1. CASE p = id
      BY <2>2, <2>3, <2>5, <2>6, <3>1
    <3>2. CASE p # id
      BY <2>3, <2>4, <2>5, <2>6, <3>2 DEF Referred
    <3> QED BY <3>1, <3>2
  <2>11. Ending'
    <3>1. \A t \in DOMAIN sessions' : sessions'[t].enable <=> sessions'[t].errs = 0
      BY <2>2, <2>3, <2>4, <2>5 DEF Ending
    <3>2. ASSUME NEW t \in DOMAIN sessions', sessions'[t].enable
          PROVE  sessionMap'[sessions'[t].peer] = t
      <4>1. CASE t = n
        BY <2>2, <2>3, <2>6, <4>1
      <4>2. CASE t # n
        <5>1. t \in DOMAIN sessions /\ sessions'[t] = sessions[t]
          BY <2>3, <2>4, <2>5, <4>2
        <5>2. sessionMap[sessions[t].peer] = t /\ sessions[t].peer \in Peers /\ t # 0
          BY <3>2, <5>1, SessionFields DEF Ending
        <5> QED BY <1>2, <2>6, <5>1, <5>2
      <4> QED BY <4>1, <4>2
    <3>3. ASSUME NEW p \in erasures PROVE sessionMap'[p] # 0 /\ ~sessions'[sessionMap'[p]].enable
      <4>1. p \in Peers /\ sessionMap[p] # 0 /\ ~sessions[sessionMap[p]].enable
        BY DEF Ending, UdpTypes
      <4>2. p # id /\ sessionMap[p] \in DOMAIN sessions
        BY <1>2, <4>1 DEF Referred
      <4> QED BY <2>3, <2>4, <2>6, <4>1, <4>2
    <3> QED BY <3>1, <3>2, <3>3 DEF Ending
  <2>12. Listening' => Listening
    BY <2>3, <2>4, <2>5 DEF Listening
  <2> QED BY <2>3, <2>4, <2>5, <2>6, <2>8, <2>9, <2>10, <2>11, <2>12
<1> QED BY <1>1, <1>2

LEMMA PutFacts ==
    ASSUME UdpTypes, NEW b \in UdpPollers, NEW e \in UdpTasks, Udp!Put(b, e),
           \A a \in UdpPollers : Pairwise(queued[a], Distinct), DataOf(e) \cap InQueue(b) = {}
    PROVE  /\ queued' \in [UdpPollers -> Seq(UdpTasks)]
           /\ \A a \in UdpPollers : Pairwise(queued'[a], Distinct)
           /\ \A a \in UdpPollers \ {b} : queued'[a] = queued[a] /\ InQueue(a)' = InQueue(a)
           /\ InQueue(b)' = InQueue(b) \cup DataOf(e)
           /\ \A a \in UdpPollers : \A x \in Range(queued'[a]) : x \in Range(queued[a]) \/ x = e
<1>1. queued' = [queued EXCEPT ![b] = Append(queued[b], e)]
  BY DEF Udp!Put
<1>2. queued \in [UdpPollers -> Seq(UdpTasks)] /\ queued[b] \in Seq(UdpTasks)
  BY DEF UdpTypes
<1>3. /\ Append(queued[b], e) \in Seq(UdpTasks) /\ Pairwise(Append(queued[b], e), Distinct)
      /\ Datas(Append(queued[b], e)) = Datas(queued[b]) \cup DataOf(e)
      /\ Range(Append(queued[b], e)) = Range(queued[b]) \cup {e}
  BY <1>2, QueueAppended DEF InQueue
<1>4. /\ queued' \in [UdpPollers -> Seq(UdpTasks)] /\ queued'[b] = Append(queued[b], e)
      /\ \A a \in UdpPollers \ {b} : queued'[a] = queued[a]
  BY <1>1, <1>2, <1>3
<1>5. \A a \in UdpPollers : Pairwise(queued'[a], Distinct)
  <2> SUFFICES ASSUME NEW a \in UdpPollers PROVE Pairwise(queued'[a], Distinct)
    OBVIOUS
  <2>1. CASE a = b
    BY <1>3, <1>4, <2>1
  <2>2. CASE a # b
    BY <1>4, <2>2
  <2> QED BY <2>1, <2>2
<1>6. \A a \in UdpPollers : \A x \in Range(queued'[a]) : x \in Range(queued[a]) \/ x = e
  <2> SUFFICES ASSUME NEW a \in UdpPollers
               PROVE  \A x \in Range(queued'[a]) : x \in Range(queued[a]) \/ x = e
    OBVIOUS
  <2>1. CASE a = b
    BY <1>3, <1>4, <2>1
  <2>2. CASE a # b
    BY <1>4, <2>2
  <2> QED BY <2>1, <2>2
<1> QED BY <1>3, <1>4, <1>5, <1>6 DEF InQueue

LEMMA RunFacts ==
    ASSUME UdpTypes, NEW b \in UdpPollers, queued[b] # <<>>,
           queued' = [queued EXCEPT ![b] = Tail(@)],
           \A a \in UdpPollers : Pairwise(queued[a], Distinct)
    PROVE  /\ queued' \in [UdpPollers -> Seq(UdpTasks)]
           /\ \A a \in UdpPollers : Pairwise(queued'[a], Distinct)
           /\ \A a \in UdpPollers \ {b} : InQueue(a)' = InQueue(a)
           /\ InQueue(b)' = InQueue(b) \ DataOf(Head(queued[b]))
           /\ DataOf(Head(queued[b])) \subseteq InQueue(b)
           /\ Head(queued[b]) \in UdpTasks /\ Head(queued[b]) \in Range(queued[b])
           /\ \A a \in UdpPollers : \A x \in Range(queued'[a]) : x \in Range(queued[a])
<1>1. queued' = [queued EXCEPT ![b] = Tail(queued[b])]
  OBVIOUS
<1>2. queued \in [UdpPollers -> Seq(UdpTasks)] /\ queued[b] \in Seq(UdpTasks)
  BY DEF UdpTypes
<1>3. /\ Head(queued[b]) \in UdpTasks /\ Tail(queued[b]) \in Seq(UdpTasks)
      /\ Pairwise(Tail(queued[b]), Distinct)
      /\ Datas(Tail(queued[b])) = Datas(queued[b]) \ DataOf(Head(queued[b]))
      /\ DataOf(Head(queued[b])) \subseteq Datas(queued[b])
      /\ Head(queued[b]) \in Range(queued[b]) /\ Range(Tail(queued[b])) \subseteq Range(queued[b])
  BY <1>2, QueueTaken
<1>4. /\ queued' \in [UdpPollers -> Seq(UdpTasks)] /\ queued'[b] = Tail(queued[b])
      /\ \A a \in UdpPollers \ {b} : queued'[a] = queued[a]
  BY <1>1, <1>2, <1>3
<1>5. \A a \in UdpPollers : /\ Pairwise(queued'[a], Distinct)
                            /\ \A x \in Range(queued'[a]) : x \in Range(queued[a])
  <2> SUFFICES ASSUME NEW a \in UdpPollers
               PROVE  /\ Pairwise(queued'[a], Distinct)
                      /\ \A x \in Range(queued'[a]) : x \in Range(queued[a])
    OBVIOUS
  <2>1. CASE a = b
    BY <1>3, <1>4, <2>1
  <2>2. CASE a # b
    BY <1>4, <2>2
  <2> QED BY <2>1, <2>2
<1> QED BY <1>3, <1>4, <1>5 DEF InQueue

\* A datagram goes to its session, here or by a task, or the session is deaf.
EmitPlace(s, d) ==
    \/ ~sessions[s].enable /\ Elsewhere({Reader(a) : a \in UdpPollers})
    \/ \E y \in UdpBoxes \ {Reader(a) : a \in UdpPollers} :
          Data'[y] = Data[y] \cup {d} /\ Elsewhere({Reader(a) : a \in UdpPollers} \cup {y})

LEMMA EmitFacts ==
    ASSUME UdpTypes, Once, NEW a \in UdpPollers, NEW s \in DOMAIN sessions, NEW d \in Nat,
           Udp!Emit(a, s, d), d \notin Got(s), d \notin InQueue(sessions[s].at)
    PROVE  /\ Stays
           /\ \A t \in DOMAIN sessions : /\ sessions'[t].enable = sessions[t].enable
                                         /\ sessions'[t].errs = sessions[t].errs
           /\ \A t \in DOMAIN sessions' : IsInjective(sessions'[t].got)
           /\ queued' \in [UdpPollers -> Seq(UdpTasks)]
           /\ \A b \in UdpPollers : Pairwise(queued'[b], Distinct)
           /\ \A b \in UdpPollers : \A x \in Range(queued'[b]) :
                 x \in Range(queued[b]) \/ (x \in RecvTasks /\ x.session \in DOMAIN sessions)
           /\ EmitPlace(s, d)
<1> DEFINE H == {Reader(c) : c \in UdpPollers}
           e == [do |-> "recv", session |-> s, data |-> d]
<1>1. /\ \A c \in UdpPollers : Pairwise(queued[c], Distinct)
      /\ \A t \in DOMAIN sessions : IsInjective(sessions[t].got)
  BY DEF Once
<1>2. PICK b \in UdpPollers : s \in Nat /\ b = sessions[s].at
  BY SessionFields
<1>3. Session(s) \in UdpBoxes \ H /\ Queue(b) \in UdpBoxes \ H
  BY <1>2, DataNow, UdpBoxesApart
<1>4. CASE b = a
  <2>1. sessions' = Udp!Received(s, d) /\ UNCHANGED queued
    BY <1>2, <1>4 DEF Udp!Emit
  <2>2. /\ Stays
        /\ \A t \in DOMAIN sessions : /\ sessions'[t].enable = sessions[t].enable
                                      /\ sessions'[t].errs = sessions[t].errs
                                      /\ IsInjective(sessions'[t].got)
        /\ \A t \in Nat \ {s} : Got(t)' = Got(t)
        /\ Got(s)' = IF sessions[s].enable THEN Got(s) \cup {d} ELSE Got(s)
    BY <1>1, <2>1, ReceivedFacts
  <2>3. \A c \in UdpPollers : InQueue(c)' = InQueue(c)
    BY <2>1 DEF InQueue
  <2>4. CASE sessions[s].enable
    <3>1. Data'[Session(s)] = Data[Session(s)] \cup {d}
      BY <1>2, <2>2, <2>4, DataNow
    <3>2. Elsewhere(H \cup {Session(s)})
      BY <2>2, <2>3 DEF Elsewhere
    <3>3. EmitPlace(s, d)
      BY <1>3, <3>1, <3>2 DEF EmitPlace
    <3> QED BY <1>1, <2>1, <2>2, <3>3 DEF UdpTypes, Stays
  <2>5. CASE ~sessions[s].enable
    <3>1. Elsewhere(H)
      BY <2>2, <2>3, <2>5 DEF Elsewhere
    <3>2. EmitPlace(s, d)
      BY <2>5, <3>1 DEF EmitPlace
    <3> QED BY <1>1, <2>1, <2>2, <3>2 DEF UdpTypes, Stays
  <2> QED BY <2>4, <2>5
<1>5. CASE b # a
  <2>1. Udp!Put(b, e) /\ UNCHANGED sessions
    BY <1>2, <1>5 DEF Udp!Emit
  <2>2. e \in RecvTasks /\ e \in UdpTasks /\ e.session = s /\ e.data = d
    BY <1>2 DEF RecvTasks, UdpTasks
  <2>3. DataOf(e) = {d}
    BY <2>2, UdpKinds
  <2> HIDE DEF e
  <2>4. DataOf(e) \cap InQueue(b) = {}
    BY <1>2, <2>3
  <2>5. /\ queued' \in [UdpPollers -> Seq(UdpTasks)]
        /\ \A c \in UdpPollers : Pairwise(queued'[c], Distinct)
        /\ \A c \in UdpPollers \ {b} : queued'[c] = queued[c] /\ InQueue(c)' = InQueue(c)
        /\ InQueue(b)' = InQueue(b) \cup DataOf(e)
        /\ \A c \in UdpPollers : \A x \in Range(queued'[c]) : x \in Range(queued[c]) \/ x = e
    BY <1>1, <1>2, <2>1, <2>2, <2>4, PutFacts
  <2>6. \A t \in Nat : Got(t)' = Got(t)
    BY <2>1 DEF Got
  <2>7. Data'[Queue(b)] = Data[Queue(b)] \cup {d}
    <3>1. InQueue(b)' = InQueue(b) \cup {d}
      BY <2>3, <2>5
    <3>2. Data[Queue(b)] = InQueue(b) /\ Data'[Queue(b)] = InQueue(b)'
      BY <1>2, DataNow
    <3> QED BY <3>1, <3>2
  <2>8. Elsewhere(H \cup {Queue(b)})
    BY <2>5, <2>6 DEF Elsewhere
  <2>9. EmitPlace(s, d)
    BY <1>3, <2>7, <2>8 DEF EmitPlace
  <2>10. Stays
    BY <2>1 DEF Stays, UdpTypes
  <2> QED BY <1>1, <2>1, <2>2, <2>5, <2>9, <2>10
<1> QED BY <1>4, <1>5

LEMMA ReferredStays ==
    ASSUME Referred, DOMAIN sessions \subseteq DOMAIN sessions',
           \A p \in Peers : sessionMap'[p] # 0 =>
              sessionMap'[p] \in DOMAIN sessions' /\ sessions'[sessionMap'[p]].peer = p,
           \A a \in UdpPollers : reading'[a] \in Mades =>
              reading'[a] = reading[a] \/ reading'[a].session \in DOMAIN sessions',
           \A b \in UdpPollers : \A x \in Range(queued'[b]) :
              \/ x \in Range(queued[b])
              \/ /\ x \in RecvTasks => x.session \in DOMAIN sessions'
                 /\ x \in ManageTasks => x.sessions \subseteq DOMAIN sessions'
    PROVE  Referred'
BY DEF Referred

LEMMA EndingStays ==
    ASSUME UdpTypes, Referred, Ending, Stays, UNCHANGED <<sessionMap, erasures, up>>,
           \A t \in DOMAIN sessions : /\ sessions'[t].enable = sessions[t].enable
                                      /\ sessions'[t].errs = sessions[t].errs
    PROVE  /\ Ending' /\ (Listening' => Listening)
           /\ \A p \in Peers : sessionMap'[p] # 0 =>
              sessionMap'[p] \in DOMAIN sessions' /\ sessions'[sessionMap'[p]].peer = p
<1>1. \A p \in Peers : sessionMap[p] # 0 => sessionMap[p] \in DOMAIN sessions
  BY DEF Referred
<1>2. erasures \subseteq Peers
  BY DEF UdpTypes
<1> QED BY <1>1, <1>2 DEF Ending, Stays, Listening, Referred

LEMMA ReadingFacts ==
    ASSUME UdpTypes, NEW a \in UdpPollers, NEW r \in {UdpIdle} \cup Lookups \cup Mades,
           reading' = [reading EXCEPT ![a] = r]
    PROVE  /\ reading' \in [UdpPollers -> {UdpIdle} \cup Lookups \cup Mades] /\ reading'[a] = r
           /\ \A b \in UdpPollers \ {a} : reading'[b] = reading[b] /\ ReadBy(b)' = ReadBy(b)
           /\ ReadBy(a)' = IF r = UdpIdle THEN {} ELSE {r.data}
BY DEF UdpTypes, ReadBy

LEMMA ReadingKinds ==
    /\ \A r \in Lookups : r # UdpIdle /\ r \notin Mades /\ r.peer \in Peers /\ r.from \in Peers
                          /\ r.data \in Nat /\ r.peer # "made"
    /\ \A r \in Mades : r # UdpIdle /\ r.peer = "made" /\ r.session \in Nat /\ r.data \in Nat
    /\ UdpIdle = Udp!Idle
<1>1. \A r \in Lookups : /\ r \notin Mades /\ r.peer \in Peers /\ r.from \in Peers
                         /\ r.data \in Nat /\ r.peer # "made"
  BY SharingAssumption DEF SharingAssumption, Lookups, Mades
<1>2. \A r \in Mades : r # UdpIdle /\ r.peer = "made" /\ r.session \in Nat /\ r.data \in Nat
  BY DEF Mades, UdpIdle
<1>3. \A r \in Lookups : r # UdpIdle
  <2>1. \A r \in Lookups : "data" \in DOMAIN r
    BY DEF Lookups
  <2>2. "data" \notin DOMAIN UdpIdle
    BY DEF UdpIdle
  <2> QED BY <2>1, <2>2
<1> QED BY <1>1, <1>2, <1>3 DEF UdpIdle, Udp!Idle

\* The sessions and what leads to them stay; a datagram comes in.
LEMMA LookupStep ==
    ASSUME UdpInv, NEW a \in UdpPollers, NEW id \in Peers, NEW from \in Peers,
           Udp!Lookup(a, id, from)
    PROVE  UdpInv'
<1> USE DEF UdpInv
<1> DEFINE d == Len(sender) + 1
           s == sessionMap[id]
           H == {Reader(c) : c \in UdpPollers}
<1>1. /\ up /\ reading[a] = UdpIdle /\ sender' = Append(sender, from)
      /\ UNCHANGED <<sessionMap, erasures, up>>
  BY ReadingKinds DEF Udp!Lookup, Udp!Free
<1>2. Len(sender) \in Nat /\ d \in Nat /\ sender' \in Seq(Peers) /\ Len(sender') = d
  BY <1>1, LenProperties, AppendProperties DEF UdpTypes
<1>3. Family(Data, UdpBoxes, Len(sender))
  BY DEF Once
<1>4. \A x \in UdpBoxes : d \notin Data[x]
  BY <1>2, <1>3 DEF Family
<1>5. CASE s # 0
  <2>1. Udp!Emit(a, s, d) /\ UNCHANGED reading
    BY <1>5 DEF Udp!Lookup
  <2>2. s \in DOMAIN sessions /\ sessions[s].at \in UdpPollers /\ s \in Nat
    BY <1>5, SessionFields DEF Referred
  <2>3. d \notin Got(s) /\ d \notin InQueue(sessions[s].at)
    BY <1>4, <2>2, DataNow
  <2>4. /\ Stays
        /\ \A t \in DOMAIN sessions : /\ sessions'[t].enable = sessions[t].enable
                                      /\ sessions'[t].errs = sessions[t].errs
        /\ \A t \in DOMAIN sessions' : IsInjective(sessions'[t].got)
        /\ queued' \in [UdpPollers -> Seq(UdpTasks)]
        /\ \A b \in UdpPollers : Pairwise(queued'[b], Distinct)
        /\ \A b \in UdpPollers : \A x \in Range(queued'[b]) :
              x \in Range(queued[b]) \/ (x \in RecvTasks /\ x.session \in DOMAIN sessions)
        /\ EmitPlace(s, d)
    BY <1>2, <2>1, <2>2, <2>3, EmitFacts
  <2>5. UdpTypes'
    BY <1>1, <1>2, <2>1, <2>4 DEF UdpTypes, Stays
  <2>6. /\ Ending' /\ (Listening' => Listening)
        /\ \A p \in Peers : sessionMap'[p] # 0 =>
              sessionMap'[p] \in DOMAIN sessions' /\ sessions'[sessionMap'[p]].peer = p
    BY <1>1, <2>4, EndingStays
  <2>7. Referred'
    <3>1. \A x \in RecvTasks : x \notin ManageTasks
      BY UdpKinds
    <3>2. DOMAIN sessions' = DOMAIN sessions
      BY <2>4 DEF Stays
    <3> QED BY <2>1, <2>4, <2>6, <3>1, <3>2, ReferredStays
  <2>8. \A c \in UdpPollers : ReadBy(c)' = ReadBy(c)
    BY <2>1 DEF ReadBy
  <2>9. Family(Data', UdpBoxes, d) /\ (Listening' => Covered(Data', UdpBoxes, d))
    <3>1. CASE ~sessions[s].enable /\ Elsewhere(H)
      <4>1. Elsewhere({})
        BY <2>8, <3>1, DataNow, UdpBoxesApart DEF Elsewhere
      <4>2. \A x \in UdpBoxes : Data'[x] = Data[x]
        BY <4>1, ElsewhereSame
      <4>3. Family(Data', UdpBoxes, Len(sender))
        BY <1>3, <4>2, FamilyFewer
      <4>4. ~Listening'
        BY <2>2, <2>6, <3>1 DEF Listening
      <4> QED BY <1>2, <4>3, <4>4, FamilyMore
    <3>2. ASSUME NEW y \in UdpBoxes \ H, Data'[y] = Data[y] \cup {d}, Elsewhere(H \cup {y})
          PROVE  Family(Data', UdpBoxes, d) /\ (Listening' => Covered(Data', UdpBoxes, d))
      <4>1. Elsewhere({y})
        <5>1. \A c \in UdpPollers : Queue(c) \notin H
          BY UdpBoxesApart
        <5>2. \A t \in Nat : Session(t) \notin H
          BY UdpBoxesApart
        <5>3. \A b \in UdpPollers : Queue(b) # y => InQueue(b)' = InQueue(b)
          BY <3>2, <5>1 DEF Elsewhere
        <5>4. \A t \in Nat : Session(t) # y => Got(t)' = Got(t)
          BY <3>2, <5>2 DEF Elsewhere
        <5> QED BY <2>8, <5>3, <5>4 DEF Elsewhere
      <4>2. \A x \in UdpBoxes \ {y} : Data'[x] = Data[x]
        BY <4>1, ElsewhereSame
      <4>3. /\ Family(Data', UdpBoxes, d)
            /\ Covered(Data, UdpBoxes, Len(sender)) => Covered(Data', UdpBoxes, d)
        BY <1>2, <1>3, <3>2, <4>2, FamilyNew
      <4> QED BY <2>6, <4>3 DEF Once
    <3> QED BY <2>4, <3>1, <3>2 DEF EmitPlace
  <2>10. Once'
    BY <1>2, <2>4, <2>9 DEF Once
  <2> QED BY <2>5, <2>6, <2>7, <2>10
<1>6. CASE s = 0
  <2> DEFINE r == [peer |-> id, from |-> from, data |-> d]
  <2>1. reading' = [reading EXCEPT ![a] = r] /\ UNCHANGED <<sessions, queued>>
    BY <1>6 DEF Udp!Lookup
  <2>2. r \in Lookups /\ r.data = d
    BY <1>2 DEF Lookups
  <2> HIDE DEF r
  <2>3. r # UdpIdle /\ r \notin Mades
    BY <2>2, ReadingKinds
  <2>4. /\ reading' \in [UdpPollers -> {UdpIdle} \cup Lookups \cup Mades] /\ reading'[a] = r
        /\ \A b \in UdpPollers \ {a} : reading'[b] = reading[b] /\ ReadBy(b)' = ReadBy(b)
        /\ ReadBy(a)' = {d}
    BY <2>1, <2>2, <2>3, ReadingFacts
  <2>5. UdpTypes'
    BY <1>1, <1>2, <2>1, <2>4 DEF UdpTypes
  <2>6. Referred'
    BY <1>1, <2>1, <2>3, <2>4 DEF Referred
  <2>7. Ending' /\ Listening' = Listening
    BY <1>1, <2>1 DEF Ending, Listening
  <2>8. Elsewhere({Reader(a)})
    BY <2>1, <2>4 DEF Elsewhere, InQueue, Got
  <2>9. \A x \in UdpBoxes \ {Reader(a)} : Data'[x] = Data[x]
    BY <2>8, ElsewhereSame
  <2>10. Data'[Reader(a)] = Data[Reader(a)] \cup {d}
    BY <1>1, <2>4, DataNow DEF ReadBy
  <2>11. /\ Family(Data', UdpBoxes, d)
         /\ Covered(Data, UdpBoxes, Len(sender)) => Covered(Data', UdpBoxes, d)
    BY <1>2, <1>3, <2>9, <2>10, DataNow, FamilyNew
  <2>12. Once'
    BY <1>2, <2>1, <2>7, <2>11 DEF Once
  <2> QED BY <2>5, <2>6, <2>7, <2>12
<1> QED BY <1>5, <1>6

\* No datagram goes to another place; when all listen, none is dropped.
LEMMA OnceStays ==
    ASSUME Once, UNCHANGED sender, Listening' => Listening,
           \A x \in UdpBoxes : Data'[x] \subseteq Data[x],
           Listening' => \A x \in UdpBoxes : Data'[x] = Data[x],
           \A b \in UdpPollers : Pairwise(queued'[b], Distinct),
           \A s \in DOMAIN sessions' : IsInjective(sessions'[s].got)
    PROVE  Once'
<1>1. Family(Data', UdpBoxes, Len(sender))
  BY FamilyFewer DEF Once
<1>2. Listening' => Covered(Data', UdpBoxes, Len(sender))
  BY DEF Once, Covered
<1> QED BY <1>1, <1>2 DEF Once

\* A datagram goes from the place x to the place y.
LEMMA OnceMoves ==
    ASSUME Once, UNCHANGED sender, Listening' => Listening,
           NEW x \in UdpBoxes, NEW y \in UdpBoxes, x # y, NEW d \in Data[x],
           Data'[x] = Data[x] \ {d}, Data'[y] = Data[y] \cup {d}, Elsewhere({x, y}),
           \A b \in UdpPollers : Pairwise(queued'[b], Distinct),
           \A s \in DOMAIN sessions' : IsInjective(sessions'[s].got)
    PROVE  Once'
<1>1. \A z \in UdpBoxes \ {x, y} : Data'[z] = Data[z]
  BY ElsewhereSame
<1>2. /\ Family(Data', UdpBoxes, Len(sender))
      /\ Covered(Data, UdpBoxes, Len(sender)) => Covered(Data', UdpBoxes, Len(sender))
  BY <1>1, FamilyMove DEF Once
<1> QED BY <1>2 DEF Once

\* What one place holds, no other does.
LEMMA NotElsewhere ==
    ASSUME Once, NEW x \in UdpBoxes, NEW d \in Data[x]
    PROVE  \A y \in UdpBoxes \ {x} : d \notin Data[y]
BY DEF Once, Family

LEMMA SessionReadStep ==
    ASSUME UdpInv, NEW s \in DOMAIN sessions, NEW from \in Peers,
           Udp!OnSessionRead(s, from)
    PROVE  UdpInv'
<1> USE DEF UdpInv
<1> DEFINE d == Len(sender) + 1
<1>1. CASE from # sessions[s].addr
  <2>1. sessions[s].at \in UdpPollers /\ sessions[s].peer \in Peers
    BY SessionFields
  <2> QED BY <1>1, <2>1, LookupStep DEF Udp!OnSessionRead
<1>2. CASE from = sessions[s].addr
  <2>1. /\ up /\ sender' = Append(sender, from) /\ sessions' = Udp!Received(s, d)
        /\ UNCHANGED <<sessionMap, queued, reading, erasures, up>>
    BY <1>2 DEF Udp!OnSessionRead
  <2>2. Len(sender) \in Nat /\ d \in Nat /\ sender' \in Seq(Peers) /\ Len(sender') = d
    BY <2>1, LenProperties, AppendProperties DEF UdpTypes
  <2>3. Family(Data, UdpBoxes, Len(sender)) /\ s \in Nat
    BY SessionFields DEF Once
  <2>4. \A x \in UdpBoxes : d \notin Data[x]
    BY <2>2, <2>3 DEF Family
  <2>5. /\ Stays
        /\ \A t \in DOMAIN sessions : /\ sessions'[t].enable = sessions[t].enable
                                      /\ sessions'[t].errs = sessions[t].errs
                                      /\ IsInjective(sessions'[t].got)
        /\ \A t \in Nat \ {s} : Got(t)' = Got(t)
        /\ Got(s)' = IF sessions[s].enable THEN Got(s) \cup {d} ELSE Got(s)
    <3>1. d \notin Got(s)
      BY <2>3, <2>4, DataNow
    <3> QED BY <2>1, <2>2, <3>1, ReceivedFacts DEF Once
  <2>6. UdpTypes'
    BY <2>1, <2>2, <2>5 DEF UdpTypes, Stays
  <2>7. /\ Ending' /\ (Listening' => Listening)
        /\ \A p \in Peers : sessionMap'[p] # 0 =>
              sessionMap'[p] \in DOMAIN sessions' /\ sessions'[sessionMap'[p]].peer = p
    BY <2>1, <2>5, EndingStays
  <2>8. Referred'
    BY <2>1, <2>5, <2>7, ReferredStays DEF Stays
  <2>9. Elsewhere({Session(s)})
    BY <2>1, <2>5 DEF Elsewhere, ReadBy, InQueue
  <2>10. \A x \in UdpBoxes \ {Session(s)} : Data'[x] = Data[x]
    BY <2>9, ElsewhereSame
  <2>11. Family(Data', UdpBoxes, d) /\ (Listening' => Covered(Data', UdpBoxes, d))
    <3>1. CASE sessions[s].enable
      <4>1. Data'[Session(s)] = Data[Session(s)] \cup {d} /\ Session(s) \in UdpBoxes
        BY <2>3, <2>5, <3>1, DataNow
      <4>2. /\ Family(Data', UdpBoxes, d)
            /\ Covered(Data, UdpBoxes, Len(sender)) => Covered(Data', UdpBoxes, d)
        BY <2>2, <2>3, <2>10, <4>1, FamilyNew
      <4> QED BY <2>7, <4>2 DEF Once
    <3>2. CASE ~sessions[s].enable
      <4>1. Data'[Session(s)] = Data[Session(s)]
        BY <2>3, <2>5, <3>2, DataNow
      <4>2. Family(Data', UdpBoxes, Len(sender))
        BY <2>3, <2>10, <4>1, FamilyFewer
      <4>3. ~Listening'
        BY <2>7, <3>2 DEF Listening
      <4> QED BY <2>2, <4>2, <4>3, FamilyMore
    <3> QED BY <3>1, <3>2
  <2>12. Once'
    BY <2>1, <2>2, <2>5, <2>11 DEF Once, Stays
  <2> QED BY <2>6, <2>7, <2>8, <2>12
<1> QED BY <1>1, <1>2

LEMMA CreateHereStep ==
    ASSUME UdpInv, NEW a \in UdpPollers, Udp!CreateHere(a)
    PROVE  UdpInv'
<1> USE DEF UdpInv
<1>1. /\ reading[a] # UdpIdle /\ reading[a].peer \in Peers /\ UNCHANGED <<sender, queued, erasures, up>>
  BY ReadingKinds DEF Udp!CreateHere, Udp!Free
<1>2. reading[a] \in Lookups
  BY <1>1, ReadingKinds, SharingAssumption DEF SharingAssumption, UdpTypes
<1>3. PICK l \in Lookups : l = reading[a]
  BY <1>2
<1>4. CASE ~up
  <2>1. reading' = [reading EXCEPT ![a] = UdpIdle] /\ UNCHANGED <<sessions, sessionMap>>
    BY <1>4, ReadingKinds DEF Udp!CreateHere
  <2>2. /\ reading' \in [UdpPollers -> {UdpIdle} \cup Lookups \cup Mades] /\ reading'[a] = UdpIdle
        /\ \A b \in UdpPollers \ {a} : reading'[b] = reading[b] /\ ReadBy(b)' = ReadBy(b)
        /\ ReadBy(a)' = {}
    BY <2>1, ReadingFacts
  <2>3. UdpTypes' /\ Ending' /\ ~Listening'
    BY <1>1, <1>4, <2>1, <2>2 DEF UdpTypes, Ending, Listening
  <2>4. UdpIdle \notin Mades
    BY ReadingKinds
  <2>5. Referred'
    BY <1>1, <2>1, <2>2, <2>4 DEF Referred
  <2>6. Elsewhere({Reader(a)})
    BY <1>1, <2>1, <2>2 DEF Elsewhere, InQueue, Got
  <2>7. \A x \in UdpBoxes : Data'[x] \subseteq Data[x]
    BY <2>2, <2>6, ElsewhereSame, DataNow
  <2>8. Once'
    BY <1>1, <2>1, <2>3, <2>7, OnceStays DEF Once
  <2> QED BY <2>3, <2>5, <2>8
<1>5. CASE up
  <2> DEFINE r == [peer |-> "made", session |-> sessionMap'[l.peer], data |-> l.data]
  <2>1. /\ Udp!Make(a, l.peer, l.from) /\ reading' = [reading EXCEPT ![a] = r]
    BY <1>3, <1>5 DEF Udp!CreateHere
  <2>2. l.peer \in Peers /\ l.from \in Peers /\ l.data \in Nat
    BY ReadingKinds
  <2>3. /\ sessions' \in Seq(Sessions) /\ sessionMap' \in [Peers -> Nat]
        /\ DOMAIN sessions \subseteq DOMAIN sessions'
        /\ \A t \in DOMAIN sessions : sessions'[t] = sessions[t]
        /\ \A t \in DOMAIN sessions' : IsInjective(sessions'[t].got)
        /\ \A t \in Nat : Got(t)' = Got(t)
        /\ \A p \in Peers : sessionMap'[p] # 0 =>
              sessionMap'[p] \in DOMAIN sessions' /\ sessions'[sessionMap'[p]].peer = p
        /\ sessionMap'[l.peer] # 0
        /\ Ending'
        /\ Listening' => Listening
    BY <1>1, <1>5, <2>1, <2>2, MakeFacts DEF Once
  <2>4. r \in Mades /\ r.data = l.data /\ r.session \in DOMAIN sessions'
    BY <2>2, <2>3 DEF Mades
  <2> HIDE DEF r
  <2>5. /\ reading' \in [UdpPollers -> {UdpIdle} \cup Lookups \cup Mades] /\ reading'[a] = r
        /\ \A b \in UdpPollers \ {a} : reading'[b] = reading[b] /\ ReadBy(b)' = ReadBy(b)
        /\ ReadBy(a)' = {l.data}
    <3>1. r \in {UdpIdle} \cup Lookups \cup Mades /\ r # UdpIdle
      BY <2>4, ReadingKinds
    <3>2. /\ reading' \in [UdpPollers -> {UdpIdle} \cup Lookups \cup Mades] /\ reading'[a] = r
          /\ \A b \in UdpPollers \ {a} : reading'[b] = reading[b] /\ ReadBy(b)' = ReadBy(b)
          /\ ReadBy(a)' = IF r = UdpIdle THEN {} ELSE {r.data}
      BY <1>1, <2>1, <3>1, ReadingFacts, Zenon
    <3>3. ReadBy(a)' = {l.data}
      BY <2>4, <3>1, <3>2
    <3> QED BY <3>2, <3>3, Zenon
  <2>6. UdpTypes'
    BY <1>1, <2>3, <2>5 DEF UdpTypes
  <2>7. Referred'
    BY <1>1, <2>3, <2>4, <2>5, ReferredStays
  <2>8. ReadBy(a)' = ReadBy(a)
    BY <1>1, <1>3, <2>5 DEF ReadBy
  <2>9. Elsewhere({})
    BY <1>1, <2>3, <2>5, <2>8 DEF Elsewhere, InQueue
  <2>10. \A x \in UdpBoxes : Data'[x] = Data[x]
    BY <2>9, ElsewhereSame
  <2>11. Once'
    BY <1>1, <2>3, <2>10, OnceStays DEF Once
  <2> QED BY <2>3, <2>6, <2>7, <2>11
<1> QED BY <1>4, <1>5

LEMMA MadeStep ==
    ASSUME UdpInv, NEW a \in UdpPollers, Udp!Made(a)
    PROVE  UdpInv'
<1> USE DEF UdpInv
<1> DEFINE H == {Reader(c) : c \in UdpPollers}
<1>1. /\ reading[a] # UdpIdle /\ reading[a].peer = "made"
      /\ Udp!Emit(a, reading[a].session, reading[a].data)
      /\ reading' = [reading EXCEPT ![a] = UdpIdle]
      /\ UNCHANGED <<sessionMap, sender, erasures, up>>
  BY ReadingKinds DEF Udp!Made, Udp!Free
<1>2. reading[a] \in Mades
  BY <1>1, ReadingKinds DEF UdpTypes
<1>3. PICK s \in DOMAIN sessions, d \in Nat : reading[a].session = s /\ reading[a].data = d
  BY <1>2, ReadingKinds DEF Referred
<1>4. d \in Data[Reader(a)] /\ Reader(a) \in UdpBoxes /\ Data[Reader(a)] = {d}
  BY <1>1, <1>3, DataNow DEF ReadBy
<1>5. d \notin Got(s) /\ d \notin InQueue(sessions[s].at)
  <2>1. \A y \in UdpBoxes \ {Reader(a)} : d \notin Data[y]
    BY <1>4, NotElsewhere
  <2>2. s \in Nat /\ sessions[s].at \in UdpPollers
    BY SessionFields
  <2> QED BY <2>1, <2>2, DataNow, UdpBoxesApart
<1>6. /\ Stays
      /\ \A t \in DOMAIN sessions : /\ sessions'[t].enable = sessions[t].enable
                                    /\ sessions'[t].errs = sessions[t].errs
      /\ \A t \in DOMAIN sessions' : IsInjective(sessions'[t].got)
      /\ queued' \in [UdpPollers -> Seq(UdpTasks)]
      /\ \A b \in UdpPollers : Pairwise(queued'[b], Distinct)
      /\ \A b \in UdpPollers : \A x \in Range(queued'[b]) :
            x \in Range(queued[b]) \/ (x \in RecvTasks /\ x.session \in DOMAIN sessions)
      /\ EmitPlace(s, d)
  BY <1>1, <1>3, <1>5, EmitFacts
<1>7. /\ reading' \in [UdpPollers -> {UdpIdle} \cup Lookups \cup Mades] /\ reading'[a] = UdpIdle
      /\ \A b \in UdpPollers \ {a} : reading'[b] = reading[b] /\ ReadBy(b)' = ReadBy(b)
      /\ ReadBy(a)' = {}
  BY <1>1, ReadingFacts
<1>8. UdpTypes'
  BY <1>1, <1>6, <1>7 DEF UdpTypes, Stays
<1>9. /\ Ending' /\ (Listening' => Listening)
      /\ \A p \in Peers : sessionMap'[p] # 0 =>
            sessionMap'[p] \in DOMAIN sessions' /\ sessions'[sessionMap'[p]].peer = p
  BY <1>1, <1>6, EndingStays
<1>10. Referred'
  <2>1. \A x \in RecvTasks : x \notin ManageTasks
    BY UdpKinds
  <2>2. DOMAIN sessions' = DOMAIN sessions /\ UdpIdle \notin Mades
    BY <1>6, ReadingKinds DEF Stays
  <2> QED BY <1>6, <1>7, <1>9, <2>1, <2>2, ReferredStays
<1>11. Data'[Reader(a)] = Data[Reader(a)] \ {d}
  BY <1>4, <1>7, DataNow
<1>12. CASE ~sessions[s].enable /\ Elsewhere(H)
  <2>1. Elsewhere({Reader(a)})
    BY <1>7, <1>12, UdpBoxesApart DEF Elsewhere
  <2>2. \A x \in UdpBoxes : Data'[x] \subseteq Data[x]
    BY <1>11, <2>1, ElsewhereSame
  <2>3. ~Listening'
    BY <1>9, <1>12 DEF Listening
  <2>4. Once'
    BY <1>1, <1>6, <2>2, <2>3, OnceStays
  <2> QED BY <1>8, <1>9, <1>10, <2>4
<1>13. ASSUME NEW y \in UdpBoxes \ H, Data'[y] = Data[y] \cup {d}, Elsewhere(H \cup {y})
       PROVE  UdpInv'
  <2>1. Elsewhere({Reader(a), y})
    <3>1. \A c \in UdpPollers : Queue(c) \notin H
      BY UdpBoxesApart
    <3>2. \A t \in Nat : Session(t) \notin H
      BY UdpBoxesApart
    <3>3. \A b \in UdpPollers : Queue(b) # y => InQueue(b)' = InQueue(b)
      BY <1>13, <3>1 DEF Elsewhere
    <3>4. \A t \in Nat : Session(t) # y => Got(t)' = Got(t)
      BY <1>13, <3>2 DEF Elsewhere
    <3>5. \A c \in UdpPollers : Reader(c) # Reader(a) => ReadBy(c)' = ReadBy(c)
      BY <1>7
    <3> QED BY <3>3, <3>4, <3>5 DEF Elsewhere
  <2>2. Reader(a) # y
    OBVIOUS
  <2>3. Once'
    BY <1>1, <1>4, <1>6, <1>9, <1>11, <1>13, <2>1, <2>2, OnceMoves
  <2> QED BY <1>8, <1>9, <1>10, <2>3
<1> QED BY <1>6, <1>12, <1>13 DEF EmitPlace

LEMMA CreateThereStep ==
    ASSUME UdpInv, NEW a \in UdpPollers, NEW b \in UdpPollers,
           Udp!CreateThere(a, b)
    PROVE  UdpInv'
<1> USE DEF UdpInv
<1>1. /\ reading[a] # UdpIdle /\ reading[a].peer \in Peers /\ a # b
      /\ reading' = [reading EXCEPT ![a] = UdpIdle]
      /\ UNCHANGED <<sessionMap, sessions, sender, erasures, up>>
  BY ReadingKinds DEF Udp!CreateThere, Udp!Free
<1>2. reading[a] \in Lookups
  BY <1>1, ReadingKinds, SharingAssumption DEF SharingAssumption, UdpTypes
<1>3. PICK l \in Lookups : l = reading[a]
  BY <1>2
<1> DEFINE e == [do |-> "create", peer |-> l.peer, from |-> l.from, data |-> l.data]
           d == l.data
<1>4. Udp!Put(b, e)
  BY <1>3 DEF Udp!CreateThere
<1>5. e \in CreateTasks /\ e \in UdpTasks /\ e.data = d
  BY ReadingKinds DEF CreateTasks, UdpTasks
<1> HIDE DEF e
<1>6. DataOf(e) = {d} /\ e \notin RecvTasks /\ e \notin ManageTasks
  BY <1>5, UdpKinds
<1>7. d \in Data[Reader(a)] /\ Reader(a) \in UdpBoxes /\ Data[Reader(a)] = {d}
  BY <1>1, <1>3, DataNow DEF ReadBy
<1>8. d \notin InQueue(b) /\ Queue(b) \in UdpBoxes /\ Reader(a) # Queue(b)
  <2>1. \A y \in UdpBoxes \ {Reader(a)} : d \notin Data[y]
    BY <1>7, NotElsewhere
  <2> QED BY <2>1, DataNow, UdpBoxesApart
<1>9. /\ queued' \in [UdpPollers -> Seq(UdpTasks)]
      /\ \A c \in UdpPollers : Pairwise(queued'[c], Distinct)
      /\ \A c \in UdpPollers \ {b} : queued'[c] = queued[c] /\ InQueue(c)' = InQueue(c)
      /\ InQueue(b)' = InQueue(b) \cup DataOf(e)
      /\ \A c \in UdpPollers : \A x \in Range(queued'[c]) : x \in Range(queued[c]) \/ x = e
  <2>1. DataOf(e) \cap InQueue(b) = {}
    BY <1>6, <1>8
  <2> QED BY <1>4, <1>5, <2>1, PutFacts DEF Once
<1>10. /\ reading' \in [UdpPollers -> {UdpIdle} \cup Lookups \cup Mades] /\ reading'[a] = UdpIdle
       /\ \A c \in UdpPollers \ {a} : reading'[c] = reading[c] /\ ReadBy(c)' = ReadBy(c)
       /\ ReadBy(a)' = {}
  BY <1>1, ReadingFacts
<1>11. UdpTypes'
  BY <1>1, <1>9, <1>10 DEF UdpTypes
<1>12. Ending' /\ Listening' = Listening
  BY <1>1 DEF Ending, Listening
<1>13. Referred'
  <2>1. UdpIdle \notin Mades
    BY ReadingKinds
  <2>2. \A p \in Peers : sessionMap'[p] # 0 =>
            sessionMap'[p] \in DOMAIN sessions' /\ sessions'[sessionMap'[p]].peer = p
    BY <1>1 DEF Referred
  <2> QED BY <1>1, <1>6, <1>9, <1>10, <2>1, <2>2, ReferredStays
<1>14. Elsewhere({Reader(a), Queue(b)})
  BY <1>1, <1>9, <1>10 DEF Elsewhere, Got
<1>15. Data'[Reader(a)] = Data[Reader(a)] \ {d}
  BY <1>7, <1>10, DataNow
<1>16. Data'[Queue(b)] = Data[Queue(b)] \cup {d}
  <2>1. InQueue(b)' = InQueue(b) \cup {d}
    BY <1>6, <1>9
  <2> QED BY <2>1, DataNow
<1>17. \A s \in DOMAIN sessions' : IsInjective(sessions'[s].got)
  BY <1>1 DEF Once
<1>18. Once'
  BY <1>1, <1>7, <1>8, <1>9, <1>12, <1>14, <1>15, <1>16, <1>17, OnceMoves
<1> QED BY <1>11, <1>12, <1>13, <1>18

LEMMA EndedFacts ==
    ASSUME UdpTypes, NEW s \in DOMAIN sessions, sessions[s].errs = 0
    PROVE  /\ Udp!Ended(s)[s] \in Sessions
           /\ Udp!Ended(s)[s].peer = sessions[s].peer /\ Udp!Ended(s)[s].at = sessions[s].at
           /\ Udp!Ended(s)[s].got = sessions[s].got
           /\ ~Udp!Ended(s)[s].enable /\ Udp!Ended(s)[s].errs = 1
<1>1. PICK r \in Sessions : r = sessions[s]
  BY SessionFields
<1>2. Udp!Ended(s)[s] = [r EXCEPT !.enable = FALSE, !.errs = 1]
  BY <1>1 DEF Udp!Ended, Sessions
<1>3. 1 \in 0..1
  OBVIOUS
<1>4. /\ [r EXCEPT !.enable = FALSE, !.errs = 1] \in Sessions
      /\ [r EXCEPT !.enable = FALSE, !.errs = 1].peer = r.peer
      /\ [r EXCEPT !.enable = FALSE, !.errs = 1].at = r.at
      /\ [r EXCEPT !.enable = FALSE, !.errs = 1].got = r.got
      /\ ~[r EXCEPT !.enable = FALSE, !.errs = 1].enable
      /\ [r EXCEPT !.enable = FALSE, !.errs = 1].errs = 1
  BY <1>3 DEF Sessions
<1> QED BY <1>1, <1>2, <1>4

\* Sessions end, in their socket's failure or in a round of the manager.
LEMMA SessionsEnd ==
    ASSUME UdpTypes, Referred, Ending, Once,
           NEW over \in SUBSET {s \in DOMAIN sessions : sessions[s].errs = 0},
           sessions' = [s \in DOMAIN sessions |-> IF s \in over THEN Udp!Ended(s)[s] ELSE sessions[s]],
           erasures' = (IF up THEN erasures \cup {sessions[s].peer : s \in over} ELSE erasures),
           UNCHANGED <<sessionMap, up>>
    PROVE  /\ Stays /\ erasures' \subseteq Peers /\ Ending' /\ (Listening' => Listening)
           /\ \A s \in DOMAIN sessions' : IsInjective(sessions'[s].got)
           /\ \A s \in Nat : Got(s)' = Got(s)
           /\ \A p \in Peers : sessionMap'[p] # 0 =>
                 sessionMap'[p] \in DOMAIN sessions' /\ sessions'[sessionMap'[p]].peer = p
<1>1. /\ DOMAIN sessions' = DOMAIN sessions /\ DOMAIN sessions = 1..Len(sessions)
      /\ Len(sessions) \in Nat
  BY LenProperties DEF UdpTypes
<1>2. \A s \in over : /\ sessions'[s] \in Sessions
                      /\ sessions'[s].peer = sessions[s].peer /\ sessions'[s].at = sessions[s].at
                      /\ sessions'[s].got = sessions[s].got
                      /\ ~sessions'[s].enable /\ sessions'[s].errs = 1
  BY EndedFacts
<1>3. \A s \in DOMAIN sessions \ over : sessions'[s] = sessions[s] /\ sessions[s] \in Sessions
  BY SessionFields
<1>4. Stays
  <2>1. sessions' \in [1..Len(sessions) -> Sessions]
    BY <1>1, <1>2, <1>3
  <2>2. sessions' \in Seq(Sessions)
    BY <1>1, <2>1
  <2> QED BY <1>1, <1>2, <1>3, <2>2 DEF Stays
<1>5. \A s \in DOMAIN sessions : /\ sessions[s].peer \in Peers
                                 /\ sessions[s].errs = 0 => sessions[s].enable
  BY SessionFields DEF Ending
<1>6. erasures' \subseteq Peers
  BY <1>5 DEF UdpTypes
<1>7. \A s \in DOMAIN sessions' : /\ sessions'[s].got = sessions[s].got
                                  /\ sessions'[s].peer = sessions[s].peer
                                  /\ sessions'[s].enable => sessions[s].enable
  BY <1>1, <1>2, <1>3
<1>8. /\ \A s \in DOMAIN sessions' : IsInjective(sessions'[s].got)
      /\ \A s \in Nat : Got(s)' = Got(s)
  BY <1>1, <1>7 DEF Once, Got
<1>9. \A p \in Peers : sessionMap'[p] # 0 =>
         sessionMap'[p] \in DOMAIN sessions' /\ sessions'[sessionMap'[p]].peer = p
  BY <1>1, <1>7 DEF Referred
<1>10. Ending'
  <2>1. \A s \in DOMAIN sessions' : sessions'[s].enable <=> sessions'[s].errs = 0
    BY <1>1, <1>2, <1>3 DEF Ending
  <2>2. up' => \A s \in DOMAIN sessions' : sessions'[s].enable => sessionMap'[sessions'[s].peer] = s
    BY <1>1, <1>7 DEF Ending
  <2>3. ASSUME up, NEW p \in erasures' PROVE sessionMap[p] # 0 /\ ~sessions'[sessionMap[p]].enable
    <3>1. CASE p \in erasures
      <4>1. p \in Peers /\ sessionMap[p] # 0 /\ ~sessions[sessionMap[p]].enable
        BY <2>3, <3>1 DEF Ending, UdpTypes
      <4>2. sessionMap[p] \in DOMAIN sessions
        BY <4>1 DEF Referred
      <4> QED BY <1>1, <1>7, <4>1, <4>2
    <3>2. CASE p \notin erasures
      <4>1. PICK s \in over : p = sessions[s].peer
        BY <2>3, <3>2
      <4>2. sessionMap[p] = s /\ s # 0
        BY <1>1, <1>5, <2>3, <4>1 DEF Ending
      <4> QED BY <1>2, <4>2
    <3> QED BY <3>1, <3>2
  <2> QED BY <2>1, <2>2, <2>3 DEF Ending
<1>11. Listening' => Listening
  BY <1>1, <1>7 DEF Listening
<1> QED BY <1>4, <1>6, <1>8, <1>9, <1>10, <1>11

LEMMA RecvTaskStep ==
    ASSUME UdpInv, NEW b \in UdpPollers, queued[b] # <<>>,
           Head(queued[b]).do = "recv",
           sessions' = Udp!Received(Head(queued[b]).session, Head(queued[b]).data),
           queued' = [queued EXCEPT ![b] = Tail(@)],
           UNCHANGED <<sessionMap, reading, erasures, sender, up>>
    PROVE  UdpInv'
<1> USE DEF UdpInv
<1>1. /\ queued' \in [UdpPollers -> Seq(UdpTasks)]
      /\ \A a \in UdpPollers : Pairwise(queued'[a], Distinct)
      /\ \A a \in UdpPollers \ {b} : InQueue(a)' = InQueue(a)
      /\ InQueue(b)' = InQueue(b) \ DataOf(Head(queued[b]))
      /\ DataOf(Head(queued[b])) \subseteq InQueue(b)
      /\ Head(queued[b]) \in UdpTasks /\ Head(queued[b]) \in Range(queued[b])
      /\ \A a \in UdpPollers : \A x \in Range(queued'[a]) : x \in Range(queued[a])
  BY RunFacts DEF Once
<1>2. PICK t \in RecvTasks : t = Head(queued[b])
  BY <1>1, UdpKinds
<1>3. t.session \in DOMAIN sessions
  BY <1>1, <1>2 DEF Referred
<1>4. PICK s \in DOMAIN sessions, d \in Nat : t.session = s /\ t.data = d
  BY <1>3, UdpKinds
<1>5. s \in Nat /\ DataOf(t) = {d} /\ Queue(b) \in UdpBoxes /\ Session(s) \in UdpBoxes
      /\ Queue(b) # Session(s)
  BY <1>4, UdpKinds, SessionFields, DataNow, UdpBoxesApart
<1>6. d \in Data[Queue(b)] /\ Data'[Queue(b)] = Data[Queue(b)] \ {d}
  <2>1. InQueue(b)' = InQueue(b) \ {d} /\ d \in InQueue(b)
    BY <1>1, <1>2, <1>5
  <2> QED BY <2>1, DataNow
<1>7. d \notin Got(s)
  <2>1. \A y \in UdpBoxes \ {Queue(b)} : d \notin Data[y]
    BY <1>5, <1>6, NotElsewhere
  <2> QED BY <1>5, <2>1, DataNow
<1>8. /\ Stays
      /\ \A u \in DOMAIN sessions : /\ sessions'[u].enable = sessions[u].enable
                                    /\ sessions'[u].errs = sessions[u].errs
                                    /\ IsInjective(sessions'[u].got)
      /\ \A u \in Nat \ {s} : Got(u)' = Got(u)
      /\ Got(s)' = IF sessions[s].enable THEN Got(s) \cup {d} ELSE Got(s)
  BY <1>2, <1>4, <1>7, ReceivedFacts DEF Once
<1>9. UdpTypes'
  BY <1>1, <1>8 DEF UdpTypes, Stays
<1>10. /\ Ending' /\ (Listening' => Listening)
       /\ \A p \in Peers : sessionMap'[p] # 0 =>
             sessionMap'[p] \in DOMAIN sessions' /\ sessions'[sessionMap'[p]].peer = p
  BY <1>8, EndingStays
<1>11. Referred'
  BY <1>1, <1>8, <1>10, ReferredStays DEF Stays
<1>12. Elsewhere({Queue(b), Session(s)})
  <2>1. \A a \in UdpPollers : ReadBy(a)' = ReadBy(a)
    BY DEF ReadBy
  <2> QED BY <1>1, <1>8, <2>1 DEF Elsewhere
<1>13. \A u \in DOMAIN sessions' : IsInjective(sessions'[u].got)
  BY <1>8 DEF Stays
<1>14. Once'
  <2>1. CASE sessions[s].enable
    <3>1. Data'[Session(s)] = Data[Session(s)] \cup {d}
      BY <1>5, <1>8, <2>1, DataNow
    <3> QED BY <1>1, <1>5, <1>6, <1>10, <1>12, <1>13, <3>1, OnceMoves
  <2>2. CASE ~sessions[s].enable
    <3>1. Data'[Session(s)] = Data[Session(s)]
      BY <1>5, <1>8, <2>2, DataNow
    <3>2. \A x \in UdpBoxes : Data'[x] \subseteq Data[x]
      BY <1>6, <1>12, <3>1, ElsewhereSame
    <3>3. ~Listening'
      BY <1>10, <2>2 DEF Listening
    <3> QED BY <1>1, <1>13, <3>2, <3>3, OnceStays
  <2> QED BY <2>1, <2>2
<1> QED BY <1>9, <1>10, <1>11, <1>14

LEMMA CreateTaskStep ==
    ASSUME UdpInv, NEW b \in UdpPollers, reading[b] = UdpIdle,
           queued[b] # <<>>, NEW t, t = Head(queued[b]), t.do = "create",
           IF up
           THEN /\ Udp!Make(b, t.peer, t.from)
                /\ reading' = [reading EXCEPT ![b] =
                       [peer |-> "made", session |-> sessionMap'[t.peer], data |-> t.data]]
           ELSE UNCHANGED <<sessions, sessionMap, reading>>,
           queued' = [queued EXCEPT ![b] = Tail(@)],
           UNCHANGED <<erasures, sender, up>>
    PROVE  UdpInv'
<1> USE DEF UdpInv
<1>1. /\ queued' \in [UdpPollers -> Seq(UdpTasks)]
      /\ \A a \in UdpPollers : Pairwise(queued'[a], Distinct)
      /\ \A a \in UdpPollers \ {b} : InQueue(a)' = InQueue(a)
      /\ InQueue(b)' = InQueue(b) \ DataOf(t)
      /\ DataOf(t) \subseteq InQueue(b)
      /\ t \in UdpTasks
      /\ \A a \in UdpPollers : \A x \in Range(queued'[a]) : x \in Range(queued[a])
  BY RunFacts DEF Once
<1>2. t \in CreateTasks
  BY <1>1, UdpKinds
<1>3. t.peer \in Peers /\ t.from \in Peers /\ t.data \in Nat /\ DataOf(t) = {t.data}
  BY <1>2, UdpKinds
<1>4. CASE ~up
  <2>1. UNCHANGED <<sessions, sessionMap, reading>>
    BY <1>4
  <2>2. UdpTypes' /\ Ending' /\ ~Listening'
    BY <1>1, <1>4, <2>1 DEF UdpTypes, Ending, Listening
  <2>3. Referred'
    BY <1>1, <2>1 DEF Referred
  <2>4. Elsewhere({Queue(b)})
    BY <1>1, <2>1 DEF Elsewhere, ReadBy, Got
  <2>5. Data'[Queue(b)] \subseteq Data[Queue(b)]
    BY <1>1, DataNow
  <2>6. \A x \in UdpBoxes : Data'[x] \subseteq Data[x]
    BY <2>4, <2>5, ElsewhereSame
  <2>7. Once'
    BY <1>1, <2>1, <2>2, <2>6, OnceStays DEF Once
  <2> QED BY <2>2, <2>3, <2>7
<1>5. CASE up
  <2> DEFINE r == [peer |-> "made", session |-> sessionMap'[t.peer], data |-> t.data]
             d == t.data
  <2>1. Udp!Make(b, t.peer, t.from) /\ reading' = [reading EXCEPT ![b] = r]
    BY <1>5
  <2>2. /\ sessions' \in Seq(Sessions) /\ sessionMap' \in [Peers -> Nat]
        /\ DOMAIN sessions \subseteq DOMAIN sessions'
        /\ \A u \in DOMAIN sessions : sessions'[u] = sessions[u]
        /\ \A u \in DOMAIN sessions' : IsInjective(sessions'[u].got)
        /\ \A u \in Nat : Got(u)' = Got(u)
        /\ \A p \in Peers : sessionMap'[p] # 0 =>
              sessionMap'[p] \in DOMAIN sessions' /\ sessions'[sessionMap'[p]].peer = p
        /\ sessionMap'[t.peer] # 0
        /\ Ending'
        /\ Listening' => Listening
    BY <1>3, <1>5, <2>1, MakeFacts DEF Once
  <2>3. r \in Mades /\ r.data = d /\ r.session \in DOMAIN sessions'
    BY <1>3, <2>2 DEF Mades
  <2> HIDE DEF r
  <2>4. /\ reading' \in [UdpPollers -> {UdpIdle} \cup Lookups \cup Mades] /\ reading'[b] = r
        /\ \A a \in UdpPollers \ {b} : reading'[a] = reading[a] /\ ReadBy(a)' = ReadBy(a)
        /\ ReadBy(b)' = {d}
    <3>1. r # UdpIdle /\ r \in {UdpIdle} \cup Lookups \cup Mades
      BY <2>3, ReadingKinds
    <3> QED BY <2>1, <2>3, <3>1, ReadingFacts
  <2>5. UdpTypes'
    BY <1>1, <2>2, <2>4 DEF UdpTypes
  <2>6. Referred'
    BY <1>1, <2>2, <2>3, <2>4, ReferredStays
  <2>7. Elsewhere({Queue(b), Reader(b)})
    BY <1>1, <2>2, <2>4 DEF Elsewhere
  <2>8. d \in Data[Queue(b)] /\ Data'[Queue(b)] = Data[Queue(b)] \ {d}
    <3>1. InQueue(b)' = InQueue(b) \ {d} /\ d \in InQueue(b)
      BY <1>1, <1>3
    <3> QED BY <3>1, DataNow
  <2>9. Data'[Reader(b)] = Data[Reader(b)] \cup {d}
    BY <2>4, DataNow DEF ReadBy
  <2>10. Queue(b) \in UdpBoxes /\ Reader(b) \in UdpBoxes /\ Queue(b) # Reader(b)
    BY DataNow, UdpBoxesApart
  <2>11. Once'
    BY <1>1, <2>2, <2>7, <2>8, <2>9, <2>10, OnceMoves
  <2> QED BY <2>2, <2>5, <2>6, <2>11
<1> QED BY <1>4, <1>5

LEMMA EndsStep ==
    ASSUME UdpInv, NEW over \in SUBSET {s \in DOMAIN sessions : sessions[s].errs = 0},
           sessions' = [s \in DOMAIN sessions |-> IF s \in over THEN Udp!Ended(s)[s] ELSE sessions[s]],
           erasures' = (IF up THEN erasures \cup {sessions[s].peer : s \in over} ELSE erasures),
           queued' \in [UdpPollers -> Seq(UdpTasks)],
           \A a \in UdpPollers : Pairwise(queued'[a], Distinct),
           \A a \in UdpPollers : InQueue(a)' = InQueue(a),
           \A a \in UdpPollers : \A x \in Range(queued'[a]) : x \in Range(queued[a]),
           UNCHANGED <<sessionMap, reading, sender, up>>
    PROVE  UdpInv'
<1> USE DEF UdpInv
<1>1. /\ Stays /\ erasures' \subseteq Peers /\ Ending' /\ (Listening' => Listening)
      /\ \A s \in DOMAIN sessions' : IsInjective(sessions'[s].got)
      /\ \A s \in Nat : Got(s)' = Got(s)
      /\ \A p \in Peers : sessionMap'[p] # 0 =>
            sessionMap'[p] \in DOMAIN sessions' /\ sessions'[sessionMap'[p]].peer = p
  BY SessionsEnd
<1>2. UdpTypes'
  BY <1>1 DEF UdpTypes, Stays
<1>3. Referred'
  BY <1>1, ReferredStays DEF Stays
<1>4. Elsewhere({})
  BY <1>1 DEF Elsewhere, ReadBy
<1>5. \A x \in UdpBoxes : Data'[x] = Data[x]
  BY <1>4, ElsewhereSame
<1>6. Once'
  BY <1>1, <1>5, OnceStays
<1> QED BY <1>1, <1>2, <1>3, <1>6

LEMMA RunTaskStep ==
    ASSUME UdpInv, NEW b \in UdpPollers, Udp!RunTask(b)
    PROVE  UdpInv'
<1> DEFINE t == Head(queued[b])
<1>1. reading[b] = UdpIdle /\ queued[b] # <<>> /\ UNCHANGED <<sender, up>>
  BY ReadingKinds DEF Udp!RunTask, Udp!Free
<1>2. CASE /\ t.do = "recv" /\ sessions' = Udp!Received(t.session, t.data)
           /\ queued' = [queued EXCEPT ![b] = Tail(@)]
           /\ UNCHANGED <<sessionMap, reading, erasures>>
  BY <1>1, <1>2, RecvTaskStep
<1>3. CASE /\ t.do = "create"
           /\ IF up
              THEN /\ Udp!Make(b, t.peer, t.from)
                   /\ reading' = [reading EXCEPT ![b] =
                          [peer |-> "made", session |-> sessionMap'[t.peer], data |-> t.data]]
              ELSE UNCHANGED <<sessions, sessionMap, reading>>
           /\ queued' = [queued EXCEPT ![b] = Tail(@)]
           /\ UNCHANGED erasures
  <2>1. PICK x : x = t
    OBVIOUS
  <2> QED BY <1>1, <1>3, <2>1, CreateTaskStep
<1>4. CASE /\ t.do = "manage" /\ queued' = [queued EXCEPT ![b] = Tail(@)]
           /\ \E over \in SUBSET {s \in t.sessions : sessions[s].at = b /\ sessions[s].errs = 0} :
                 /\ sessions' = [s \in DOMAIN sessions |->
                        IF s \in over THEN Udp!Ended(s)[s] ELSE sessions[s]]
                 /\ erasures' = IF up THEN erasures \cup {sessions[s].peer : s \in over}
                                ELSE erasures
           /\ UNCHANGED <<sessionMap, reading>>
  <2>1. /\ queued' \in [UdpPollers -> Seq(UdpTasks)]
        /\ \A a \in UdpPollers : Pairwise(queued'[a], Distinct)
        /\ \A a \in UdpPollers \ {b} : InQueue(a)' = InQueue(a)
        /\ InQueue(b)' = InQueue(b) \ DataOf(t)
        /\ t \in UdpTasks /\ t \in Range(queued[b])
        /\ \A a \in UdpPollers : \A x \in Range(queued'[a]) : x \in Range(queued[a])
    BY <1>1, <1>4, RunFacts DEF UdpInv, Once
  <2>2. t \in ManageTasks /\ DataOf(t) = {} /\ t.sessions \subseteq DOMAIN sessions
    <3>1. t \in ManageTasks
      BY <1>4, <2>1, UdpKinds
    <3> QED BY <2>1, <3>1, UdpKinds DEF UdpInv, Referred
  <2>3. \A a \in UdpPollers : InQueue(a)' = InQueue(a)
    <3>1. InQueue(b)' = InQueue(b)
      BY <2>1, <2>2
    <3> QED BY <2>1, <3>1
  <2>4. PICK over \in SUBSET {s \in t.sessions : sessions[s].at = b /\ sessions[s].errs = 0} :
           /\ sessions' = [s \in DOMAIN sessions |->
                  IF s \in over THEN Udp!Ended(s)[s] ELSE sessions[s]]
           /\ erasures' = IF up THEN erasures \cup {sessions[s].peer : s \in over} ELSE erasures
    BY <1>4
  <2>5. over \in SUBSET {s \in DOMAIN sessions : sessions[s].errs = 0}
    BY <2>2, <2>4
  <2> QED BY <1>1, <1>4, <2>1, <2>3, <2>4, <2>5, EndsStep
<1> QED BY <1>2, <1>3, <1>4 DEF Udp!RunTask

LEMMA FailStep ==
    ASSUME UdpInv, NEW s \in DOMAIN sessions, Udp!Fail(s)
    PROVE  UdpInv'
<1> DEFINE over == {s}
<1>1. /\ sessions[s].errs = 0 /\ sessions' = Udp!Ended(s)
      /\ erasures' = IF up THEN erasures \cup {sessions[s].peer} ELSE erasures
      /\ UNCHANGED <<sessionMap, sender, queued, reading, up>>
  BY DEF Udp!Fail
<1>2. over \in SUBSET {t \in DOMAIN sessions : sessions[t].errs = 0}
  BY <1>1
<1>3. sessions' = [t \in DOMAIN sessions |-> IF t \in over THEN Udp!Ended(t)[t] ELSE sessions[t]]
  BY <1>1 DEF Udp!Ended
<1>4. erasures' = IF up THEN erasures \cup {sessions[t].peer : t \in over} ELSE erasures
  BY <1>1
<1> HIDE DEF over
<1>5. /\ queued' \in [UdpPollers -> Seq(UdpTasks)]
      /\ \A a \in UdpPollers : /\ Pairwise(queued'[a], Distinct) /\ InQueue(a)' = InQueue(a)
                               /\ \A x \in Range(queued'[a]) : x \in Range(queued[a])
  BY <1>1 DEF UdpInv, UdpTypes, Once, InQueue
<1> QED BY <1>1, <1>2, <1>3, <1>4, <1>5, EndsStep

\* The datagrams stay where they are.
LEMMA OnceSame ==
    ASSUME Once, UNCHANGED <<sessions, sender, queued, reading>>, Listening' => Listening
    PROVE  Once'
<1>1. Elsewhere({})
  BY DEF Elsewhere, ReadBy, InQueue, Got
<1>2. \A x \in UdpBoxes : Data'[x] = Data[x]
  BY <1>1, ElsewhereSame
<1> QED BY <1>2, OnceStays DEF Once

\* A delayed erasure finds the session it was made for.
LEMMA EraseStep ==
    ASSUME UdpInv, NEW id \in Peers, Udp!Erase(id)
    PROVE  UdpInv'
<1> USE DEF UdpInv
<1>1. /\ id \in erasures /\ erasures' = erasures \ {id}
      /\ sessionMap' = IF up THEN [sessionMap EXCEPT ![id] = 0] ELSE sessionMap
      /\ UNCHANGED <<sessions, sender, queued, reading, up>>
  BY DEF Udp!Erase
<1>2. /\ sessionMap' \in [Peers -> Nat]
      /\ \A p \in Peers \ {id} : sessionMap'[p] = sessionMap[p]
      /\ sessionMap'[id] \in {0, sessionMap[id]}
  BY <1>1 DEF UdpTypes
<1>3. UdpTypes'
  BY <1>1, <1>2 DEF UdpTypes
<1>4. Referred'
  <2>1. \A p \in Peers : sessionMap'[p] # 0 => sessionMap'[p] = sessionMap[p]
    BY <1>2
  <2> QED BY <1>1, <2>1 DEF Referred
<1>5. Ending'
  <2>1. ASSUME up, NEW s \in DOMAIN sessions, sessions[s].enable
        PROVE  sessionMap'[sessions[s].peer] = s
    <3>1. sessionMap[sessions[s].peer] = s /\ sessions[s].peer \in Peers
      BY <2>1, SessionFields DEF Ending
    <3>2. sessions[s].peer # id
      BY <1>1, <2>1, <3>1 DEF Ending
    <3> QED BY <1>2, <3>1, <3>2
  <2>2. ASSUME up, NEW p \in erasures' PROVE sessionMap'[p] # 0 /\ ~sessions[sessionMap'[p]].enable
    <3>1. p \in erasures /\ p # id /\ p \in Peers
      BY <1>1, <2>2 DEF UdpTypes
    <3> QED BY <1>2, <2>2, <3>1 DEF Ending
  <2> QED BY <1>1, <2>1, <2>2 DEF Ending
<1>6. Once'
  BY <1>1, OnceSame DEF Listening
<1> QED BY <1>3, <1>4, <1>5, <1>6

LEMMA OnManagerStep ==
    ASSUME UdpInv, Udp!OnManager
    PROVE  UdpInv'
<1> USE DEF UdpInv
<1> DEFINE e == [do |-> "manage", sessions |-> Udp!InMap]
<1>1. /\ queued' = [b \in UdpPollers |-> Append(queued[b], e)]
      /\ UNCHANGED <<sessionMap, sessions, sender, reading, erasures, up>>
  BY DEF Udp!OnManager
<1>2. Udp!InMap \subseteq Nat /\ Udp!InMap \subseteq DOMAIN sessions
  BY DEF Udp!InMap, UdpTypes, Referred
<1>3. e \in ManageTasks /\ e \in UdpTasks /\ e.sessions \subseteq DOMAIN sessions
  BY <1>2 DEF ManageTasks, UdpTasks
<1> HIDE DEF e
<1>4. DataOf(e) = {} /\ e \notin RecvTasks
  BY <1>3, UdpKinds
<1>5. ASSUME NEW b \in UdpPollers
      PROVE  /\ queued'[b] \in Seq(UdpTasks) /\ Pairwise(queued'[b], Distinct)
             /\ InQueue(b)' = InQueue(b)
             /\ \A x \in Range(queued'[b]) : x \in Range(queued[b]) \/ x = e
  <2>1. queued[b] \in Seq(UdpTasks) /\ queued'[b] = Append(queued[b], e)
    BY <1>1 DEF UdpTypes
  <2>2. Pairwise(queued[b], Distinct) /\ DataOf(e) \cap Datas(queued[b]) = {}
    BY <1>4 DEF Once
  <2>3. /\ Append(queued[b], e) \in Seq(UdpTasks) /\ Pairwise(Append(queued[b], e), Distinct)
        /\ Datas(Append(queued[b], e)) = Datas(queued[b]) \cup DataOf(e)
        /\ Range(Append(queued[b], e)) = Range(queued[b]) \cup {e}
    BY <1>3, <2>1, <2>2, QueueAppended
  <2> QED BY <1>4, <2>1, <2>3 DEF InQueue
<1>6. UdpTypes'
  BY <1>1, <1>5 DEF UdpTypes
<1>7. Referred'
  BY <1>1, <1>3, <1>4, <1>5 DEF Referred
<1>8. Ending' /\ Listening' = Listening
  BY <1>1 DEF Ending, Listening
<1>9. Elsewhere({})
  BY <1>1, <1>5 DEF Elsewhere, ReadBy, Got
<1>10. \A x \in UdpBoxes : Data'[x] = Data[x]
  BY <1>9, ElsewhereSame
<1>11. Once'
  BY <1>1, <1>5, <1>8, <1>10, OnceStays DEF Once
<1> QED BY <1>6, <1>7, <1>8, <1>11

LEMMA DestroyStep ==
    ASSUME UdpInv, Udp!Destroy
    PROVE  UdpInv'
<1> USE DEF UdpInv
<1>1. /\ up' = FALSE /\ sessionMap' = [id \in Peers |-> 0]
      /\ UNCHANGED <<sessions, sender, queued, reading, erasures>>
  BY DEF Udp!Destroy
<1>2. UdpTypes'
  BY <1>1 DEF UdpTypes
<1>3. \A p \in Peers : sessionMap'[p] = 0
  BY <1>1
<1>4. Referred' /\ Ending'
  BY <1>1, <1>3 DEF Referred, Ending
<1>5. Once'
  BY <1>1, OnceSame DEF Listening
<1> QED BY <1>2, <1>4, <1>5

LEMMA UdpStart == Udp!Init => UdpInv
<1> SUFFICES ASSUME Udp!Init PROVE UdpInv
  OBVIOUS
<1>1. /\ sessionMap = [id \in Peers |-> 0] /\ sessions = <<>> /\ sender = <<>>
      /\ queued = [a \in UdpPollers |-> <<>>] /\ erasures = {} /\ up = TRUE
      /\ reading = [a \in UdpPollers |-> UdpIdle]
  BY DEF Udp!Init, Udp!Idle, UdpIdle
<1>2. /\ DOMAIN sessions = {} /\ Len(sender) = 0 /\ 1..0 = {}
      /\ \A a \in UdpPollers : queued[a] = <<>>
  BY <1>1
<1>3. \A a \in UdpPollers : Range(queued[a]) = {} /\ Pairwise(queued[a], Distinct)
  BY <1>2, RangeEmpty, PairwiseEmpty
<1>4. UdpTypes
  BY <1>1 DEF UdpTypes
<1>5. UdpIdle \notin Mades
  BY DEF UdpIdle, Mades
<1>6. Referred /\ Ending
  BY <1>1, <1>2, <1>3, <1>5 DEF Referred, Ending
<1>7. \A x \in UdpBoxes : Data[x] = {}
  <2>1. \A a \in UdpPollers : ReadBy(a) = {} /\ InQueue(a) = {}
    BY <1>1, <1>3 DEF ReadBy, InQueue, Datas
  <2>2. \A s \in Nat : Got(s) = {}
    BY <1>2 DEF Got
  <2> QED BY <2>1, <2>2, DataNow DEF UdpBoxes
<1>8. Once
  BY <1>2, <1>3, <1>7 DEF Once, Family, Covered
<1> QED BY <1>4, <1>6, <1>8 DEF UdpInv

LEMMA UdpStep == UdpInv /\ [Udp!Next]_(Udp!udpVars) => UdpInv'
<1> SUFFICES ASSUME UdpInv, [Udp!Next]_(Udp!udpVars) PROVE UdpInv'
  OBVIOUS
<1>1. CASE UNCHANGED Udp!udpVars
  <2>1. UdpTypes' /\ Referred' /\ Ending' /\ Listening' = Listening
    BY <1>1 DEF Udp!udpVars, UdpInv, UdpTypes, Referred, Ending, Listening
  <2> QED BY <1>1, <2>1, OnceSame DEF Udp!udpVars, UdpInv
<1>2. ASSUME NEW a \in UdpPollers, NEW id \in Peers, Udp!OnRead(a, id) PROVE UdpInv'
  BY <1>2, LookupStep DEF Udp!OnRead
<1> QED BY <1>1, <1>2, SessionReadStep, CreateHereStep, MadeStep, CreateThereStep, RunTaskStep,
           FailStep, EraseStep, OnManagerStep, DestroyStep DEF Udp!Next

-----------------------------------------------------------------------------
(* What the invariant says of the places that UdpServer counts. *)

LEMMA UdpCardinality == \A S : Udp!Cardinality(S) = Cardinality(S)
BY DEF Udp!Cardinality, Cardinality

LEMMA AtMostOne ==
    ASSUME NEW S, \A x, y \in S : x = y
    PROVE  Cardinality(S) = IF S = {} THEN 0 ELSE 1
<1>1. CASE S = {}
  BY <1>1, FS_EmptySet
<1>2. CASE S # {}
  <2>1. PICK x : S = {x}
    BY <1>2
  <2> QED BY <2>1, FS_Singleton
<1> QED BY <1>1, <1>2

\* The places of a datagram, as UdpServer counts them.
Hands(d) == {a \in UdpPollers : ~Udp!Free(a) /\ reading[a].data = d}
Turns(b, d) == {i \in DOMAIN queued[b] : queued[b][i].do # "manage" /\ queued[b][i].data = d}
Copies(s, d) == {i \in DOMAIN sessions[s].got : sessions[s].got[i] = d}
Queues(d) == UNION {{b} \X Turns(b, d) : b \in UdpPollers}
Takers(d) == UNION {{s} \X Copies(s, d) : s \in DOMAIN sessions}

LEMMA PlacesMeet ==
    ASSUME UdpInv, NEW d
    PROVE  /\ \A a \in UdpPollers : a \in Hands(d) <=> d \in Data[Reader(a)]
           /\ \A b \in UdpPollers : Turns(b, d) # {} <=> d \in Data[Queue(b)]
           /\ \A s \in DOMAIN sessions : Copies(s, d) # {} <=> d \in Data[Session(s)]
<1> USE DEF UdpInv
<1>1. \A a \in UdpPollers : a \in Hands(d) <=> d \in ReadBy(a)
  BY DEF Hands, ReadBy, Udp!Free, Udp!Idle, UdpIdle
<1>2. ASSUME NEW b \in UdpPollers PROVE Turns(b, d) # {} <=> d \in InQueue(b)
  <2>1. queued[b] \in Seq(UdpTasks)
    BY DEF UdpTypes
  <2>2. \A i \in DOMAIN queued[b] :
           queued[b][i] \in UdpTasks /\ (queued[b][i].do # "manage" <=> queued[b][i] \notin ManageTasks)
    BY <2>1, LenProperties, ElementOfSeq, UdpKinds
  <2>3. d \in InQueue(b) <=> \E i \in DOMAIN queued[b] : d \in DataOf(queued[b][i])
    BY DEF InQueue, Datas, Range
  <2>4. \A i \in DOMAIN queued[b] : d \in DataOf(queued[b][i]) <=>
           queued[b][i] \notin ManageTasks /\ queued[b][i].data = d
    BY DEF DataOf
  <2> QED BY <2>2, <2>3, <2>4 DEF Turns
<1>3. \A s \in DOMAIN sessions : s \in Nat /\ Got(s) = Range(sessions[s].got)
  BY SessionFields
<1>4. \A s \in DOMAIN sessions : Copies(s, d) # {} <=> d \in Got(s)
  BY <1>3 DEF Copies, Range
<1> QED BY <1>1, <1>2, <1>3, <1>4, DataNow

LEMMA PlacesAlone ==
    ASSUME UdpInv, NEW d
    PROVE  /\ \A x, y \in Hands(d) : x = y
           /\ \A x, y \in Queues(d) : x = y
           /\ \A x, y \in Takers(d) : x = y
           /\ Hands(d) = {} \/ Queues(d) = {}
           /\ Hands(d) = {} \/ Takers(d) = {}
           /\ Queues(d) = {} \/ Takers(d) = {}
<1> USE DEF UdpInv
<1>1. \A x, y \in UdpBoxes : d \in Data[x] /\ d \in Data[y] => x = y
  BY DEF Once, Family
<1>2. ASSUME NEW x \in Hands(d), NEW y \in Hands(d) PROVE x = y
  <2>1. x \in UdpPollers /\ y \in UdpPollers
    BY DEF Hands
  <2>2. Reader(x) = Reader(y)
    BY <1>1, <2>1, PlacesMeet, DataNow
  <2> QED BY <2>1, <2>2, UdpBoxesApart
<1>3. ASSUME NEW x \in Queues(d), NEW y \in Queues(d) PROVE x = y
  <2>1. PICK b \in UdpPollers : \E i \in Turns(b, d) : x = <<b, i>>
    BY DEF Queues
  <2>1a. PICK i \in Turns(b, d) : x = <<b, i>>
    BY <2>1
  <2>2. PICK c \in UdpPollers : \E j \in Turns(c, d) : y = <<c, j>>
    BY DEF Queues
  <2>2a. PICK j \in Turns(c, d) : y = <<c, j>>
    BY <2>2
  <2>3. d \in Data[Queue(b)] /\ d \in Data[Queue(c)]
    BY PlacesMeet, <2>1a, <2>2a
  <2>4. Queue(b) = Queue(c)
    BY <1>1, <2>3, DataNow
  <2>5. b = c
    BY <2>4, UdpBoxesApart
  <2>6. queued[b] \in Seq(UdpTasks) /\ Pairwise(queued[b], Distinct)
    BY DEF UdpTypes, Once
  <2>7. /\ i \in DOMAIN queued[b] /\ j \in DOMAIN queued[b]
        /\ i \in Nat /\ j \in Nat
        /\ queued[b][i] \in UdpTasks /\ queued[b][j] \in UdpTasks
    BY <2>1a, <2>2a, <2>5, <2>6, LenProperties, ElementOfSeq DEF Turns
  <2>8. d \in DataOf(queued[b][i]) /\ d \in DataOf(queued[b][j])
    BY <2>1a, <2>2a, <2>5, <2>7, UdpKinds DEF Turns, DataOf
  <2>9. ~(i < j) /\ ~(j < i)
    BY <2>6, <2>7, <2>8 DEF Pairwise, Distinct
  <2>10. i = j
    BY <2>7, <2>9
  <2> QED BY <2>1a, <2>2a, <2>5, <2>10
<1>4. ASSUME NEW x \in Takers(d), NEW y \in Takers(d) PROVE x = y
  <2>1. PICK s \in DOMAIN sessions : \E i \in Copies(s, d) : x = <<s, i>>
    BY DEF Takers
  <2>1a. PICK i \in Copies(s, d) : x = <<s, i>>
    BY <2>1
  <2>2. PICK t \in DOMAIN sessions : \E j \in Copies(t, d) : y = <<t, j>>
    BY DEF Takers
  <2>2a. PICK j \in Copies(t, d) : y = <<t, j>>
    BY <2>2
  <2>3. d \in Data[Session(s)] /\ d \in Data[Session(t)] /\ s \in Nat /\ t \in Nat
    BY PlacesMeet, SessionFields, <2>1a, <2>2a
  <2>4. Session(s) = Session(t)
    BY <1>1, <2>3, DataNow
  <2>5. s = t
    BY <2>3, <2>4, UdpBoxesApart
  <2>6. IsInjective(sessions[s].got)
    BY DEF Once
  <2>7. i = j
    BY <2>1a, <2>2a, <2>5, <2>6 DEF Copies, IsInjective
  <2> QED BY <2>1a, <2>2a, <2>5, <2>7
<1>5. \A b \in UdpPollers : Queue(b) \in UdpBoxes /\ \A a \in UdpPollers : Reader(a) # Queue(b)
  BY DataNow, UdpBoxesApart
<1>6. \A s \in DOMAIN sessions : /\ Session(s) \in UdpBoxes
                                 /\ \A a \in UdpPollers : Reader(a) # Session(s) /\ Queue(a) # Session(s)
  BY SessionFields, DataNow, UdpBoxesApart
<1>7. Queues(d) # {} => \E b \in UdpPollers : d \in Data[Queue(b)]
  BY PlacesMeet DEF Queues
<1>8. Takers(d) # {} => \E s \in DOMAIN sessions : d \in Data[Session(s)]
  BY PlacesMeet DEF Takers
<1>9. Hands(d) # {} => \E a \in UdpPollers : d \in Data[Reader(a)]
  BY PlacesMeet DEF Hands
<1>10. \A a \in UdpPollers : Reader(a) \in UdpBoxes
  BY DataNow
<1> QED BY <1>1, <1>2, <1>3, <1>4, <1>5, <1>6, <1>7, <1>8, <1>9, <1>10

LEMMA UdpInvRight == UdpInv => Udp!UdpRight
<1> SUFFICES ASSUME UdpInv PROVE Udp!Kept /\ Udp!EachOnce
  BY DEF Udp!UdpRight
<1>1. Udp!Kept
  <2> SUFFICES ASSUME NEW s \in DOMAIN sessions
               PROVE  /\ sessions[s].errs <= 1
                      /\ up => \/ sessionMap[sessions[s].peer] = s
                               \/ ~sessions[s].enable /\ sessions[s].errs = 1
    BY DEF Udp!Kept
  <2>1. sessions[s].errs \in 0..1
    BY SessionFields DEF UdpInv
  <2> QED BY <2>1 DEF UdpInv, Ending
<1>2. ASSUME NEW d \in DOMAIN sender
      PROVE  /\ Udp!Taken(d) + Udp!OnTheWay(d) <= 1
             /\ Listening => Udp!Taken(d) + Udp!OnTheWay(d) = 1
  <2> DEFINE h == Cardinality(Hands(d))
             q == Cardinality(Queues(d))
             t == Cardinality(Takers(d))
  <2>1. Udp!Taken(d) = t /\ Udp!OnTheWay(d) = h + q
    <3>1. Udp!Taken(d) = t
      BY UdpCardinality DEF Udp!Taken, Takers, Copies
    <3>2. Udp!OnTheWay(d) = h + q
      BY UdpCardinality DEF Udp!OnTheWay, Hands, Queues, Turns
    <3> QED BY <3>1, <3>2
  <2>2. /\ h = IF Hands(d) = {} THEN 0 ELSE 1
        /\ q = IF Queues(d) = {} THEN 0 ELSE 1
        /\ t = IF Takers(d) = {} THEN 0 ELSE 1
    BY PlacesAlone, AtMostOne
  <2>3. /\ Hands(d) = {} \/ Queues(d) = {}
        /\ Hands(d) = {} \/ Takers(d) = {}
        /\ Queues(d) = {} \/ Takers(d) = {}
    BY PlacesAlone
  <2>4. ASSUME Listening PROVE Hands(d) # {} \/ Queues(d) # {} \/ Takers(d) # {}
    <3>1. d \in 1..Len(sender)
      BY LenProperties DEF UdpInv, UdpTypes
    <3>2. PICK x \in UdpBoxes : d \in Data[x]
      BY <2>4, <3>1 DEF UdpInv, Once, Covered
    <3>3. ASSUME NEW a \in UdpPollers, x = Reader(a) PROVE Hands(d) # {}
      BY <3>2, <3>3, PlacesMeet
    <3>4. ASSUME NEW b \in UdpPollers, x = Queue(b) PROVE Queues(d) # {}
      <4>1. PICK i : i \in Turns(b, d)
        BY <3>2, <3>4, PlacesMeet
      <4>2. <<b, i>> \in Queues(d)
        BY <4>1 DEF Queues
      <4> QED BY <4>2
    <3>5. ASSUME NEW s \in Nat, x = Session(s) PROVE Takers(d) # {}
      <4>1. s \in DOMAIN sessions
        BY <3>2, <3>5, DataNow DEF Got
      <4>2. PICK i : i \in Copies(s, d)
        BY <3>2, <3>5, <4>1, PlacesMeet
      <4>3. <<s, i>> \in Takers(d)
        BY <4>1, <4>2 DEF Takers
      <4> QED BY <4>3
    <3> QED BY <3>3, <3>4, <3>5 DEF UdpBoxes
  <2> HIDE DEF h, q, t
  <2> QED BY <2>1, <2>2, <2>3, <2>4
<1>3. Udp!EachOnce
  BY <1>2 DEF Udp!EachOnce, Listening
<1> QED BY <1>1, <1>3

-----------------------------------------------------------------------------
(* Least and greatest numbers. *)

LEMMA LeastNatural ==
    ASSUME NEW S \in SUBSET Nat, S # {}
    PROVE  \E m \in S : \A n \in S : m <= n
<1>1. PICK x \in S : \A y \in S : <<y, x>> \notin OpToRel(<, Nat)
  BY WFMin, NatLessThanWellFounded
<1>2. \A y \in S : ~(y < x)
  BY <1>1 DEF OpToRel
<1> QED BY <1>2

\* Of places in a sequence there is a last one too.
LEMMA GreatestNatural ==
    ASSUME NEW k \in Nat, NEW S, S \subseteq 0..k, S # {}
    PROVE  \E m \in S : \A n \in S : n <= m
<1> DEFINE D == {k - n : n \in S}
<1>1. D \subseteq Nat /\ D # {}
  <2>1. PICK n : n \in S
    OBVIOUS
  <2>2. k - n \in D
    BY <2>1
  <2>3. \A m \in S : k - m \in Nat
    OBVIOUS
  <2> QED BY <2>2, <2>3
<1> HIDE DEF D
<1>2. PICK d \in D : \A e \in D : d <= e
  BY <1>1, LeastNatural
<1>3. PICK m \in S : d = k - m
  BY DEF D
<1>4. \A n \in S : k - m <= k - n
  BY <1>2, <1>3 DEF D
<1> QED BY <1>4

LEMMA LeastOf ==
    ASSUME NEW S, IsFiniteSet(S), S # {}, NEW R,
           \A a \in S : <<a, a>> \notin R,
           \A a, b, c \in S : <<a, b>> \in R /\ <<b, c>> \in R => <<a, c>> \in R
    PROVE  \E m \in S : \A s \in S : <<s, m>> \notin R
<1> DEFINE Before(s) == {r \in S : <<r, s>> \in R}
           Ranks == {Cardinality(Before(s)) : s \in S}
<1>1. \A s \in S : IsFiniteSet(Before(s)) /\ Cardinality(Before(s)) \in Nat
  <2>1. \A s \in S : Before(s) \subseteq S
    OBVIOUS
  <2> QED BY <2>1, FS_Subset, FS_CardinalityType
<1> HIDE DEF Before
<1>2. Ranks \in SUBSET Nat /\ Ranks # {}
  BY <1>1
<1> HIDE DEF Ranks
<1>3. PICK n \in Ranks : \A k \in Ranks : n <= k
  BY <1>2, LeastNatural
<1>4. PICK m \in S : n = Cardinality(Before(m))
  BY DEF Ranks
<1>5. ASSUME NEW s \in S, <<s, m>> \in R PROVE FALSE
  <2>1. Before(s) \subseteq Before(m)
    BY <1>5 DEF Before
  <2>2. s \in Before(m) /\ s \notin Before(s)
    BY <1>5 DEF Before
  <2>3. Cardinality(Before(s)) < Cardinality(Before(m))
    BY <1>1, <2>1, <2>2, FS_Subset
  <2>4. Cardinality(Before(s)) \in Ranks
    BY DEF Ranks
  <2> QED BY <1>1, <1>3, <1>4, <2>3, <2>4
<1> QED BY <1>5

LEMMA QuotientGrows ==
    ASSUME NEW a \in Int, NEW b \in Int, a <= b, NEW d \in Nat \ {0}
    PROVE  a \div d \in Int /\ b \div d \in Int /\ a \div d <= b \div d /\ (a >= 0 => a \div d >= 0)
OBVIOUS

-----------------------------------------------------------------------------
(* The receiving side of a socket (SocketRead). *)

Tasks == [do : {"add", "modify", "err"}, read : BOOLEAN]
Callers == Read!ReadThreads
ReadPlaces == {"idle", "set", "flags", "modify", "emit", "read"}

ReadTypes ==
    /\ place \in [Callers -> ReadPlaces] /\ flags \in [Callers -> BOOLEAN]
    /\ jobs \in Seq(Tasks)
    /\ watched \in BOOLEAN /\ reads \in BOOLEAN /\ ready \in BOOLEAN
    /\ recving \in BOOLEAN /\ holder \in BOOLEAN /\ emitted \in BOOLEAN
    /\ fin \in BOOLEAN /\ once \in BOOLEAN
    /\ errs \in Nat /\ late \in Nat
    /\ place[ReadPoller] \in {"idle", "read"}

Queued(what) == {i \in 1..Len(jobs) : jobs[i].do = what}

\* Nothing happened that NotForgotten makes an exception of.
Ordinary == /\ history \cap {"empty", "shared"} = {}
            /\ ~(once /\ "resumed" \in history)

\* Then only the poller has changed the events, so that they are those of _enable_recv, and
\* what there is to read is reported, or being read.
Reporting ==
    Ordinary /\ ~emitted =>
        /\ \A t \in Callers : place[t] \notin {"flags", "modify"}
        /\ Queued("modify") = {}
        /\ watched /\ recving => reads
        /\ watched /\ recving /\ Read!Readable => ready \/ place[ReadPoller] = "read"

\* The descriptor enters epoll once, before any error.
AddingRead ==
    /\ "opened" \notin history => /\ ~watched /\ Queued("add") = {} /\ Queued("err") = {}
                                  /\ errs = 0 /\ ~emitted /\ place[ReadPoller] # "read"
                                  /\ \A t \in Callers : place[t] # "emit"
    /\ \A i, j \in Queued("add") : i = j
    /\ Queued("add") # {} => ~watched /\ errs = 0 /\ place[ReadPoller] # "read"
    /\ \A i \in Queued("add"), j \in Queued("err") : i < j

\* An error is told once, or waits to be.
Telling ==
    /\ emitted <=> errs > 0 \/ Queued("err") # {}
    /\ "both" \notin history => /\ errs <= 1 /\ \A i, j \in Queued("err") : i = j
                                /\ errs = 1 => Queued("err") = {}
    /\ errs > 0 /\ watched => "unheld" \in history
    /\ errs > 0 /\ place[ReadPoller] = "read" => history \cap {"inside", "unheld"} # {}
    /\ late > 0 => history \cap {"inside", "unheld"} # {}

ReadInv == ReadTypes /\ Reporting /\ AddingRead /\ Telling

LEMMA ReadStart == Read!Init => ReadInv
<1> SUFFICES ASSUME Read!Init PROVE ReadInv
  OBVIOUS
<1>1. jobs = <<>> /\ place = [t \in Callers |-> "idle"] /\ ReadPoller \in Callers
  BY DEF Read!Init, Read!ReadThreads, Callers
<1>2. \A what : Queued(what) = {}
  BY <1>1 DEF Queued
<1>3. ReadTypes
  <2>1. jobs \in Seq(Tasks)
    BY <1>1
  <2>2. place \in [Callers -> ReadPlaces] /\ place[ReadPoller] = "idle"
    BY <1>1 DEF ReadPlaces
  <2>3. flags \in [Callers -> BOOLEAN]
    BY DEF Read!Init, Callers
  <2> QED BY <2>1, <2>2, <2>3 DEF Read!Init, ReadTypes
<1> QED BY <1>1, <1>2, <1>3 DEF Read!Init, ReadInv, Reporting, AddingRead, Telling

\* The poller's queue.
LEMMA QueuedAppend ==
    ASSUME jobs \in Seq(Tasks), NEW job \in Tasks, jobs' = Append(jobs, job)
    PROVE  /\ jobs' \in Seq(Tasks) /\ Len(jobs) \in Nat
           /\ \A what : Queued(what)' = IF job.do = what THEN Queued(what) \cup {Len(jobs) + 1}
                                        ELSE Queued(what)
           /\ \A what : Queued(what) \subseteq 1..Len(jobs)
<1>1. /\ jobs' \in Seq(Tasks) /\ Len(jobs) \in Nat /\ Len(jobs') = Len(jobs) + 1
      /\ jobs'[Len(jobs) + 1] = job /\ \A i \in 1..Len(jobs) : jobs'[i] = jobs[i]
  OBVIOUS
<1> QED BY <1>1 DEF Queued

LEMMA QueuedTail ==
    ASSUME jobs \in Seq(Tasks), jobs # <<>>, jobs' = Tail(jobs)
    PROVE  /\ jobs' \in Seq(Tasks) /\ Head(jobs) \in Tasks /\ 1 \in Queued(Head(jobs).do)
           /\ \A what : \A i : i \in Queued(what)' <=> i \in Nat /\ i > 0 /\ i + 1 \in Queued(what)
           /\ \A what : Queued(what) \subseteq Nat \ {0}
           /\ \A what : 1 \in Queued(what) => what = Head(jobs).do
<1>1. /\ jobs' \in Seq(Tasks) /\ Len(jobs) \in Nat /\ Len(jobs) > 0 /\ Len(jobs') = Len(jobs) - 1
      /\ Head(jobs) = jobs[1] /\ Head(jobs) \in Tasks
  OBVIOUS
<1>2. \A i \in 1..Len(jobs') : jobs'[i] = jobs[i + 1]
  OBVIOUS
<1>3. \A what, i : i \in Queued(what)' <=> i \in Nat /\ i > 0 /\ i + 1 \in Queued(what)
  BY <1>1, <1>2 DEF Queued
<1> QED BY <1>1, <1>3 DEF Queued

LEMMA QueuedSame ==
    ASSUME jobs' = jobs
    PROVE  \A what : Queued(what)' = Queued(what)
BY DEF Queued

\* Errors and the descriptor's entry in epoll are left alone.
LEMMA ReadQuiet ==
    ASSUME ReadInv, UNCHANGED <<jobs, errs, emitted, watched, late>>,
           history \subseteq history', {"opened", "both"} \cap history' \subseteq history,
           \A t \in Callers : place'[t] = "emit" => place[t] = "emit",
           place'[ReadPoller] = "read" => place[ReadPoller] = "read"
    PROVE  AddingRead' /\ Telling'
<1>1. \A what : Queued(what)' = Queued(what)
  BY QueuedSame
<1>2. AddingRead'
  BY <1>1 DEF ReadInv, AddingRead
<1>3. Telling'
  BY <1>1 DEF ReadInv, Telling
<1> QED BY <1>2, <1>3

LEMMA ReadSetSockStep ==
    ASSUME ReadInv, NEW t \in ReadCallers, Read!SetSock(t) PROVE ReadInv'
<1> USE DEF Read!SetSock, Read!kernelV, Read!epollV, Read!Goto, Read!Note, Read!Called, Read!Readable
<1>1. ReadTypes'
  BY DEF ReadInv, ReadTypes, Callers, Read!ReadThreads, ReadPlaces, Tasks
<1>2. \A what : Queued(what)' = Queued(what)
  BY QueuedSame
<1>3. Reporting'
  BY <1>2 DEF ReadInv, ReadTypes, Reporting, Ordinary, Callers
<1>4. AddingRead'
  BY <1>2 DEF ReadInv, ReadTypes, AddingRead, Callers
<1>5. Telling'
  BY <1>2 DEF ReadInv, ReadTypes, AddingRead, Telling, Callers
<1> QED BY <1>1, <1>3, <1>4, <1>5 DEF ReadInv

LEMMA ReadComputeStep ==
    ASSUME ReadInv, NEW t \in ReadCallers, Read!ComputeFlags(t) PROVE ReadInv'
<1> USE DEF Read!ComputeFlags, Read!kernelV, Read!epollV, Read!Goto, Read!Note, Read!Called, Read!Readable
<1>1. ReadTypes'
  BY DEF ReadInv, ReadTypes, Callers, Read!ReadThreads, ReadPlaces, Tasks
<1>2. \A what : Queued(what)' = Queued(what)
  BY QueuedSame
<1>3. Reporting'
  BY <1>2 DEF ReadInv, ReadTypes, Reporting, Ordinary, Callers
<1>4. AddingRead'
  BY <1>2 DEF ReadInv, ReadTypes, AddingRead, Callers
<1>5. Telling'
  BY <1>2 DEF ReadInv, ReadTypes, AddingRead, Telling, Callers
<1> QED BY <1>1, <1>3, <1>4, <1>5 DEF ReadInv

LEMMA ReadEmitStep ==
    ASSUME ReadInv, NEW t \in ReadCallers, Read!Emit(t) PROVE ReadInv'
<1> USE DEF Read!Emit, Read!kernelV, Read!epollV, Read!Goto, Read!Note, Read!Called, Read!Readable
<1>1. ReadTypes'
  BY DEF ReadInv, ReadTypes, Callers, Read!ReadThreads, ReadPlaces, Tasks
<1>2. \A what : Queued(what)' = Queued(what)
  BY QueuedSame
<1>3. Reporting'
  BY <1>2 DEF ReadInv, ReadTypes, Reporting, Ordinary, Callers
<1>4. AddingRead'
  BY <1>2 DEF ReadInv, ReadTypes, AddingRead, Callers
<1>5. Telling'
  BY <1>2 DEF ReadInv, ReadTypes, AddingRead, Telling, Callers
<1> QED BY <1>1, <1>3, <1>4, <1>5 DEF ReadInv

LEMMA ReadEnableRecvStep ==
    ASSUME ReadInv, NEW t \in Callers, NEW b \in BOOLEAN, Read!EnableRecv(t, b) PROVE ReadInv'
<1> USE DEF Read!EnableRecv, Read!Modify, Read!kernelV, Read!epollV, Read!Goto, Read!Note, Read!Called, Read!Readable
<1>1. ReadTypes'
  BY DEF ReadInv, ReadTypes, Callers, Read!ReadThreads, ReadPlaces, Tasks
<1>2. \A what : Queued(what)' = Queued(what)
  BY QueuedSame
<1>3. Reporting'
  BY <1>2 DEF ReadInv, ReadTypes, Reporting, Ordinary, Callers
<1>4. /\ UNCHANGED <<jobs, errs, emitted, watched, late>>
      /\ history \subseteq history' /\ {"opened", "both"} \cap history' \subseteq history
      /\ \A u \in Callers : place'[u] = "emit" => place[u] = "emit"
      /\ place'[ReadPoller] = "read" => place[ReadPoller] = "read"
  <2>1. UNCHANGED <<jobs, errs, emitted, watched, late>>
    OBVIOUS
  <2>2. \E h \in {{}, {"shared"}, {"resumed"}, {"shared", "resumed"}} : history' = history \cup h
    OBVIOUS
  <2>3. history \subseteq history' /\ {"opened", "both"} \cap history' \subseteq history
    BY <2>2
  <2>4. place' = place \/ place' = [place EXCEPT ![t] = "flags"]
    OBVIOUS
  <2>5. ReadPoller \in Callers /\ place \in [Callers -> ReadPlaces]
    BY DEF ReadInv, ReadTypes, Callers, Read!ReadThreads
  <2>6. \A u \in Callers : place'[u] \in {place[u], "flags"}
    BY <2>4, <2>5
  <2> QED BY <2>1, <2>3, <2>5, <2>6
<1>5. AddingRead' /\ Telling'
  BY <1>4, ReadQuiet
<1> QED BY <1>1, <1>3, <1>5 DEF ReadInv

LEMMA ReadWriteAbleStep ==
    ASSUME ReadInv, NEW t \in Callers, Read!WriteAbleEvent(t) PROVE ReadInv'
<1> USE DEF Read!WriteAbleEvent, Read!Modify, Read!kernelV, Read!epollV, Read!Goto, Read!Note, Read!Called, Read!Readable
<1>1. ReadTypes'
  BY DEF ReadInv, ReadTypes, Callers, Read!ReadThreads, ReadPlaces, Tasks
<1>2. \A what : Queued(what)' = Queued(what)
  BY QueuedSame
<1>3. Reporting'
  BY <1>2 DEF ReadInv, ReadTypes, Reporting, Ordinary, Callers
<1>4. /\ UNCHANGED <<jobs, errs, emitted, watched, late>>
      /\ history \subseteq history' /\ {"opened", "both"} \cap history' \subseteq history
      /\ \A u \in Callers : place'[u] = "emit" => place[u] = "emit"
      /\ place'[ReadPoller] = "read" => place[ReadPoller] = "read"
  <2>1. UNCHANGED <<jobs, errs, emitted, watched, late>>
    OBVIOUS
  <2>2. \E h \in {{}, {"shared"}, {"resumed"}, {"shared", "resumed"}} : history' = history \cup h
    OBVIOUS
  <2>3. history \subseteq history' /\ {"opened", "both"} \cap history' \subseteq history
    BY <2>2
  <2>4. place' = place \/ place' = [place EXCEPT ![t] = "flags"]
    OBVIOUS
  <2>5. ReadPoller \in Callers /\ place \in [Callers -> ReadPlaces]
    BY DEF ReadInv, ReadTypes, Callers, Read!ReadThreads
  <2>6. \A u \in Callers : place'[u] \in {place[u], "flags"}
    BY <2>4, <2>5
  <2> QED BY <2>1, <2>3, <2>5, <2>6
<1>5. AddingRead' /\ Telling'
  BY <1>4, ReadQuiet
<1> QED BY <1>1, <1>3, <1>5 DEF ReadInv

LEMMA ReadEventStep ==
    ASSUME ReadInv, Read!ReadEvent PROVE ReadInv'
<1> USE DEF Read!ReadEvent, Read!kernelV, Read!epollV, Read!Goto, Read!Note, Read!Called, Read!Readable
<1>1. ReadTypes'
  BY DEF ReadInv, ReadTypes, Callers, Read!ReadThreads, ReadPlaces, Tasks
<1>2. \A what : Queued(what)' = Queued(what)
  BY QueuedSame
<1>3. Reporting'
  BY <1>2 DEF ReadInv, ReadTypes, Reporting, Ordinary, Callers, Read!ReadThreads
<1>4. AddingRead'
  BY <1>2 DEF ReadInv, ReadTypes, AddingRead, Callers
<1>5. Telling'
  BY <1>2 DEF ReadInv, ReadTypes, AddingRead, Telling, Callers
<1> QED BY <1>1, <1>3, <1>4, <1>5 DEF ReadInv

\* The poller, reading, tells an error of its own: it is the first.
LEMMA ReadTold ==
    ASSUME ReadInv, ~emitted, place[ReadPoller] = "read", NEW h \in {{}, {"inside"}},
           emitted' = TRUE, Read!Closed(h), UNCHANGED <<holder, jobs, late>>,
           place' = place \/ (place' = [place EXCEPT ![ReadPoller] = "idle"]),
           h = {} => place'[ReadPoller] = "idle"
    PROVE  /\ watched' \in BOOLEAN /\ reads' \in BOOLEAN /\ ready' \in BOOLEAN
           /\ recving' = TRUE /\ errs' = 1 /\ AddingRead' /\ Telling'
<1>1. \A what : Queued(what)' = Queued(what)
  BY QueuedSame
<1>3. errs = 0 /\ Queued("err") = {} /\ Queued("add") = {} /\ "opened" \in history
  BY DEF ReadInv, ReadTypes, AddingRead, Telling
<1>4. /\ watched' \in BOOLEAN /\ reads' \in BOOLEAN /\ ready' \in BOOLEAN
      /\ recving' = TRUE /\ errs' = 1
  <2>1. errs' = 1 /\ recving' = TRUE
    BY <1>3 DEF Read!Closed
  <2>2. CASE holder
    BY <2>1, <2>2 DEF Read!Closed
  <2>3. CASE ~holder
    BY <2>1, <2>3 DEF Read!Closed, Read!epollV, ReadInv, ReadTypes
  <2> QED BY <2>2, <2>3
<1>5. history \subseteq history' /\ h \subseteq history' /\ (watched' => "unheld" \in history')
  BY DEF Read!Closed, Read!Note, Read!epollV
<1>6. AddingRead'
  BY <1>1, <1>3, <1>4, <1>5 DEF AddingRead
<1>7. Telling'
  <2>1. (errs > 0 /\ place[ReadPoller] = "read" => history \cap {"inside", "unheld"} # {})'
    BY <1>5
  <2>2. (late > 0 => history \cap {"inside", "unheld"} # {})'
    BY <1>5 DEF ReadInv, Telling
  <2> QED BY <1>1, <1>3, <1>4, <1>5, <2>1, <2>2 DEF Telling
<1> QED BY <1>4, <1>6, <1>7

LEMMA ReadEndsStep ==
    ASSUME ReadInv, Read!OnReadEnds PROVE ReadInv'
<1>1. /\ place[ReadPoller] = "read" /\ place' = [place EXCEPT ![ReadPoller] = "idle"]
      /\ ReadPoller \in Callers /\ place \in [Callers -> ReadPlaces]
      /\ UNCHANGED <<sort, once, inbox, fin, arrived, holder, flags, jobs, got, late, calls>>
  BY DEF Read!OnReadEnds, Read!Goto, Read!kernelV, ReadInv, ReadTypes, Callers, Read!ReadThreads
<1>2. place' \in [Callers -> ReadPlaces] /\ place'[ReadPoller] = "idle"
      /\ \A t \in Callers : place'[t] \in {place[t], "idle"}
  BY <1>1 DEF ReadPlaces
<1>3. \A what : Queued(what)' = Queued(what)
  BY <1>1, QueuedSame
<1>4. CASE recving /\ fin /\ ~emitted
  <2>1. emitted' = TRUE /\ Read!Closed({})
    BY <1>4 DEF Read!OnReadEnds, Read!EmitHere
  <2>2. /\ watched' \in BOOLEAN /\ reads' \in BOOLEAN /\ ready' \in BOOLEAN
        /\ recving' = TRUE /\ errs' = 1 /\ AddingRead' /\ Telling'
    BY <1>1, <1>2, <1>4, <2>1, ReadTold
  <2>3. ReadTypes'
    BY <1>1, <1>2, <2>1, <2>2 DEF ReadInv, ReadTypes
  <2> QED BY <2>1, <2>2, <2>3 DEF ReadInv, Reporting
<1>5. CASE ~(recving /\ fin /\ ~emitted)
  <2>1. UNCHANGED <<emitted, errs, recving, watched, reads, ready, history>>
    BY <1>5 DEF Read!OnReadEnds, Read!EmitHere, Read!epollV
  <2>2. ReadTypes'
    BY <1>1, <1>2, <2>1 DEF ReadInv, ReadTypes
  <2>3. Reporting'
    <3>1. ~recving \/ inbox = <<>>
      BY DEF Read!OnReadEnds
    <3> QED BY <1>1, <1>2, <1>3, <1>5, <2>1, <3>1
            DEF ReadInv, ReadTypes, Reporting, Ordinary, Read!Readable
  <2>4. AddingRead' /\ Telling'
    BY <1>1, <1>2, <2>1, ReadQuiet
  <2> QED BY <2>2, <2>3, <2>4 DEF ReadInv
<1> QED BY <1>4, <1>5

LEMMA ReadEmptyStep ==
    ASSUME ReadInv, Read!OnReadEmpty PROVE ReadInv'
<1> USE DEF Read!OnReadEmpty, Read!kernelV, Read!epollV, Read!Goto, Read!Note, Read!Called, Read!Readable
<1>1. ReadTypes'
  BY DEF ReadInv, ReadTypes, Callers, Read!ReadThreads, ReadPlaces, Tasks
<1>2. \A what : Queued(what)' = Queued(what)
  BY QueuedSame
<1>3. Reporting'
  BY <1>2 DEF ReadInv, ReadTypes, Reporting, Ordinary, Callers
<1>4. AddingRead'
  BY <1>2 DEF ReadInv, ReadTypes, AddingRead, Callers
<1>5. Telling'
  BY <1>2 DEF ReadInv, ReadTypes, AddingRead, Telling, Callers
<1> QED BY <1>1, <1>3, <1>4, <1>5 DEF ReadInv

LEMMA ReadPacketStep ==
    ASSUME ReadInv, Read!OnRead PROVE ReadInv'
<1>1. /\ place[ReadPoller] = "read" /\ recving /\ ReadPoller \in Callers
      /\ UNCHANGED <<sort, once, fin, arrived, holder, place, flags, jobs, calls>>
  BY DEF Read!OnRead, Callers, Read!ReadThreads
<1>2. late' \in Nat /\ (late' > 0 => late > 0 \/ errs > 0) /\ (late' > late => errs > 0)
  BY DEF Read!OnRead, ReadInv, ReadTypes
<1>3. \A what : Queued(what)' = Queued(what)
  BY <1>1, QueuedSame
<1>4. late' > 0 => history \cap {"inside", "unheld"} # {}
  BY <1>1, <1>2 DEF ReadInv, Telling
<1>5. CASE UNCHANGED <<emitted, errs, recving, Read!epollV, history>>
  <2>1. UNCHANGED <<watched, reads, ready>>
    BY <1>5 DEF Read!epollV
  <2>2. ReadTypes'
    BY <1>1, <1>2, <1>5, <2>1 DEF ReadInv, ReadTypes
  <2>3. Reporting'
    BY <1>1, <1>3, <1>5, <2>1 DEF ReadInv, Reporting, Ordinary
  <2>4. AddingRead' /\ Telling'
    BY <1>1, <1>3, <1>4, <1>5, <2>1 DEF ReadInv, AddingRead, Telling
  <2> QED BY <2>2, <2>3, <2>4 DEF ReadInv
<1>6. CASE recving' = FALSE /\ Read!Modify(FALSE) /\ UNCHANGED <<emitted, errs, history>>
  <2>1. watched' = watched /\ reads' \in BOOLEAN /\ ready' \in BOOLEAN
    BY <1>6 DEF Read!Modify, ReadInv, ReadTypes
  <2>2. ReadTypes'
    BY <1>1, <1>2, <1>6, <2>1 DEF ReadInv, ReadTypes
  <2>3. Reporting'
    BY <1>1, <1>3, <1>6, <2>1 DEF ReadInv, Reporting, Ordinary
  <2>4. AddingRead' /\ Telling'
    BY <1>1, <1>3, <1>4, <1>6, <2>1 DEF ReadInv, AddingRead, Telling
  <2> QED BY <2>2, <2>3, <2>4 DEF ReadInv
<1>7. CASE ~emitted /\ emitted' = TRUE /\ Read!Closed({"inside"})
  <2>1. errs = 0
    BY <1>7 DEF ReadInv, ReadTypes, Telling
  <2>2. late' = late
    BY <2>1, <1>2 DEF ReadInv, ReadTypes, Read!OnRead
  <2>3. /\ watched' \in BOOLEAN /\ reads' \in BOOLEAN /\ ready' \in BOOLEAN
        /\ recving' = TRUE /\ errs' = 1 /\ AddingRead' /\ Telling'
    BY <1>1, <1>7, <2>2, ReadTold
  <2>4. ReadTypes'
    BY <1>1, <1>2, <1>7, <2>3 DEF ReadInv, ReadTypes
  <2> QED BY <1>7, <2>3, <2>4 DEF ReadInv, Reporting
<1> QED BY <1>5, <1>6, <1>7 DEF Read!OnRead

LEMMA ReadArriveStep ==
    ASSUME ReadInv, Read!Arrive PROVE ReadInv'
<1> USE DEF Read!Arrive, Read!Reported, Read!kernelV, Read!epollV, Read!Goto, Read!Note, Read!Called, Read!Readable
<1>1. ReadTypes'
  BY DEF ReadInv, ReadTypes, Callers, Read!ReadThreads, ReadPlaces, Tasks
<1>2. \A what : Queued(what)' = Queued(what)
  BY QueuedSame
<1>3. Reporting'
  BY <1>2 DEF ReadInv, ReadTypes, Reporting, Ordinary, Callers
<1>4. AddingRead'
  BY <1>2 DEF ReadInv, ReadTypes, AddingRead, Callers
<1>5. Telling'
  BY <1>2 DEF ReadInv, ReadTypes, AddingRead, Telling, Callers
<1> QED BY <1>1, <1>3, <1>4, <1>5 DEF ReadInv

LEMMA ReadFinishStep ==
    ASSUME ReadInv, Read!Finish PROVE ReadInv'
<1> USE DEF Read!Finish, Read!Reported, Read!kernelV, Read!epollV, Read!Goto, Read!Note, Read!Called, Read!Readable
<1>1. ReadTypes'
  BY DEF ReadInv, ReadTypes, Callers, Read!ReadThreads, ReadPlaces, Tasks
<1>2. \A what : Queued(what)' = Queued(what)
  BY QueuedSame
<1>3. Reporting'
  BY <1>2 DEF ReadInv, ReadTypes, Reporting, Ordinary, Callers
<1>4. AddingRead'
  BY <1>2 DEF ReadInv, ReadTypes, AddingRead, Callers
<1>5. Telling'
  BY <1>2 DEF ReadInv, ReadTypes, AddingRead, Telling, Callers
<1> QED BY <1>1, <1>3, <1>4, <1>5 DEF ReadInv

LEMMA ReadModifyLaterStep ==
    ASSUME ReadInv, NEW t \in ReadCallers, Read!ModifyLater(t) PROVE ReadInv'
<1> USE DEF Read!ModifyLater, Read!kernelV, Read!epollV, Read!Goto, Read!Note, Read!Called, Read!Readable
<1> DEFINE job == [do |-> "modify", read |-> flags[t]]
<1>1. job \in Tasks /\ jobs \in Seq(Tasks) /\ jobs' = Append(jobs, job)
  BY DEF ReadInv, ReadTypes, Tasks, Callers, Read!ReadThreads
<1>2. /\ jobs' \in Seq(Tasks) /\ Len(jobs) \in Nat
      /\ \A what : Queued(what)' = IF job.do = what THEN Queued(what) \cup {Len(jobs) + 1}
                                   ELSE Queued(what)
      /\ \A what : Queued(what) \subseteq 1..Len(jobs)
  BY <1>1, QueuedAppend
<1>3. ReadTypes'
  BY <1>2 DEF ReadInv, ReadTypes, Callers, Read!ReadThreads, ReadPlaces
<1>4. Reporting'
  BY <1>2 DEF ReadInv, ReadTypes, Reporting, Ordinary, Callers, Read!ReadThreads
<1>5. AddingRead'
  BY <1>2 DEF ReadInv, ReadTypes, AddingRead, Callers, Read!ReadThreads
<1>6. Telling'
  BY <1>2 DEF ReadInv, ReadTypes, AddingRead, Telling, Callers, Read!ReadThreads
<1> QED BY <1>3, <1>4, <1>5, <1>6 DEF ReadInv

LEMMA ReadEmitSetStep ==
    ASSUME ReadInv, NEW t \in ReadCallers, Read!EmitSet(t) PROVE ReadInv'
<1> USE DEF Read!EmitSet, Read!kernelV, Read!epollV, Read!Goto, Read!Note, Read!Called, Read!Readable
<1> DEFINE job == [do |-> "err", read |-> FALSE]
<1>1. job \in Tasks /\ jobs \in Seq(Tasks) /\ jobs' = Append(jobs, job)
  BY DEF ReadInv, ReadTypes, Tasks, Callers, Read!ReadThreads
<1>2. /\ jobs' \in Seq(Tasks) /\ Len(jobs) \in Nat
      /\ \A what : Queued(what)' = IF job.do = what THEN Queued(what) \cup {Len(jobs) + 1}
                                   ELSE Queued(what)
      /\ \A what : Queued(what) \subseteq 1..Len(jobs)
  BY <1>1, QueuedAppend
<1>3. ReadTypes'
  BY <1>2 DEF ReadInv, ReadTypes, Callers, Read!ReadThreads, ReadPlaces
<1>4. /\ emitted' = TRUE /\ UNCHANGED <<errs, watched, late>> /\ history \subseteq history'
      /\ {"opened"} \cap history' \subseteq history
      /\ "both" \notin history' => ~emitted /\ "both" \notin history
      /\ place' = [place EXCEPT ![t] = "idle"] /\ "opened" \in history
      /\ \A u \in Callers : place'[u] \in {place[u], "idle"}
  BY DEF ReadInv, ReadTypes, AddingRead, Callers, Read!ReadThreads
<1>5. /\ Queued("add")' = Queued("add") /\ Queued("err")' = Queued("err") \cup {Len(jobs) + 1}
      /\ Queued("add") \subseteq 1..Len(jobs) /\ Queued("err") \subseteq 1..Len(jobs)
  BY <1>2
<1>6. place'[ReadPoller] \in {place[ReadPoller], "idle"}
  BY <1>4 DEF Callers, Read!ReadThreads
<1> HIDE DEF Read!EmitSet
<1>7. AddingRead'
  <2>1. (\A i \in Queued("add"), j \in Queued("err") : i < j)'
    BY <1>2, <1>5 DEF ReadInv, AddingRead
  <2>2. (Queued("add") # {} => ~watched /\ errs = 0 /\ place[ReadPoller] # "read")'
    BY <1>4, <1>5, <1>6 DEF ReadInv, AddingRead
  <2> QED BY <1>4, <1>5, <2>1, <2>2 DEF ReadInv, AddingRead
<1>8. Telling'
  <2>1. ("both" \notin history => /\ errs <= 1 /\ (\A i, j \in Queued("err") : i = j)
                                  /\ (errs = 1 => Queued("err") = {}))'
    <3>1. ~emitted => Queued("err") = {} /\ errs = 0
      BY DEF ReadInv, ReadTypes, Telling
    <3> QED BY <1>4, <1>5, <3>1
  <2>2. (emitted <=> errs > 0 \/ Queued("err") # {})'
    BY <1>4, <1>5
  <2>3. (errs > 0 /\ watched => "unheld" \in history)'
    BY <1>4 DEF ReadInv, Telling
  <2>4. (errs > 0 /\ place[ReadPoller] = "read" => history \cap {"inside", "unheld"} # {})'
    BY <1>4, <1>6 DEF ReadInv, Telling
  <2>5. (late > 0 => history \cap {"inside", "unheld"} # {})'
    BY <1>4 DEF ReadInv, Telling
  <2> QED BY <2>1, <2>2, <2>3, <2>4, <2>5 DEF Telling
<1>9. Reporting'
  BY <1>4 DEF Reporting
<1> QED BY <1>3, <1>7, <1>8, <1>9 DEF ReadInv

LEMMA ReadOpenStep ==
    ASSUME ReadInv, NEW t \in Callers, t # ReadPoller, Read!FromSock(t) PROVE ReadInv'
<1> USE DEF Read!FromSock, Read!kernelV, Read!epollV, Read!Goto, Read!Note, Read!Called, Read!Readable
<1> DEFINE job == [do |-> "add", read |-> TRUE]
<1>1. job \in Tasks /\ jobs \in Seq(Tasks) /\ jobs' = Append(jobs, job)
  BY DEF ReadInv, ReadTypes, Tasks, Callers, Read!ReadThreads
<1>2. /\ jobs' \in Seq(Tasks) /\ Len(jobs) \in Nat
      /\ \A what : Queued(what)' = IF job.do = what THEN Queued(what) \cup {Len(jobs) + 1}
                                   ELSE Queued(what)
      /\ \A what : Queued(what) \subseteq 1..Len(jobs)
  BY <1>1, QueuedAppend
<1>3. ReadTypes'
  BY <1>2 DEF ReadInv, ReadTypes, Callers, Read!ReadThreads, ReadPlaces
<1>4. Reporting'
  BY <1>2 DEF ReadInv, ReadTypes, Reporting, Ordinary, Callers, Read!ReadThreads
<1>5. AddingRead'
  BY <1>2 DEF ReadInv, ReadTypes, AddingRead, Callers, Read!ReadThreads
<1>6. Telling'
  BY <1>2 DEF ReadInv, ReadTypes, AddingRead, Telling, Callers, Read!ReadThreads
<1> QED BY <1>3, <1>4, <1>5, <1>6 DEF ReadInv
LEMMA ReadOpenHereStep ==
    ASSUME ReadInv, Read!FromSock(ReadPoller) PROVE ReadInv'
<1>1. /\ "opened" \notin history /\ history' = history \cup {"opened"}
      /\ place[ReadPoller] = "idle"
      /\ watched' = TRUE /\ reads' = TRUE /\ ready' = Read!Readable /\ holder' = TRUE
      /\ UNCHANGED <<sort, once, inbox, fin, arrived, recving, emitted, place, flags, jobs, got,
                     errs, late, calls>>
  BY DEF Read!FromSock, Read!Note, Read!AddEvent, Read!kernelV
<1>2. \A what : Queued(what)' = Queued(what)
  BY <1>1, QueuedSame
<1>3. ReadTypes'
  BY <1>1 DEF ReadInv, ReadTypes, Read!Readable
<1>4. Reporting'
  <2>1. Ordinary' => Ordinary
    BY <1>1 DEF Ordinary
  <2> QED BY <1>1, <1>2, <2>1 DEF ReadInv, Reporting, Read!Readable
<1>5. Queued("add") = {} /\ Queued("err") = {} /\ errs = 0 /\ ~emitted
  BY <1>1 DEF ReadInv, AddingRead
<1>6. AddingRead'
  BY <1>1, <1>2, <1>5 DEF AddingRead
<1>7. Telling'
  BY <1>1, <1>2, <1>5 DEF ReadInv, Telling
<1> QED BY <1>3, <1>4, <1>6, <1>7 DEF ReadInv

LEMMA ReadTaskStep ==
    ASSUME ReadInv, Read!RunTask PROVE ReadInv'
<1>1. /\ place[ReadPoller] = "idle" /\ jobs # <<>> /\ jobs' = Tail(jobs) /\ jobs \in Seq(Tasks)
      /\ UNCHANGED <<sort, once, inbox, fin, arrived, holder, emitted, place, flags, got, late,
                     calls>>
  BY DEF Read!RunTask, Read!kernelV, ReadInv, ReadTypes
<1>2. /\ jobs' \in Seq(Tasks) /\ Head(jobs) \in Tasks /\ 1 \in Queued(Head(jobs).do)
      /\ \A what : \A i : i \in Queued(what)' <=> i \in Nat /\ i > 0 /\ i + 1 \in Queued(what)
      /\ \A what : Queued(what) \subseteq Nat \ {0}
      /\ \A what : 1 \in Queued(what) => what = Head(jobs).do
  BY <1>1, QueuedTail
<1>3. \A what : (\A i \in Queued(what) : i = 1) => Queued(what)' = {}
  BY <1>2
<1>7. \A what : what # Head(jobs).do => (Queued(what)' # {} <=> Queued(what) # {})
  <2>1. \A what : Queued(what)' # {} => Queued(what) # {}
    BY <1>2
  <2>2. ASSUME NEW what, what # Head(jobs).do, NEW i \in Queued(what) PROVE i - 1 \in Queued(what)'
    <3>1. i \in Nat /\ i > 0 /\ i # 1
      BY <1>2, <2>2
    <3>2. i - 1 \in Nat /\ i - 1 > 0 /\ (i - 1) + 1 = i
      BY <3>1
    <3> QED BY <1>2, <3>2
  <2> QED BY <2>1, <2>2
<1>4. CASE Head(jobs).do = "add"
  <2>1. /\ watched' = TRUE /\ reads' = TRUE /\ ready' = Read!Readable
        /\ UNCHANGED <<recving, errs, history>>
    BY <1>4 DEF Read!RunTask, Read!AddEvent
  <2>2. /\ Queued("add")' = {} /\ "opened" \in history /\ errs = 0
    BY <1>2, <1>3, <1>4 DEF ReadInv, AddingRead
  <2>3. ReadTypes'
    BY <1>1, <1>2, <2>1 DEF ReadInv, ReadTypes, Read!Readable
  <2>4. Queued("modify") = {} => Queued("modify")' = {}
    BY <1>2
  <2>5. Reporting'
    BY <1>1, <2>1, <2>4 DEF ReadInv, Reporting, Ordinary, Read!Readable
  <2>6. AddingRead'
    BY <1>1, <2>1, <2>2 DEF AddingRead
  <2>7. Queued("err")' # {} <=> Queued("err") # {}
    BY <1>7, <1>4
  <2>8. (\A i, j \in Queued("err") : i = j) => (\A i, j \in Queued("err") : i = j)'
    BY <1>2
  <2>9. Telling'
    BY <1>1, <2>1, <2>2, <2>7, <2>8 DEF ReadInv, Telling
  <2> QED BY <2>3, <2>5, <2>6, <2>9 DEF ReadInv
<1>5. CASE Head(jobs).do = "modify"
  <2>1. /\ watched' = watched /\ reads' \in BOOLEAN /\ ready' \in BOOLEAN
        /\ UNCHANGED <<recving, errs, history>>
    BY <1>2, <1>5 DEF Read!RunTask, Read!Modify, ReadInv, ReadTypes, Tasks
  <2>2. ReadTypes'
    BY <1>1, <1>2, <2>1 DEF ReadInv, ReadTypes
  <2>3. Reporting'
    BY <1>1, <1>2, <1>5, <2>1 DEF ReadInv, Reporting, Ordinary
  <2>4. \A what \in {"add", "err"} : Queued(what)' # {} <=> Queued(what) # {}
    BY <1>7, <1>5
  <2>5. \A what \in {"add", "err"} : (\A i, j \in Queued(what) : i = j)
                                   => (\A i, j \in Queued(what) : i = j)'
    BY <1>2
  <2>6. (\A i \in Queued("add"), j \in Queued("err") : i < j)'
    BY <1>2 DEF ReadInv, AddingRead
  <2>7. AddingRead'
    BY <1>1, <2>1, <2>4, <2>5, <2>6 DEF ReadInv, AddingRead
  <2>8. Telling'
    BY <1>1, <2>1, <2>4, <2>5 DEF ReadInv, Telling
  <2> QED BY <2>2, <2>3, <2>7, <2>8 DEF ReadInv
<1>6. CASE Head(jobs).do = "err"
  <2>1. Read!Closed({})
    BY <1>6 DEF Read!RunTask
  <2>2. errs' = errs + 1 /\ recving' = TRUE /\ errs \in Nat
    BY <2>1 DEF Read!Closed, ReadInv, ReadTypes
  <2>3. /\ watched' \in BOOLEAN /\ reads' \in BOOLEAN /\ ready' \in BOOLEAN
        /\ history \subseteq history' /\ {"opened", "both"} \cap history' \subseteq history
        /\ watched' => "unheld" \in history'
    <3>1. CASE holder
      BY <2>1, <3>1 DEF Read!Closed, Read!Note
    <3>2. CASE ~holder
      BY <2>1, <3>2 DEF Read!Closed, Read!Note, Read!epollV, ReadInv, ReadTypes
    <3> QED BY <3>1, <3>2
  <2>4. emitted /\ Queued("add") = {}
    BY <1>2, <1>6 DEF ReadInv, AddingRead, Telling
  <2>5. Queued("add")' = {}
    BY <1>2, <2>4
  <2>6. ReadTypes'
    BY <1>1, <1>2, <2>2, <2>3 DEF ReadInv, ReadTypes
  <2>7. Reporting'
    BY <1>1, <2>4 DEF Reporting
  <2>8. "opened" \in history'
    BY <1>2, <1>6, <2>3 DEF ReadInv, AddingRead
  <2>9. AddingRead'
    BY <1>1, <2>5, <2>8 DEF AddingRead
  <2>10. "both" \notin history' => errs = 0 /\ Queued("err")' = {}
    BY <1>2, <1>3, <1>6, <2>2, <2>3 DEF ReadInv, Telling
  <2>11. (late > 0 => history \cap {"inside", "unheld"} # {})'
    BY <1>1, <2>3 DEF ReadInv, Telling
  <2>12. Telling'
    BY <1>1, <2>2, <2>3, <2>4, <2>10, <2>11 DEF Telling
  <2> QED BY <2>6, <2>7, <2>9, <2>12 DEF ReadInv
<1> QED BY <1>2, <1>4, <1>5, <1>6 DEF Tasks

LEMMA ReadStep == ReadInv /\ Read!Next => ReadInv'
<1> SUFFICES ASSUME ReadInv, Read!Next PROVE ReadInv'
  OBVIOUS
<1>1. ASSUME NEW t \in Callers, Read!FromSock(t) PROVE ReadInv'
  BY <1>1, ReadOpenStep, ReadOpenHereStep
<1>2. ASSUME NEW t \in Callers, Read!WriteAbleEvent(t) PROVE ReadInv'
  BY <1>2, ReadWriteAbleStep
<1>3. ASSUME NEW t \in Callers, NEW b \in BOOLEAN, Read!EnableRecv(t, b) PROVE ReadInv'
  BY <1>3, ReadEnableRecvStep
<1>4. ASSUME NEW t \in ReadCallers,
             Read!SetSock(t) \/ Read!ComputeFlags(t) \/ Read!ModifyLater(t) \/ Read!Emit(t)
               \/ Read!EmitSet(t)
      PROVE ReadInv'
  BY <1>4, ReadSetSockStep, ReadComputeStep, ReadModifyLaterStep, ReadEmitStep, ReadEmitSetStep
<1>5. CASE Read!RunTask \/ Read!ReadEvent \/ Read!OnReadEnds \/ Read!OnReadEmpty \/ Read!OnRead
  BY <1>5, ReadTaskStep, ReadEventStep, ReadEndsStep, ReadEmptyStep, ReadPacketStep
<1>6. CASE Read!Arrive \/ Read!Finish
  BY <1>6, ReadArriveStep, ReadFinishStep
<1> QED BY <1>1, <1>2, <1>3, <1>4, <1>5, <1>6 DEF Read!Next, Callers

LEMMA ReadInvRight == ReadInv => Read!ReadRight
<1> SUFFICES ASSUME ReadInv PROVE Read!ReadRight
  OBVIOUS
<1>1. Read!Rests => (\A what : Queued(what) = {}) /\ place[ReadPoller] = "idle"
  BY DEF Read!Rests, Queued, Read!ReadThreads
<1>2. Read!NotForgotten
  BY <1>1 DEF ReadInv, Reporting, Ordinary, Read!NotForgotten
<1>3. Read!ErrorOnce
  <2>1. errs > 1 => "both" \in history
    BY DEF ReadInv, ReadTypes, Telling
  <2>2. Read!Rests /\ emitted => errs > 0 /\ (watched => "unheld" \in history)
    BY <1>1 DEF ReadInv, Telling
  <2> QED BY <2>1, <2>2 DEF ReadInv, Telling, Read!ErrorOnce
<1> QED BY <1>2, <1>3 DEF Read!ReadRight

-----------------------------------------------------------------------------
(* Host names and descriptors (SockUtil). *)

UtilPlaces == {"idle", "lookup", "ask", "store", "socket", "bind", "last", "ioctl"}
WithFd == {"bind", "last", "ioctl"}

\* What is known of a call at each of its places.
UseRight(c) ==
    /\ c.at \in UtilPlaces
    /\ c.at = "lookup" => c = [at |-> "lookup", kind |-> c.kind, local |-> c.local]
    /\ c.at = "store" => /\ c = [at |-> "store", local |-> c.local, answers |-> c.answers, age |-> c.age]
                         /\ c.age \in 0..MaxLag
    /\ c.at = "socket" => c.age \in 0..(Expire + MaxLag)
    /\ c.at = "last" /\ c.to = "any" => c.local.any \/ c.local.v # c.fam

\* An item is looked up again when it is old; its answers are older only by what the
\* lookup took.
CacheRight == cache # Util!NoItem =>
    /\ cache = [answers |-> cache.answers, age |-> cache.age, item |-> cache.item]
    /\ cache.age \in Nat /\ cache.item \in Nat
    /\ cache.age <= cache.item + MaxLag /\ cache.age <= Expire + MaxLag + 1

\* The descriptors of the calls.
Uses(t) == use[t].at \in WithFd
UtilFds == /\ IsFiniteSet(files) /\ given \subseteq files
           /\ \A t \in UtilThreads : Uses(t) => use[t].fd \in files \ given
           /\ \A t, u \in UtilThreads : Uses(t) /\ Uses(u) /\ use[t].fd = use[u].fd => t = u
           /\ \A fd \in files \ given : \E t \in UtilThreads : Uses(t) /\ use[t].fd = fd

UtilInv == /\ use = [t \in UtilThreads |-> use[t]]
           /\ \A t \in UtilThreads : UseRight(use[t])
           /\ CacheRight /\ UtilFds

LEMMA UtilStart == Util!Init => UtilInv
<1> SUFFICES ASSUME Util!Init PROVE UtilInv
  OBVIOUS
<1>1. /\ cache = Util!NoItem /\ files = {} /\ given = {}
      /\ use = [t \in UtilThreads |-> [at |-> "idle"]]
  BY DEF Util!Init, Util!Idle
<1>2. IsFiniteSet(files)
  BY <1>1, FS_EmptySet
<1>3. \A t \in UtilThreads : UseRight(use[t]) /\ ~Uses(t)
  BY <1>1 DEF UseRight, Uses, UtilPlaces, WithFd
<1> QED BY <1>1, <1>2, <1>3 DEF UtilInv, CacheRight, UtilFds

\* A call goes on.
LEMMA GoStep ==
    ASSUME UtilInv, NEW t \in UtilThreads, NEW record, Util!Go(t, record)
    PROVE  /\ use' = [u \in UtilThreads |-> use'[u]] /\ use'[t] = record
           /\ \A u \in UtilThreads \ {t} : use'[u] = use[u]
BY DEF UtilInv, Util!Go

LEMMA UseStep ==
    ASSUME UtilInv, NEW t \in UtilThreads, NEW record, Util!Go(t, record), UseRight(record)
    PROVE  use' = [u \in UtilThreads |-> use'[u]] /\ \A u \in UtilThreads : UseRight(use'[u])
BY GoStep DEF UtilInv

\* A step that touches no descriptor.
LEMMA FdsSame ==
    ASSUME UtilInv, NEW t \in UtilThreads, NEW record, Util!Go(t, record),
           UNCHANGED <<files, given>>, ~Uses(t), record.at \notin WithFd
    PROVE  UtilFds'
<1>1. \A u \in UtilThreads : Uses(u)' <=> Uses(u)
  BY GoStep DEF Uses
<1>2. \A u \in UtilThreads : Uses(u) => use'[u] = use[u]
  BY GoStep
<1> QED BY <1>1, <1>2 DEF UtilInv, UtilFds

\* A call goes on with the descriptor it has.
LEMMA FdsKept ==
    ASSUME UtilInv, NEW t \in UtilThreads, NEW record, Util!Go(t, record),
           UNCHANGED <<files, given>>, Uses(t), record.at \in WithFd, record.fd = use[t].fd
    PROVE  UtilFds'
<1>1. \A u \in UtilThreads : Uses(u)' <=> Uses(u)
  BY GoStep DEF Uses
<1>2. \A u \in UtilThreads : use'[u] = use[u] \/ u = t
  BY GoStep
<1>3. \A u \in UtilThreads : Uses(u) => use'[u].fd = use[u].fd
  BY <1>2, GoStep
<1> QED BY <1>1, <1>3 DEF UtilInv, UtilFds

\* The call ends: its descriptor is closed, or given to the user.
LEMMA FdsEnd ==
    ASSUME UtilInv, NEW t \in UtilThreads, Util!Go(t, Util!Idle), Uses(t),
           \/ files' = files \ {use[t].fd} /\ given' = given
           \/ files' = files /\ given' = given \cup {use[t].fd}
    PROVE  UtilFds'
<1>1. ~Uses(t)' /\ \A u \in UtilThreads \ {t} : (Uses(u)' <=> Uses(u)) /\ use'[u] = use[u]
  BY GoStep DEF Uses, Util!Idle, WithFd
<1>2. IsFiniteSet(files')
  BY FS_RemoveElement DEF UtilInv, UtilFds
<1>3. use[t].fd \in files \ given
  BY DEF UtilInv, UtilFds
<1>4. given' \subseteq files'
  BY <1>3 DEF UtilInv, UtilFds
<1>5. \A u \in UtilThreads \ {t} : Uses(u) => use[u].fd \in files \ given /\ use[u].fd # use[t].fd
  BY DEF UtilInv, UtilFds
<1>6. ASSUME NEW u \in UtilThreads, Uses(u)' PROVE use'[u].fd \in files' \ given'
  BY <1>1, <1>5, <1>6
<1>7. ASSUME NEW u \in UtilThreads, NEW v \in UtilThreads, Uses(u)', Uses(v)', use'[u].fd = use'[v].fd
      PROVE  u = v
  BY <1>1, <1>7 DEF UtilInv, UtilFds
<1>8. ASSUME NEW fd \in files' \ given' PROVE \E u \in UtilThreads : Uses(u)' /\ use'[u].fd = fd
  <2>1. fd \in files \ given /\ fd # use[t].fd
    BY <1>3, <1>8
  <2>2. PICK u \in UtilThreads : Uses(u) /\ use[u].fd = fd
    BY <2>1 DEF UtilInv, UtilFds
  <2> QED BY <1>1, <2>1, <2>2
<1> QED BY <1>2, <1>4, <1>6, <1>7, <1>8 DEF UtilFds

LEMMA GetCacheStep ==
    ASSUME UtilInv, NEW t \in UtilThreads, Util!GetCacheDomainIP(t)
    PROVE  UtilInv'
<1>1. use[t].at = "lookup" /\ ~Uses(t) /\ UNCHANGED <<files, given>>
  BY DEF Util!GetCacheDomainIP, Uses, WithFd
<1>2. CacheRight'
  BY DEF Util!GetCacheDomainIP, UtilInv, CacheRight
<1>3. \E record : Util!Go(t, record) /\ UseRight(record) /\ record.at \notin WithFd
  <2>1. CASE Util!Goto(t, "ask")
    <3> DEFINE record == [use[t] EXCEPT !.at = "ask"]
    <3>1. record.at = "ask"
      BY <1>1 DEF UtilInv, UseRight
    <3>2. UseRight(record) /\ record.at \notin WithFd
      BY <3>1 DEF UseRight, UtilPlaces, WithFd
    <3> QED BY <2>1, <3>2 DEF Util!Goto
  <2>2. CASE cache # Util!NoItem /\ ~(cache.item > Expire) /\ Util!Found(t, cache.answers, cache.age)
    <3>1. cache.age \in 0..(Expire + MaxLag)
      BY <2>2, UtilAssumption DEF UtilInv, CacheRight
    <3> DEFINE record == [at |-> "socket", kind |-> "connect", local |-> use[t].local, age |-> cache.age,
                          fam |-> Util!Preferred(cache.answers)]
    <3>2. record.at = "socket" /\ record.age = cache.age
      OBVIOUS
    <3>3. Util!Go(t, record)
      BY <2>2 DEF Util!Found
    <3> HIDE DEF record
    <3>4. UseRight(record) /\ record.at \notin WithFd
      BY <3>1, <3>2 DEF UseRight, UtilPlaces, WithFd
    <3> QED BY <3>3, <3>4
  <2> QED BY <2>1, <2>2 DEF Util!GetCacheDomainIP
<1> QED BY <1>1, <1>2, <1>3, UseStep, FdsSame DEF UtilInv

LEMMA BeginStep ==
    ASSUME UtilInv, NEW t \in UtilThreads, NEW kind, NEW local, Util!Begin(t, kind, local)
    PROVE  UtilInv'
<1>1. use[t].at = "idle" /\ ~Uses(t) /\ UNCHANGED <<files, given, cache>>
  BY DEF Util!Begin, Util!Idle, Uses, WithFd
<1>2. \E record : Util!Go(t, record) /\ UseRight(record) /\ record.at \notin WithFd
  <2> DEFINE r1 == [at |-> "lookup", kind |-> kind, local |-> local]
             r2 == [at |-> "socket", kind |-> kind, local |-> local, age |-> 0,
                    fam |-> IF kind = "connect" THEN 4 ELSE Util!LocalFamily(local)]
  <2>1. UseRight(r1) /\ r1.at \notin WithFd
    BY DEF UseRight, UtilPlaces, WithFd
  <2>2. r2.at = "socket" /\ r2.age = 0
    OBVIOUS
  <2>3. Util!Go(t, r1) \/ Util!Go(t, r2)
    BY DEF Util!Begin
  <2> HIDE DEF r1, r2
  <2>4. UseRight(r2) /\ r2.at \notin WithFd
    BY <2>2, UtilAssumption DEF UseRight, UtilPlaces, WithFd
  <2> QED BY <2>1, <2>3, <2>4
<1>3. CacheRight'
  BY <1>1 DEF UtilInv, CacheRight
<1> QED BY <1>1, <1>2, <1>3, UseStep, FdsSame DEF UtilInv

LEMMA IdleRight == UseRight(Util!Idle) /\ Util!Idle.at \notin WithFd
BY DEF UseRight, UtilPlaces, WithFd, Util!Idle

LEMMA GetSystemStep ==
    ASSUME UtilInv, NEW t \in UtilThreads, Util!GetSystemDomainIP(t)
    PROVE  UtilInv'
<1>1. use[t].at = "ask" /\ ~Uses(t) /\ UNCHANGED <<files, given, cache>>
  BY DEF Util!GetSystemDomainIP, Uses, WithFd
<1>2. \E record : Util!Go(t, record) /\ UseRight(record) /\ record.at \notin WithFd
  <2>1. CASE Util!Go(t, Util!Idle)
    BY <2>1, IdleRight
  <2>2. ASSUME NEW ips, 
               Util!Go(t, [at |-> "store", local |-> use[t].local, answers |-> ips, age |-> 0])
        PROVE  \E record : Util!Go(t, record) /\ UseRight(record) /\ record.at \notin WithFd
    <3> DEFINE r == [at |-> "store", local |-> use[t].local, answers |-> ips, age |-> 0]
    <3>1. UseRight(r) /\ r.at \notin WithFd
      BY UtilAssumption DEF UseRight, UtilPlaces, WithFd
    <3> QED BY <2>2, <3>1
  <2> QED BY <2>1, <2>2 DEF Util!GetSystemDomainIP
<1>3. CacheRight'
  BY <1>1 DEF UtilInv, CacheRight
<1> QED BY <1>1, <1>2, <1>3, UseStep, FdsSame DEF UtilInv

LEMMA SetCacheStep ==
    ASSUME UtilInv, NEW t \in UtilThreads, Util!SetCacheDomainIP(t)
    PROVE  UtilInv'
<1>1. /\ use[t].at = "store" /\ ~Uses(t) /\ UNCHANGED <<files, given>>
      /\ cache' = [answers |-> use[t].answers, age |-> use[t].age, item |-> 0]
      /\ Util!Found(t, use[t].answers, use[t].age)
  BY DEF Util!SetCacheDomainIP, Uses, WithFd
<1>2. use[t].age \in 0..MaxLag
  BY <1>1 DEF UtilInv, UseRight
<1>3. CacheRight'
  BY <1>1, <1>2, UtilAssumption DEF CacheRight
<1>4. \E record : Util!Go(t, record) /\ UseRight(record) /\ record.at \notin WithFd
  <2> DEFINE record == [at |-> "socket", kind |-> "connect", local |-> use[t].local, age |-> use[t].age,
                        fam |-> Util!Preferred(use[t].answers)]
  <2>1. record.at = "socket" /\ record.age = use[t].age /\ Util!Go(t, record)
    BY <1>1 DEF Util!Found
  <2> HIDE DEF record
  <2>2. UseRight(record) /\ record.at \notin WithFd
    BY <1>2, <2>1, UtilAssumption DEF UseRight, UtilPlaces, WithFd
  <2> QED BY <2>1, <2>2
<1> QED BY <1>1, <1>3, <1>4, UseStep, FdsSame DEF UtilInv

LEMMA UtilTickStep == UtilInv /\ Util!Tick => UtilInv'
<1> SUFFICES ASSUME UtilInv, Util!Tick PROVE UtilInv'
  OBVIOUS
<1>1. /\ \A t \in UtilThreads : use[t].at = "store" => use[t].age < MaxLag
      /\ UNCHANGED <<files, given>>
      /\ use' = [t \in UtilThreads |->
               IF use[t].at = "store" THEN [use[t] EXCEPT !.age = @ + 1] ELSE use[t]]
  BY DEF Util!Tick
<1>2. \A t \in UtilThreads : use[t].at # "store" => use'[t] = use[t]
  BY <1>1
<1>3. ASSUME NEW t \in UtilThreads, use[t].at = "store"
      PROVE  UseRight(use'[t]) /\ use'[t].at = "store"
  <2>1. use'[t] = [use[t] EXCEPT !.age = @ + 1]
    BY <1>1, <1>3
  <2>2. use[t] = [at |-> "store", local |-> use[t].local, answers |-> use[t].answers, age |-> use[t].age]
        /\ use[t].age \in 0..MaxLag /\ use[t].age < MaxLag
    BY <1>1, <1>3 DEF UtilInv, UseRight
  <2>3. /\ use'[t] = [at |-> "store", local |-> use[t].local, answers |-> use[t].answers,
                      age |-> use[t].age + 1]
    BY <2>1, <2>2
  <2>4. /\ use'[t] = [at |-> "store", local |-> use'[t].local, answers |-> use'[t].answers,
                      age |-> use'[t].age]
        /\ use'[t].age = use[t].age + 1 /\ use'[t].at = "store"
    BY <2>3
  <2>5. use[t].age + 1 \in 0..MaxLag
    BY <2>2, UtilAssumption
  <2> QED BY <2>4, <2>5 DEF UseRight, UtilPlaces
<1>4. \A t \in UtilThreads : UseRight(use'[t])
  BY <1>2, <1>3 DEF UtilInv
<1>5. use' = [t \in UtilThreads |-> use'[t]]
  BY <1>1
<1>6. UtilFds'
  <2>1. \A t \in UtilThreads : Uses(t)' <=> Uses(t)
    BY <1>2, <1>3 DEF Uses, WithFd
  <2>2. \A t \in UtilThreads : Uses(t) => use'[t] = use[t]
    BY <1>2 DEF Uses, WithFd
  <2> QED BY <1>1, <2>1, <2>2 DEF UtilInv, UtilFds
<1>7. CacheRight'
  <2>1. CASE cache = Util!NoItem
    BY <2>1 DEF Util!Tick, CacheRight
  <2>2. CASE cache # Util!NoItem
    <3>1. cache' = [cache EXCEPT !.age = Util!Older(@), !.item = Util!Older(@)]
      BY <2>2 DEF Util!Tick
    <3>2. /\ cache = [answers |-> cache.answers, age |-> cache.age, item |-> cache.item]
          /\ cache.age \in Nat /\ cache.item \in Nat
          /\ cache.age <= cache.item + MaxLag /\ cache.age <= Expire + MaxLag + 1
      BY <2>2 DEF UtilInv, CacheRight
    <3>3. cache' = [answers |-> cache.answers, age |-> Util!Older(cache.age),
                    item |-> Util!Older(cache.item)]
      BY <3>1, <3>2
    <3> DEFINE a == Util!Older(cache.age)
               b == Util!Older(cache.item)
    <3>4. a \in Nat /\ b \in Nat /\ a <= b + MaxLag /\ a <= Expire + MaxLag + 1
      BY <3>2, UtilAssumption DEF Util!Older
    <3> HIDE DEF a, b
    <3> QED BY <3>3, <3>4 DEF CacheRight, a, b
  <2> QED BY <2>1, <2>2
<1> QED BY <1>4, <1>5, <1>6, <1>7 DEF UtilInv

LEMMA CreateFdStep ==
    ASSUME UtilInv, NEW t \in UtilThreads, Util!CreateFd(t)
    PROVE  UtilInv'
<1>1. use[t].at = "socket" /\ ~Uses(t) /\ UNCHANGED <<given, cache>>
  BY DEF Util!CreateFd, Uses, WithFd
<1>2. CacheRight'
  BY <1>1 DEF UtilInv, CacheRight
<1>3. CASE Util!Go(t, Util!Idle) /\ UNCHANGED files
  BY <1>1, <1>2, <1>3, UseStep, IdleRight, FdsSame DEF UtilInv
<1>4. CASE Fds \ files # {} /\ ~(Util!Go(t, Util!Idle) /\ UNCHANGED files)
  <2> DEFINE fd == Util!Lowest(Fds \ files)
             record == [at |-> IF use[t].kind = "mask" THEN "ioctl" ELSE "bind", fd |-> fd,
                        kind |-> use[t].kind, local |-> use[t].local, fam |-> use[t].fam]
  <2>1. fd \in Fds \ files
    <3>1. Fds \ files \subseteq Nat
      BY UtilAssumption
    <3>2. \E m \in Fds \ files : \A n \in Fds \ files : m <= n
      BY <1>4, <3>1, LeastNatural
    <3> QED BY <3>2 DEF Util!Lowest
  <2>2. files' = files \cup {fd} /\ Util!Go(t, record)
    BY <1>4 DEF Util!CreateFd
  <2>3. record.fd = fd /\ record.at \in {"ioctl", "bind"}
    OBVIOUS
  <2> HIDE DEF fd, record
  <2>4. UseRight(record)
    BY <2>3 DEF UseRight, UtilPlaces
  <2>5. /\ use'[t] = record /\ Uses(t)'
        /\ \A u \in UtilThreads \ {t} : (Uses(u)' <=> Uses(u)) /\ use'[u] = use[u]
    BY <2>2, <2>3, GoStep DEF Uses, WithFd
  <2>6. IsFiniteSet(files')
    BY <2>2, FS_AddElement DEF UtilInv, UtilFds
  <2>7. UtilFds'
    BY <1>1, <2>1, <2>2, <2>3, <2>5, <2>6 DEF UtilInv, UtilFds
  <2> QED BY <1>2, <2>2, <2>4, <2>7, UseStep DEF UtilInv
<1> QED BY <1>3, <1>4 DEF Util!CreateFd

\* The steps of a call that has its descriptor.
LEMMA FailsStep ==
    ASSUME UtilInv, NEW t \in UtilThreads, Uses(t), Util!Fails(t), UNCHANGED cache
    PROVE  UtilInv'
<1>1. CacheRight'
  BY DEF UtilInv, CacheRight
<1> QED BY <1>1, UseStep, FdsEnd, IdleRight DEF UtilInv, Util!Fails, Util!Close

LEMMA BindsStep ==
    ASSUME UtilInv, NEW t \in UtilThreads, Uses(t), Util!Binds(t), UNCHANGED cache
    PROVE  UtilInv'
<1> DEFINE record == [at |-> "last", fd |-> use[t].fd, kind |-> use[t].kind,
                      local |-> use[t].local, fam |-> use[t].fam,
                      to |-> Util!BindSock(use[t].local, use[t].fam)]
<1>1. Util!Go(t, record) /\ UNCHANGED <<files, given>>
  BY DEF Util!Binds
<1>2. /\ record.at = "last" /\ record.fd = use[t].fd /\ record.local = use[t].local
      /\ record.fam = use[t].fam /\ record.to = Util!BindSock(use[t].local, use[t].fam)
  OBVIOUS
<1> HIDE DEF record
<1>3. UseRight(record) /\ record.at \in WithFd
  BY <1>2 DEF UseRight, UtilPlaces, WithFd, Util!BindSock
<1>4. CacheRight'
  BY DEF UtilInv, CacheRight
<1> QED BY <1>1, <1>2, <1>3, <1>4, UseStep, FdsKept DEF UtilInv

LEMMA UtilGivenStep ==
    ASSUME UtilInv, NEW t \in UtilThreads, Uses(t), given' = given \cup {use[t].fd},
           Util!Go(t, Util!Idle), UNCHANGED <<files, cache>>
    PROVE  UtilInv'
<1>1. CacheRight'
  BY DEF UtilInv, CacheRight
<1> QED BY <1>1, UseStep, FdsEnd, IdleRight DEF UtilInv

LEMMA UserClosesStep ==
    ASSUME UtilInv, NEW fd, Util!UserCloses(fd)
    PROVE  UtilInv'
<1>1. /\ fd \in given /\ given' = given \ {fd} /\ files' = files \ {fd}
      /\ UNCHANGED <<cache, use>>
  BY DEF Util!UserCloses, Util!Close
<1>2. IsFiniteSet(files')
  BY <1>1, FS_RemoveElement DEF UtilInv, UtilFds
<1>3. files' \ given' = files \ given /\ given' \subseteq files'
  BY <1>1 DEF UtilInv, UtilFds
<1>4. UtilFds'
  BY <1>1, <1>2, <1>3 DEF UtilInv, UtilFds, Uses
<1> QED BY <1>1, <1>4 DEF UtilInv, CacheRight

LEMMA UtilStep == UtilInv /\ [Util!Next]_(Util!utilVars) => UtilInv'
<1> SUFFICES ASSUME UtilInv, [Util!Next]_(Util!utilVars) PROVE UtilInv'
  OBVIOUS
<1>1. ASSUME NEW t \in UtilThreads, Util!Bind(t) PROVE UtilInv'
  BY <1>1, FailsStep, BindsStep DEF Util!Bind, Uses, WithFd
<1>2. ASSUME NEW t \in UtilThreads, Util!Last(t) PROVE UtilInv'
  BY <1>2, FailsStep, UtilGivenStep DEF Util!Last, Uses, WithFd
<1>3. ASSUME NEW t \in UtilThreads, Util!Ioctl(t) PROVE UtilInv'
  BY <1>3, FailsStep DEF Util!Ioctl, Uses, WithFd
<1>4. CASE UNCHANGED Util!utilVars
  BY <1>4 DEF Util!utilVars, UtilInv, CacheRight, UtilFds, Uses
<1> QED BY <1>1, <1>2, <1>3, <1>4, BeginStep, GetCacheStep, GetSystemStep, SetCacheStep, CreateFdStep,
           UserClosesStep, UtilTickStep DEF Util!Next

LEMMA UtilCardinality == \A S : Util!Cardinality(S) = Cardinality(S)
BY DEF Util!Cardinality, Cardinality

LEMMA UtilInvRight == UtilInv => Util!UtilRight
<1> SUFFICES ASSUME UtilInv PROVE Util!UtilRight
  OBVIOUS
<1>1. Util!Fresh
  BY UtilAssumption DEF UtilInv, UseRight, Util!Fresh
<1>2. Util!Bound
  BY DEF UtilInv, UseRight, Util!Bound, Util!Working
<1>3. Util!NoLeak
  <2> DEFINE W == Util!Working
             F == {use[t].fd : t \in W}
             f == [t \in W |-> use[t].fd]
  <2>1. W = {t \in UtilThreads : Uses(t)}
    BY DEF Util!Working, Uses, WithFd
  <2>2. files = given \cup F
    BY <2>1 DEF UtilInv, UtilFds
  <2>3. given \cap F = {}
    BY <2>1 DEF UtilInv, UtilFds
  <2>4. IsFiniteSet(W) /\ IsFiniteSet(given) /\ IsFiniteSet(F)
    BY <2>1, <2>2, UtilAssumption, FS_Subset DEF UtilInv, UtilFds
  <2>5. f \in Bijection(W, F)
    <3>1. f \in [W -> F] /\ \A y \in F : \E t \in W : f[t] = y
      OBVIOUS
    <3>2. \A t, u \in W : f[t] = f[u] => t = u
      BY <2>1 DEF UtilInv, UtilFds
    <3> QED BY <3>1, <3>2 DEF Bijection, Injection, Surjection, IsInjective
  <2>6. Cardinality(F) = Cardinality(W)
    BY <2>4, <2>5, FS_Bijection DEF ExistsBijection
  <2> HIDE DEF W, F, f
  <2>7. Cardinality(given \cup F) = Cardinality(given) + Cardinality(F)
    <3>1. Cardinality(given) \in Nat /\ Cardinality(F) \in Nat
      BY <2>4, FS_CardinalityType
    <3> QED BY <2>3, <2>4, <3>1, FS_Union, FS_EmptySet
  <2> QED BY <2>2, <2>6, <2>7, UtilCardinality DEF Util!NoLeak, W, F
<1> QED BY <1>1, <1>2, <1>3 DEF Util!UtilRight

-----------------------------------------------------------------------------
(* The network adapters (NetAdapters). *)

Adapter == [name : Names, ip : Addresses, mask : Masks]

\* The adapter that has the address that was asked about, or none has it.
Asked == /\ asking = [what |-> "lan", my |-> asking.my, dst |-> asking.dst, name |-> asking.name]
         /\ asking.my \in Addresses /\ asking.dst \in Addresses
         /\ sameAll => /\ adapters \in Adapters!Lists
                       /\ (\E j \in 1..Len(adapters) : adapters[j].ip = asking.my)
                             => \E i \in 1..Len(adapters) : /\ adapters[i].ip = asking.my
                                                            /\ asking.name = adapters[i].name

AdaptersInv ==
    \/ asking = Adapters!Nothing /\ answers = Adapters!Nothing /\ adapters \in Adapters!Lists
    \/ asking # Adapters!Nothing /\ answers = Adapters!Nothing /\ Asked
    \/ asking = Adapters!Nothing /\ answers # Adapters!Nothing /\ Adapters!AdaptersRight

LEMMA ListOf ==
    ASSUME NEW a \in Adapters!Lists
    PROVE  /\ a \in Seq(Adapter) /\ Len(a) \in Nat
           /\ \A i, j \in 1..Len(a) : a[i].name = a[j].name => i = j
<1>1. PICK n \in 0..MaxAdapters : a \in [1..n -> Adapter]
  BY DEF Adapters!Lists, Adapter
<1>2. n \in Nat
  BY <1>1
<1>3. a \in Seq(Adapter) /\ Len(a) = n /\ DOMAIN a = 1..n
  BY <1>1, <1>2
<1>4. \A i, j \in DOMAIN a : a[i].name = a[j].name => i = j
  BY DEF Adapters!Lists
<1>5. \A i, j \in 1..Len(a) : a[i].name = a[j].name => i = j
  BY <1>3, <1>4
<1> QED BY <1>2, <1>3, <1>5

\* Where a search finds something.
Least(I) == CHOOSE i \in I : \A j \in I : i <= j
Greatest(I) == CHOOSE i \in I : \A j \in I : j <= i

LEMMA LeastPlace ==
    ASSUME NEW k \in Nat, NEW I, I \subseteq 1..k, I # {}
    PROVE  Least(I) \in I /\ Greatest(I) \in I
<1>1. I \in SUBSET Nat /\ I \subseteq 0..k
  OBVIOUS
<1>2. \E m \in I : \A n \in I : m <= n
  BY <1>1, LeastNatural
<1>3. \E m \in I : \A n \in I : n <= m
  BY <1>1, GreatestNatural
<1>4. Least(I) \in I
  BY <1>2 DEF Least
<1>5. Greatest(I) \in I
  BY <1>3 DEF Greatest
<1> QED BY <1>4, <1>5

\* check_ip over a list of adapters
LEMMA LocalIpRight ==
    ASSUME NEW a \in Seq(Adapter)
    PROVE  LET C == {i \in 1..Len(a) : Adapters!Counts(a[i])} IN
           /\ C = {} => Adapters!LocalIp(a) = Loopback
           /\ C # {} => \E i \in C : Adapters!LocalIp(a) = a[i].ip
           /\ (\E i \in C : a[i].ip \in Private) => Adapters!LocalIp(a) \in Private
<1> DEFINE C == {i \in 1..Len(a) : Adapters!Counts(a[i])}
           Q == {i \in 1..Len(a) : Adapters!Counts(a[i]) /\ a[i].ip \in Private}
           private == IF Q # {} THEN Least(Q) ELSE 0
           last == IF C # {} THEN Greatest(C) ELSE 0
<1>1. Adapters!LocalIp(a) = CASE private > 0 -> a[private].ip
                              [] private = 0 /\ last > 0 -> a[last].ip
                              [] OTHER -> Loopback
  <2>1. Adapters!First(a, LAMBDA x : Adapters!Counts(x) /\ x.ip \in Private) = private
    BY DEF Adapters!First, Adapters!Where, Least
  <2>2. Adapters!Final(a, Adapters!Counts) = last
    BY DEF Adapters!Final, Adapters!Where, Greatest
  <2> HIDE DEF private, last
  <2> QED BY <2>1, <2>2 DEF Adapters!LocalIp
<1>2. Len(a) \in Nat /\ C \subseteq 1..Len(a) /\ Q \subseteq C
  OBVIOUS
<1>3. \A i \in Q : a[i].ip \in Private
  OBVIOUS
<1>4. \A i \in C : a[i].ip \in Private => i \in Q
  OBVIOUS
<1> HIDE DEF C, Q
<1>5. Q # {} => private \in Q /\ private > 0
  <2>1. Q \subseteq 1..Len(a)
    BY <1>2
  <2>2. Q # {} => Least(Q) \in Q
    BY <1>2, <2>1, LeastPlace
  <2>3. Q # {} => private = Least(Q)
    OBVIOUS
  <2>4. \A i \in Q : i > 0
    BY <1>2, <2>1
  <2> HIDE DEF private
  <2> QED BY <2>2, <2>3, <2>4
<1>6. C # {} => last \in C /\ last > 0
  <2>1. C \subseteq 1..Len(a)
    BY <1>2
  <2>2. C # {} => Greatest(C) \in C
    BY <1>2, <2>1, LeastPlace
  <2>3. C # {} => last = Greatest(C)
    OBVIOUS
  <2>4. \A i \in C : i > 0
    BY <1>2, <2>1
  <2> HIDE DEF last
  <2> QED BY <2>2, <2>3, <2>4
<1>7. Q = {} => private = 0
  OBVIOUS
<1>8. C = {} => last = 0
  OBVIOUS
<1> HIDE DEF private, last
<1>9. C = {} => Adapters!LocalIp(a) = Loopback
  BY <1>1, <1>2, <1>7, <1>8
<1>10. C # {} => \E i \in C : Adapters!LocalIp(a) = a[i].ip
  BY <1>1, <1>2, <1>5, <1>6, <1>7
<1>11. (\E i \in C : a[i].ip \in Private) => Adapters!LocalIp(a) \in Private
  BY <1>1, <1>3, <1>4, <1>5
<1> QED BY <1>9, <1>10, <1>11 DEF C

LEMMA AdaptersStart == Adapters!Init => AdaptersInv
BY DEF Adapters!Init, AdaptersInv

LEMMA AdaptersAnswer ==
    ASSUME NEW a, Adapters!Answer(a), a # Adapters!Nothing, Adapters!AdaptersRight'
    PROVE  AdaptersInv'
BY DEF Adapters!Answer, AdaptersInv, Adapters!Nothing

LEMMA AdaptersStep == AdaptersInv /\ Adapters!Next => AdaptersInv'
<1> SUFFICES ASSUME AdaptersInv, Adapters!Next PROVE AdaptersInv'
  OBVIOUS
<1>0. ASSUME Adapters!Idle
      PROVE  /\ asking = Adapters!Nothing /\ answers = Adapters!Nothing
             /\ adapters \in Adapters!Lists /\ adapters \in Seq(Adapter) /\ Len(adapters) \in Nat
             /\ \A seen \in Adapters!Seen : seen \in Seq(Adapter)
  BY <1>0, ListOf DEF Adapters!Idle, AdaptersInv, Adapters!Seen
<1>1. CASE Adapters!GetLocalIp
  <2>1. PICK seen \in Adapters!Seen :
           Adapters!Answer([what |-> "local", ip |-> Adapters!LocalIp(seen), all |-> seen = adapters])
    BY <1>1 DEF Adapters!GetLocalIp
  <2>2. Adapters!Idle
    BY <1>1 DEF Adapters!GetLocalIp
  <2> DEFINE a == [what |-> "local", ip |-> Adapters!LocalIp(seen), all |-> seen = adapters]
             C(s) == {i \in 1..Len(s) : Adapters!Counts(s[i])}
  <2>3. a.what = "local" /\ a.ip = Adapters!LocalIp(seen) /\ a.all = (seen = adapters)
        /\ a # Adapters!Nothing /\ Adapters!Answer(a)
    BY <2>1 DEF Adapters!Nothing
  <2> HIDE DEF a
  <2>4. answers' = a /\ adapters' = adapters
    BY <2>3 DEF Adapters!Answer
  <2>5. Adapters!OfDevice' = Adapters!OfDevice /\ Adapters!OfDevice = {adapters[i].ip : i \in C(adapters)}
    BY <2>4 DEF Adapters!OfDevice, Adapters!Counts
  <2>6. seen = adapters \/ seen = <<>>
    BY DEF Adapters!Seen
  <2>7. /\ C(seen) = {} => a.ip = Loopback
        /\ C(seen) # {} => \E i \in C(seen) : a.ip = seen[i].ip
        /\ (\E i \in C(seen) : seen[i].ip \in Private) => a.ip \in Private
    BY <1>0, <2>2, <2>3, LocalIpRight
  <2>8. seen = <<>> => C(seen) = {}
    OBVIOUS
  <2>9. a.ip \in Adapters!OfDevice \cup {Loopback}
    BY <2>5, <2>6, <2>7, <2>8
  <2> HIDE DEF C
  <2>13. a.all => seen = adapters
    BY <2>3
  <2>10. a.all /\ Adapters!OfDevice # {} => a.ip \in Adapters!OfDevice
    <3>1. Adapters!OfDevice # {} => C(adapters) # {}
      BY <2>5
    <3>2. a.all /\ C(adapters) # {} => \E i \in C(adapters) : a.ip = adapters[i].ip
      BY <2>7, <2>13
    <3> QED BY <2>5, <3>1, <3>2
  <2>11. a.all /\ Adapters!OfDevice \cap Private # {} => a.ip \in Private
    <3>1. Adapters!OfDevice \cap Private # {} => \E i \in C(adapters) : adapters[i].ip \in Private
      BY <2>5
    <3> QED BY <2>7, <2>13, <3>1
  <2>12. Adapters!AdaptersRight'
    BY <2>3, <2>4, <2>5, <2>9, <2>10, <2>11 DEF Adapters!AdaptersRight
  <2> QED BY <2>3, <2>12, AdaptersAnswer
<1>2. CASE Adapters!GetInterfaceList
  <2>1. PICK l : Adapters!Answer([what |-> "list", list |-> l])
    BY <1>2 DEF Adapters!GetInterfaceList
  <2>2. answers' = [what |-> "list", list |-> l]
    BY <2>1 DEF Adapters!Answer
  <2>3. Adapters!AdaptersRight'
    BY <2>2 DEF Adapters!AdaptersRight
  <2> QED BY <2>1, <2>3, AdaptersAnswer DEF Adapters!Nothing
<1>3. CASE \E name \in Names : Adapters!GetIfrIp(name)
  <2>1. PICK name, i : Adapters!Answer([what |-> "ip", of |-> name, ips |-> i])
    BY <1>3 DEF Adapters!GetIfrIp
  <2>2. answers' = [what |-> "ip", of |-> name, ips |-> i]
    BY <2>1 DEF Adapters!Answer
  <2>3. Adapters!AdaptersRight'
    BY <2>2 DEF Adapters!AdaptersRight
  <2> QED BY <2>1, <2>3, AdaptersAnswer DEF Adapters!Nothing
<1>4. ASSUME NEW my \in Addresses, NEW dst \in Addresses, Adapters!GetIfrName(my, dst)
      PROVE  AdaptersInv'
  <2>1. Adapters!Idle /\ UNCHANGED <<adapters, answers, changes>>
    BY <1>4 DEF Adapters!GetIfrName
  <2> DEFINE placesOf(seen) == {j \in 1..Len(seen) : seen[j].ip = my}
             i(seen) == IF placesOf(seen) # {} THEN Least(placesOf(seen)) ELSE 0
             name(seen) == IF i(seen) = 0 THEN Default ELSE seen[i(seen)].name
  <2>2. PICK seen \in Adapters!Seen :
           /\ asking' = [what |-> "lan", my |-> my, dst |-> dst, name |-> name(seen)]
           /\ sameAll' = (seen = adapters)
    BY <1>4 DEF Adapters!GetIfrName, Adapters!First, Adapters!Where, Least
  <2>3. (\E j \in 1..Len(adapters) : adapters[j].ip = my)
           => i(adapters) \in placesOf(adapters) /\ i(adapters) # 0
    <3>1. Len(adapters) \in Nat /\ placesOf(adapters) \subseteq 1..Len(adapters)
      BY <1>0, <2>1
    <3> DEFINE I == placesOf(adapters)
    <3> HIDE DEF I
    <3>2. I # {} => Least(I) \in I
      BY <3>1, LeastPlace DEF I
    <3> QED BY <3>1, <3>2 DEF I
  <2>4. sameAll' => ((\E j \in 1..Len(adapters) : adapters[j].ip = my)
                       => \E k \in 1..Len(adapters) : adapters[k].ip = my
                                                        /\ asking'.name = adapters[k].name)
    BY <2>2, <2>3
  <2> DEFINE n == name(seen)
  <2> HIDE DEF n
  <2>5. asking' = [what |-> "lan", my |-> my, dst |-> dst, name |-> n]
    BY <2>2 DEF n
  <2>6. asking' # Adapters!Nothing /\ asking'.my = my /\ asking'.dst = dst /\ asking'.name = n
    BY <2>5 DEF Adapters!Nothing
  <2>7. Asked'
    BY <1>0, <2>1, <2>4, <2>5, <2>6 DEF Asked, Adapters!Lists
  <2> QED BY <1>0, <2>1, <2>6, <2>7 DEF AdaptersInv, Adapters!Nothing
<1>5. CASE Adapters!InSameLan
  <2>1. Asked /\ asking # Adapters!Nothing /\ answers = Adapters!Nothing
    BY <1>5 DEF Adapters!InSameLan, AdaptersInv, Adapters!Nothing
  <2> DEFINE of == {i \in 1..Len(adapters) : adapters[i].name = asking.name}
             sizes == IF of = {} THEN {1} ELSE {1} \cup {adapters[i].mask : i \in of}
  <2>2. PICK size \in sizes :
           Adapters!Answer([what |-> "lan", my |-> asking.my, dst |-> asking.dst,
                            all |-> sameAll /\ (of = {} \/ size # 1),
                            same |-> asking.my \div size = asking.dst \div size])
    BY <1>5 DEF Adapters!InSameLan
  <2> DEFINE a == [what |-> "lan", my |-> asking.my, dst |-> asking.dst,
                   all |-> sameAll /\ (of = {} \/ size # 1),
                   same |-> asking.my \div size = asking.dst \div size]
  <2>3. /\ a.what = "lan" /\ a.my = asking.my /\ a.dst = asking.dst
        /\ a.all = (sameAll /\ (of = {} \/ size # 1))
        /\ a.same = (asking.my \div size = asking.dst \div size)
        /\ a # Adapters!Nothing /\ Adapters!Answer(a)
    BY <2>2 DEF Adapters!Nothing
  <2> HIDE DEF a
  <2>4. answers' = a /\ adapters' = adapters
    BY <2>3 DEF Adapters!Answer
  <2>5. asking.my \in Nat /\ asking.dst \in Nat
    BY <2>1, AdaptersAssumption DEF Asked
  <2>6. size = 1 \/ \E i \in of : size = adapters[i].mask
    BY <2>2
  <2>7. a.same => \/ a.my = a.dst
                  \/ \E i \in 1..Len(adapters) :
                        a.my \div adapters[i].mask = a.dst \div adapters[i].mask
    <3>2. \A n \in Nat : n \div 1 = n
      OBVIOUS
    <3>3. size = 1 => (asking.my \div size = asking.dst \div size => asking.my = asking.dst)
      BY <2>5, <3>2
    <3>1. size = 1 => (a.same => a.my = a.dst)
      BY <2>3, <3>3
    <3> QED BY <2>3, <2>6, <3>1
  <2>8. ASSUME a.all, NEW j \in 1..Len(adapters), adapters[j].ip = a.my,
               \A i \in 1..Len(adapters) : adapters[i].ip = a.my
                  => a.my \div adapters[i].mask = a.dst \div adapters[i].mask
        PROVE  a.same
    <3>1. PICK i \in 1..Len(adapters) : adapters[i].ip = asking.my /\ asking.name = adapters[i].name
      BY <2>1, <2>3, <2>8 DEF Asked
    <3>2. i \in of /\ size # 1
      BY <2>3, <2>8, <3>1
    <3>5. sameAll
      BY <2>3, <2>8
    <3>6. \A k, l \in 1..Len(adapters) : adapters[k].name = adapters[l].name => k = l
      BY <2>1, <3>5, ListOf DEF Asked
    <3>3. \A k \in of : k = i
      BY <3>1, <3>6
    <3>4. size = adapters[i].mask
      BY <2>6, <3>2, <3>3
    <3> QED BY <2>3, <2>8, <3>1, <3>4
  <2>9. Adapters!AdaptersRight'
    BY <2>3, <2>4, <2>7, <2>8 DEF Adapters!AdaptersRight
  <2> QED BY <2>3, <2>9, AdaptersAnswer
<1>6. CASE Adapters!Change
  <2>1. asking # Adapters!Nothing /\ sameAll' = FALSE /\ UNCHANGED <<asking, answers>>
    BY <1>6 DEF Adapters!Change
  <2> QED BY <2>1 DEF AdaptersInv, Asked
<1> QED BY <1>1, <1>2, <1>3, <1>4, <1>5, <1>6 DEF Adapters!Next

LEMMA AdaptersInvRight == AdaptersInv => Adapters!AdaptersRight
<1>1. Adapters!Nothing.what = "none"
  BY DEF Adapters!Nothing
<1> QED BY <1>1 DEF AdaptersInv, Adapters!AdaptersRight

-----------------------------------------------------------------------------
(* The statements of the SQL pool (SqlPool). *)

Queries == [sql : Statements, try : Int]
SqlTypes == /\ queue \in Seq(Queries) /\ failed \in Seq(Queries)
            /\ attempts \in [Statements -> Nat]

\* The statements of a list, each once.
Lists(list, q) == \E i \in 1..Len(list) : list[i].sql = q
Single(list) == \A i, j \in 1..Len(list) : list[i].sql = list[j].sql => i = j

Settled == unasked \cup confirmed \cup abandoned
SqlInv == /\ SqlTypes /\ Single(queue) /\ Single(failed)
          /\ unasked \cap (confirmed \cup abandoned) = {}
          /\ \A q \in Statements : ~(Lists(queue, q) /\ Lists(failed, q))
          /\ \A q \in Statements : q \notin Settled <=> Lists(queue, q) \/ Lists(failed, q)

LEMMA ListsAppend ==
    ASSUME NEW list \in Seq(Queries), NEW e \in Queries
    PROVE  /\ Append(list, e) \in Seq(Queries)
           /\ \A q : Lists(Append(list, e), q) <=> Lists(list, q) \/ q = e.sql
           /\ Single(list) /\ ~Lists(list, e.sql) => Single(Append(list, e))
<1> DEFINE l == Append(list, e)
<1>2. /\ l \in Seq(Queries) /\ Len(list) \in Nat /\ Len(l) = Len(list) + 1
      /\ l[Len(list) + 1] = e /\ \A i \in 1..Len(list) : l[i] = list[i]
  OBVIOUS
<1> HIDE DEF l
<1>3. \A i \in 1..Len(l) : i \in 1..Len(list) \/ i = Len(list) + 1
  BY <1>2
<1>4. \A q : Lists(l, q) <=> Lists(list, q) \/ q = e.sql
  BY <1>2, <1>3 DEF Lists
<1>5. ASSUME Single(list), ~Lists(list, e.sql) PROVE Single(l)
  BY <1>2, <1>3, <1>5 DEF Lists, Single
<1> QED BY <1>2, <1>4, <1>5 DEF l

LEMMA ListsTail ==
    ASSUME NEW list \in Seq(Queries), list # <<>>, Single(list)
    PROVE  /\ Head(list) \in Queries /\ Tail(list) \in Seq(Queries) /\ Single(Tail(list))
           /\ \A q : Lists(Tail(list), q) <=> Lists(list, q) /\ q # Head(list).sql
           /\ Lists(list, Head(list).sql)
<1>1. Len(list) \in Nat /\ Len(list) > 0 /\ Len(Tail(list)) = Len(list) - 1
  OBVIOUS
<1>2. \A i \in 1..Len(Tail(list)) : Tail(list)[i] = list[i + 1]
  OBVIOUS
<1>3. Head(list) \in Queries /\ Tail(list) \in Seq(Queries) /\ Head(list) = list[1]
  OBVIOUS
<1>4. Single(Tail(list))
  BY <1>1, <1>2 DEF Single
<1>5. ASSUME NEW q, Lists(Tail(list), q) PROVE Lists(list, q) /\ q # Head(list).sql
  <2>1. PICK i \in 1..Len(Tail(list)) : Tail(list)[i].sql = q
    BY <1>5 DEF Lists
  <2>2. i + 1 \in 1..Len(list) /\ 1 \in 1..Len(list) /\ list[i + 1].sql = q /\ i + 1 # 1
    BY <1>1, <1>2, <2>1
  <2> QED BY <1>3, <2>2 DEF Lists, Single
<1>6. ASSUME NEW q, Lists(list, q), q # Head(list).sql PROVE Lists(Tail(list), q)
  <2>1. PICK i \in 1..Len(list) : list[i].sql = q
    BY <1>6 DEF Lists
  <2>2. i - 1 \in 1..Len(Tail(list)) /\ Tail(list)[i - 1] = list[i]
    BY <1>1, <1>2, <1>3, <1>6, <2>1
  <2> QED BY <2>1, <2>2 DEF Lists
<1>7. Lists(list, Head(list).sql)
  BY <1>1, <1>3 DEF Lists
<1> QED BY <1>3, <1>4, <1>5, <1>6, <1>7

LEMMA ListsConcat ==
    ASSUME NEW p \in Seq(Queries), NEW f \in Seq(Queries),
           Single(p), Single(f), \A q \in Statements : ~(Lists(p, q) /\ Lists(f, q))
    PROVE  LET g == [i \in 1..Len(f) |-> [sql |-> f[i].sql, try |-> TryCnt]]
           IN  /\ p \o g \in Seq(Queries) /\ Single(p \o g)
               /\ \A q : Lists(p \o g, q) <=> Lists(p, q) \/ Lists(f, q)
<1> DEFINE g == [i \in 1..Len(f) |-> [sql |-> f[i].sql, try |-> TryCnt]]
<1>1. \A i \in 1..Len(f) : f[i] \in Queries /\ g[i] \in Queries /\ g[i].sql = f[i].sql
  BY SqlAssumption, ElementOfSeq DEF Queries
<1>2. g \in Seq(Queries) /\ Len(g) = Len(f)
  BY <1>1, LenProperties, IsASeq
<1> HIDE DEF g
<1>3. /\ p \o g \in Seq(Queries) /\ Len(p \o g) = Len(p) + Len(f)
      /\ Len(p) \in Nat /\ Len(f) \in Nat
  BY <1>2
<1>4. \A i \in 1..Len(p) : (p \o g)[i] = p[i]
  BY <1>2
<1>5. \A i \in 1..Len(f) : (p \o g)[Len(p) + i] = g[i]
  BY <1>2
<1>6. \A i \in 1..(Len(p) + Len(f)) :
         \/ i \in 1..Len(p) /\ (p \o g)[i].sql = p[i].sql
         \/ i - Len(p) \in 1..Len(f) /\ (p \o g)[i].sql = f[i - Len(p)].sql
  <2> SUFFICES ASSUME NEW i \in 1..(Len(p) + Len(f)), i \notin 1..Len(p)
               PROVE  i - Len(p) \in 1..Len(f) /\ (p \o g)[i].sql = f[i - Len(p)].sql
    BY <1>4
  <2>1. i - Len(p) \in 1..Len(f) /\ Len(p) + (i - Len(p)) = i
    BY <1>3
  <2> QED BY <1>1, <1>5, <2>1
<1>7. ASSUME NEW q PROVE Lists(p \o g, q) <=> Lists(p, q) \/ Lists(f, q)
  <2>1. ASSUME Lists(p \o g, q) PROVE Lists(p, q) \/ Lists(f, q)
    BY <1>3, <1>6, <2>1 DEF Lists
  <2>2. ASSUME Lists(p, q) PROVE Lists(p \o g, q)
    BY <1>3, <1>4, <2>2 DEF Lists
  <2>3. ASSUME Lists(f, q) PROVE Lists(p \o g, q)
    <3>1. PICK i \in 1..Len(f) : f[i].sql = q
      BY <2>3 DEF Lists
    <3>2. Len(p) + i \in 1..Len(p \o g) /\ (p \o g)[Len(p) + i].sql = q
      BY <1>1, <1>3, <1>5, <3>1
    <3> QED BY <3>2 DEF Lists
  <2> QED BY <2>1, <2>2, <2>3
<1>8. Single(p \o g)
  <2> SUFFICES ASSUME NEW i \in 1..(Len(p) + Len(f)), NEW j \in 1..(Len(p) + Len(f)),
                      (p \o g)[i].sql = (p \o g)[j].sql
               PROVE  i = j
    BY <1>3 DEF Single
  <2>1. ASSUME NEW a \in 1..Len(p), NEW b \in 1..Len(f) PROVE p[a].sql # f[b].sql
    <3>1. p[a] \in Queries
      BY ElementOfSeq
    <3>2. p[a].sql \in Statements
      BY <3>1 DEF Queries
    <3> QED BY <3>2 DEF Lists
  <2>2. CASE i \in 1..Len(p) /\ j \in 1..Len(p)
    BY <1>4, <2>2 DEF Single
  <2>3. CASE i \notin 1..Len(p) /\ j \notin 1..Len(p)
    <3>1. i - Len(p) \in 1..Len(f) /\ j - Len(p) \in 1..Len(f) /\ f[i - Len(p)].sql = f[j - Len(p)].sql
      BY <1>6, <2>3
    <3>2. i - Len(p) = j - Len(p)
      BY <3>1 DEF Single
    <3> QED BY <1>3, <3>2
  <2>4. CASE i \in 1..Len(p) /\ j \notin 1..Len(p)
    BY <1>4, <1>6, <2>1, <2>4
  <2>5. CASE i \notin 1..Len(p) /\ j \in 1..Len(p)
    BY <1>4, <1>6, <2>1, <2>5
  <2> QED BY <2>2, <2>3, <2>4, <2>5
<1> QED BY <1>3, <1>7, <1>8 DEF g

LEMMA SqlStart == Sql!Init => SqlInv
<1> SUFFICES ASSUME Sql!Init PROVE SqlInv
  OBVIOUS
<1>1. queue = <<>> /\ failed = <<>> /\ unasked = Statements /\ confirmed = {} /\ abandoned = {}
  BY DEF Sql!Init
<1>2. SqlTypes
  BY DEF Sql!Init, SqlTypes
<1>3. Single(queue) /\ Single(failed) /\ \A q : ~Lists(queue, q) /\ ~Lists(failed, q)
  BY <1>1 DEF Single, Lists
<1> QED BY <1>1, <1>2, <1>3 DEF SqlInv, Settled

LEMMA RunQueryStep == SqlInv /\ Sql!RunQuery => SqlInv'
<1> SUFFICES ASSUME SqlInv, Sql!RunQuery PROVE SqlInv'
  OBVIOUS
<1> DEFINE h == Head(queue)
           e == [sql |-> h.sql, try |-> h.try - 1]
<1>1. /\ h \in Queries /\ queue' = Tail(queue) /\ queue' \in Seq(Queries) /\ Single(queue')
      /\ \A q : Lists(queue', q) <=> Lists(queue, q) /\ q # h.sql
      /\ Lists(queue, h.sql) /\ unasked' = unasked
  BY ListsTail DEF SqlInv, SqlTypes, Sql!RunQuery
<1>2. h.sql \in Statements /\ e \in Queries /\ e.sql = h.sql
  BY <1>1 DEF Queries
<1>3. ~Lists(failed, h.sql)
  BY <1>1, <1>2 DEF SqlInv
<1>4. attempts' \in [Statements -> Nat]
  BY <1>2 DEF Sql!RunQuery, SqlInv, SqlTypes
<1>5. \/ failed' = failed /\ confirmed' = confirmed \cup {h.sql} /\ abandoned' = abandoned
      \/ failed' = Append(failed, e) /\ confirmed' = confirmed /\ abandoned' = abandoned
      \/ failed' = failed /\ confirmed' = confirmed /\ abandoned' = abandoned \cup {h.sql}
  BY DEF Sql!RunQuery
<1>6. /\ Append(failed, e) \in Seq(Queries) /\ Single(Append(failed, e))
      /\ \A q : Lists(Append(failed, e), q) <=> Lists(failed, q) \/ q = h.sql
  BY <1>2, <1>3, ListsAppend DEF SqlInv, SqlTypes
<1> HIDE DEF h, e
<1>7. SqlTypes' /\ Single(queue') /\ Single(failed')
  BY <1>1, <1>4, <1>5, <1>6 DEF SqlInv, SqlTypes
<1>8. \A q \in Statements : ~(Lists(queue', q) /\ Lists(failed', q))
  BY <1>1, <1>5, <1>6 DEF SqlInv
<1>9. \A q \in Statements : q \notin Settled' <=> Lists(queue', q) \/ Lists(failed', q)
  BY <1>1, <1>3, <1>5, <1>6 DEF SqlInv, Settled
<1>10. (unasked \cap (confirmed \cup abandoned))' = {}
  BY <1>1, <1>2, <1>5 DEF SqlInv, Settled
<1> QED BY <1>7, <1>8, <1>9, <1>10 DEF SqlInv

LEMMA SqlStep == SqlInv /\ [Sql!Next]_(Sql!sqlVars) => SqlInv'
<1> SUFFICES ASSUME SqlInv, [Sql!Next]_(Sql!sqlVars) PROVE SqlInv'
  OBVIOUS
<1>1. ASSUME NEW s \in Statements, Sql!AsyncQuery(s) PROVE SqlInv'
  <2> DEFINE e == [sql |-> s, try |-> TryCnt]
  <2>1. /\ s \in unasked /\ unasked' = unasked \ {s} /\ queue' = Append(queue, e)
        /\ UNCHANGED <<failed, confirmed, abandoned, attempts>>
    BY <1>1 DEF Sql!AsyncQuery, Sql!Enqueue
  <2>2. e \in Queries /\ e.sql = s
    BY SqlAssumption DEF Queries
  <2>3. ~Lists(queue, s) /\ ~Lists(failed, s)
    BY <2>1 DEF SqlInv, Settled
  <2>4. /\ queue' \in Seq(Queries) /\ Single(queue')
        /\ \A q : Lists(queue', q) <=> Lists(queue, q) \/ q = s
    BY <2>1, <2>2, <2>3, ListsAppend DEF SqlInv, SqlTypes
  <2> HIDE DEF e
  <2> QED BY <2>1, <2>3, <2>4 DEF SqlInv, SqlTypes, Settled
<1>2. CASE Sql!FlushError
  <2>1. /\ queue' \in Seq(Queries) /\ Single(queue')
        /\ \A q : Lists(queue', q) <=> Lists(queue, q) \/ Lists(failed, q)
    BY <1>2, ListsConcat DEF SqlInv, SqlTypes, Sql!FlushError
  <2>2. failed' = <<>> /\ UNCHANGED <<unasked, confirmed, abandoned, attempts>>
    BY <1>2 DEF Sql!FlushError
  <2>3. failed' \in Seq(Queries) /\ Single(failed') /\ \A q : ~Lists(failed', q)
    BY <2>2 DEF Single, Lists
  <2> QED BY <2>1, <2>2, <2>3 DEF SqlInv, SqlTypes, Settled
<1>3. CASE UNCHANGED <<unasked, queue, failed, confirmed, abandoned, attempts>>
  BY <1>3 DEF SqlInv, SqlTypes, Settled
<1> QED BY <1>1, <1>2, <1>3, RunQueryStep DEF Sql!Next, Sql!ServerChanges, Sql!sqlVars

LEMMA SqlCardinality == \A S : Sql!Cardinality(S) = Cardinality(S)
BY DEF Sql!Cardinality, Cardinality

LEMMA SqlInvRight == SqlInv => Sql!StatementKept
<1> SUFFICES ASSUME SqlInv, NEW q \in Statements
             PROVE  Sql!Places(q) = IF q \in unasked \cup confirmed \cup abandoned THEN 0 ELSE 1
  BY DEF Sql!StatementKept
<1> DEFINE A == {i \in 1..Len(queue) : queue[i].sql = q}
           B == {i \in 1..Len(failed) : failed[i].sql = q}
<1>1. Cardinality(A) = IF Lists(queue, q) THEN 1 ELSE 0
  <2>1. \A x, y \in A : x = y
    BY DEF SqlInv, Single
  <2>2. A = {} <=> ~Lists(queue, q)
    BY DEF Lists
  <2> QED BY <2>1, <2>2, AtMostOne
<1>2. Cardinality(B) = IF Lists(failed, q) THEN 1 ELSE 0
  <2>1. \A x, y \in B : x = y
    BY DEF SqlInv, Single
  <2>2. B = {} <=> ~Lists(failed, q)
    BY DEF Lists
  <2> QED BY <2>1, <2>2, AtMostOne
<1>3. Sql!Places(q) = Cardinality(A) + Cardinality(B)
  BY SqlCardinality DEF Sql!Places
<1> QED BY <1>1, <1>2, <1>3 DEF SqlInv, Settled

-----------------------------------------------------------------------------
(* The log files (FileLog). *)

LogFile == [day : Nat, slice : Nat]

LEMMA NamesInOrder ==
    ASSUME NEW f \in LogFile, NEW g \in LogFile, NEW h \in LogFile
    PROVE  /\ ~Slices!NameBefore(f, f)
           /\ Slices!NameBefore(f, g) /\ Slices!NameBefore(g, h) => Slices!NameBefore(f, h)
           /\ ~Slices!Wide(f.slice) /\ ~Slices!Wide(g.slice)
                 => (Slices!NameBefore(f, g) <=> Slices!Older(f, g))
<1> DEFINE Tens(m) == m \div Base
<1>1. \A m, n \in Nat : /\ Tens(m) \in Nat
                        /\ m <= n => Tens(m) <= Tens(n)
  BY QuotientGrows, FileLogAssumption
<1>2. f.slice \in Nat /\ g.slice \in Nat /\ h.slice \in Nat /\ f.day \in Nat /\ g.day \in Nat /\ h.day \in Nat
  BY DEF LogFile
<1>3. \A m, n : Slices!SliceBefore(m, n) <=>
                  \/ Slices!Wide(m) /\ ~Slices!Wide(n) /\ Tens(m) < n
                  \/ ~Slices!Wide(m) /\ Slices!Wide(n) /\ m <= Tens(n)
                  \/ (Slices!Wide(m) <=> Slices!Wide(n)) /\ m < n
  BY DEF Slices!SliceBefore, Slices!Wide
<1> HIDE DEF Tens
<1>4. ASSUME NEW l \in Nat, NEW m \in Nat, NEW n \in Nat,
             Slices!SliceBefore(l, m), Slices!SliceBefore(m, n)
      PROVE  Slices!SliceBefore(l, n)
  <2>1. /\ Tens(l) \in Nat /\ Tens(m) \in Nat /\ Tens(n) \in Nat
        /\ (l <= m => Tens(l) <= Tens(m)) /\ (m <= n => Tens(m) <= Tens(n)) /\ (n <= l => Tens(n) <= Tens(l))
    BY <1>1
  <2> QED BY <1>3, <1>4, <2>1
<1>5. \A n \in Nat : ~Slices!SliceBefore(n, n)
  BY <1>3
<1>6. ~Slices!NameBefore(f, f)
  BY <1>2, <1>5 DEF Slices!NameBefore
<1>7. Slices!NameBefore(f, g) /\ Slices!NameBefore(g, h) => Slices!NameBefore(f, h)
  BY <1>2, <1>4 DEF Slices!NameBefore
<1>8. ~Slices!Wide(f.slice) /\ ~Slices!Wide(g.slice)
         => (Slices!NameBefore(f, g) <=> Slices!Older(f, g))
  BY <1>3 DEF Slices!NameBefore, Slices!Older
<1> QED BY <1>6, <1>7, <1>8

\* clean: who goes is before all that stay, and the number is kept unless the open file comes
\* first.
LEMMA CleanRight ==
    ASSUME NEW S, IsFiniteSet(S), S \subseteq LogFile, NEW open \in LogFile
    PROVE  LET many == Slices!TooMany(S, open) IN
           /\ many \subseteq S /\ open \notin many
           /\ (\A f \in S : ~Slices!Wide(f.slice)) => \A f \in many, g \in S \ many : Slices!Older(f, g)
           /\ open \in S \ many => \/ Slices!Cardinality(S \ many) <= MaxCount
                                   \/ \A f \in S \ many : ~Slices!NameBefore(f, open)
<1> DEFINE many == Slices!TooMany(S, open)
           Before(f) == {g \in S : Slices!NameBefore(g, f)}
<1>1. \A X : Slices!Cardinality(X) = Cardinality(X)
  BY DEF Slices!Cardinality, Cardinality
<1>2. many = {f \in S : /\ Cardinality(Before(f)) < Cardinality(S) - MaxCount
                        /\ open \in S => Slices!NameBefore(f, open)}
  BY <1>1 DEF Slices!TooMany
<1>3. \A f \in S : Before(f) \subseteq S /\ IsFiniteSet(Before(f)) /\ Cardinality(Before(f)) \in Nat
  <2>1. \A f \in S : Before(f) \subseteq S
    OBVIOUS
  <2> QED BY <2>1, FS_Subset, FS_CardinalityType
<1>4. Cardinality(S) \in Nat /\ MaxCount \in Nat
  BY FS_CardinalityType, FileLogAssumption
<1>5. \A f, g \in S : Slices!NameBefore(f, g) => Before(f) \subseteq Before(g)
  BY NamesInOrder
<1> HIDE DEF Before, many
<1>6. many \subseteq S /\ open \notin many
  BY <1>2, NamesInOrder
<1>7. ASSUME \A f \in S : ~Slices!Wide(f.slice), NEW f \in many, NEW g \in S \ many
      PROVE  Slices!Older(f, g)
  <2>1. f \in S /\ g \in S /\ f \in LogFile /\ g \in LogFile /\ f # g
    BY <1>6
  <2>2. Slices!Older(f, g) \/ Slices!Older(g, f)
    <3>1. f = [day |-> f.day, slice |-> f.slice] /\ g = [day |-> g.day, slice |-> g.slice]
          /\ f.day \in Nat /\ g.day \in Nat /\ f.slice \in Nat /\ g.slice \in Nat
      BY <2>1 DEF LogFile
    <3>2. f.day # g.day \/ f.slice # g.slice
      BY <2>1, <3>1
    <3> QED BY <3>1, <3>2 DEF Slices!Older
  <2>3. CASE Slices!Older(g, f)
    <3>1. Slices!NameBefore(g, f)
      BY <1>7, <2>1, <2>3, NamesInOrder
    <3>2. Before(g) \subseteq Before(f)
      BY <1>5, <2>1, <3>1
    <3>3. Cardinality(Before(g)) <= Cardinality(Before(f))
      BY <1>3, <2>1, <3>2, FS_Subset
    <3>4. Cardinality(Before(f)) < Cardinality(S) - MaxCount
      BY <1>2
    <3>5. Cardinality(Before(g)) < Cardinality(S) - MaxCount
      BY <1>3, <1>4, <2>1, <3>3, <3>4
    <3>6. open \in S => Slices!NameBefore(g, open)
      <4>1. open \in S => Slices!NameBefore(f, open)
        BY <1>2
      <4> QED BY <2>1, <3>1, <4>1, NamesInOrder
    <3> QED BY <1>2, <3>5, <3>6
  <2> QED BY <2>2, <2>3
<1>8. ASSUME open \in S \ many, NEW e \in S \ many, Slices!NameBefore(e, open)
      PROVE  Cardinality(S \ many) <= MaxCount
  <2> DEFINE Left == {f \in S \ many : Slices!NameBefore(f, open)}
             R == {p \in Left \X Left : Slices!NameBefore(p[1], p[2])}
  <2>1. IsFiniteSet(Left) /\ Left # {} /\ Left \subseteq S
    BY <1>8, FS_Subset
  <2>2. \A f \in S \ many : Slices!NameBefore(f, open) => f \in Left
    OBVIOUS
  <2>3. \A f \in Left : f \in S /\ f \notin many /\ Slices!NameBefore(f, open)
    OBVIOUS
  <2> HIDE DEF Left
  <2>4. \A a, b \in Left : <<a, b>> \in R <=> Slices!NameBefore(a, b)
    OBVIOUS
  <2> HIDE DEF R
  <2>5. \A a \in Left : <<a, a>> \notin R
    BY <2>1, <2>4, NamesInOrder
  <2>6. \A a, b, c \in Left : <<a, b>> \in R /\ <<b, c>> \in R => <<a, c>> \in R
    BY <2>1, <2>4, NamesInOrder
  <2>7. PICK f \in Left : \A g \in Left : <<g, f>> \notin R
    BY <2>1, <2>5, <2>6, LeastOf
  <2>8. Before(f) \subseteq many
    <3>1. SUFFICES ASSUME NEW g \in Before(f), g \notin many PROVE FALSE
      OBVIOUS
    <3>2. g \in S /\ Slices!NameBefore(g, f)
      BY DEF Before
    <3>3. Slices!NameBefore(g, open)
      BY <2>3, <3>2, NamesInOrder
    <3> QED BY <2>2, <2>4, <2>7, <3>1, <3>2, <3>3
  <2>9. IsFiniteSet(many) /\ Cardinality(many) \in Nat /\ Cardinality(Before(f)) <= Cardinality(many)
    BY <1>6, <2>8, FS_Subset, FS_CardinalityType
  <2>10. Cardinality(Before(f)) >= Cardinality(S) - MaxCount /\ Cardinality(Before(f)) \in Nat
    BY <1>2, <1>3, <1>4, <2>3
  <2>11. Cardinality(S \ many) = Cardinality(S) - Cardinality(S \cap many)
    BY FS_Difference
  <2>12. S \cap many = many
    BY <1>6
  <2> QED BY <1>4, <2>9, <2>10, <2>11, <2>12
<1> QED BY <1>1, <1>6, <1>7, <1>8 DEF many

MaxSlice == Base * Base + Base

SlicesTypes ==
    /\ now \in Nat /\ started \in Nat /\ started <= now
    /\ known \subseteq [day : Nat, slice : 0..MaxSlice] /\ IsFiniteSet(known)
    /\ \A f \in known : f.day <= Slices!Day(now)
    /\ index \in 0..MaxSlice /\ lastDay \in Int /\ path.day \in Int
    /\ canWrite \in BOOLEAN /\ lateLine \in BOOLEAN

\* Until it writes, the channel knows the files of earlier days and, of today's, the last
\* slice; afterwards, unless a line was late, nothing is newer than its own last slice.
Newer ==
    /\ lastDay = -1 =>
          /\ path = Slices!NoPath
          /\ \A f \in known : \/ f.day < Slices!Day(started)
                              \/ f.day = Slices!Day(started) /\ f.slice <= index
    /\ lastDay # -1 /\ ~lateLine =>
          /\ path = [day |-> lastDay, slice |-> index - 1]
          /\ \A f \in known : f.day < lastDay \/ (f.day = lastDay /\ f.slice < index)

SlicesInv == SlicesTypes /\ Newer /\ Slices!FileLogRight

LEMMA DayIs ==
    ASSUME NEW m \in Nat, NEW n \in Nat, m <= n
    PROVE  Slices!Day(m) \in Nat /\ Slices!Day(n) \in Nat /\ Slices!Day(m) <= Slices!Day(n)
<1>1. /\ m \div DayTicks \in Int /\ n \div DayTicks \in Int /\ m \div DayTicks <= n \div DayTicks
      /\ m \div DayTicks >= 0
  BY FileLogAssumption, QuotientGrows
<1> QED BY <1>1 DEF Slices!Day

LEMMA MaxSliceNat == MaxSlice \in Nat /\ MaxSlice > 0
<1>1. Base \in Nat /\ Base > 0
  BY FileLogAssumption
<1>2. Base * Base \in Nat
  BY <1>1
<1> QED BY <1>1, <1>2 DEF MaxSlice

LEMMA SlicesStart == Slices!Init => SlicesInv
<1> SUFFICES ASSUME Slices!Init PROVE SlicesInv
  OBVIOUS
<1>1. /\ now = 0 /\ started = 0 /\ logDir = {} /\ known = {} /\ index = 0 /\ lastDay = -1
      /\ path = Slices!NoPath /\ canWrite = FALSE /\ gone = {} /\ lateLine = FALSE
  BY DEF Slices!Init
<1>2. path.day = -1
  BY <1>1 DEF Slices!NoPath
<1>3. SlicesTypes
  <2>1. known \subseteq [day : Nat, slice : 0..MaxSlice] /\ IsFiniteSet(known)
        /\ \A f \in known : f.day <= Slices!Day(now)
    BY <1>1, FS_EmptySet
  <2>2. index \in 0..MaxSlice
    BY <1>1, MaxSliceNat
  <2>3. now \in Nat /\ started \in Nat /\ started <= now /\ lastDay \in Int /\ path.day \in Int
    BY <1>1, <1>2
  <2>4. canWrite \in BOOLEAN /\ lateLine \in BOOLEAN
    BY <1>1
  <2> QED BY <2>1, <2>2, <2>3, <2>4 DEF SlicesTypes
<1>4. Newer
  BY <1>1 DEF Newer
<1>5. Slices!FileLogRight
  BY <1>1 DEF Slices!FileLogRight
<1> QED BY <1>3, <1>4, <1>5 DEF SlicesInv

LEMMA SlicesTick == SlicesInv /\ Slices!Tick => SlicesInv'
<1> SUFFICES ASSUME SlicesInv, Slices!Tick PROVE SlicesInv'
  OBVIOUS
<1>1. /\ now' = now + 1 /\ now \in Nat
      /\ UNCHANGED <<started, logDir, known, index, lastDay, lastCheck, path, canWrite, gone, lateLine>>
  BY DEF Slices!Tick, SlicesInv, SlicesTypes
<1>2. Slices!Day(now) \in Nat /\ Slices!Day(now') \in Nat /\ Slices!Day(now) <= Slices!Day(now')
  BY <1>1, DayIs
<1>3. \A f \in known : f.day \in Nat
  BY DEF SlicesInv, SlicesTypes
<1>4. SlicesTypes'
  <2>1. (\A f \in known : f.day <= Slices!Day(now))'
    BY <1>1, <1>2, <1>3 DEF SlicesInv, SlicesTypes
  <2> QED BY <1>1, <2>1 DEF SlicesInv, SlicesTypes
<1>5. Newer'
  BY <1>1 DEF SlicesInv, Newer, Slices!Day
<1>6. Slices!FileLogRight'
  <2>1. path.day + MaxDays <= Slices!Day(now) => path'.day + MaxDays <= Slices!Day(now')
    BY <1>1, <1>2, FileLogAssumption DEF SlicesInv, SlicesTypes
  <2>2. Slices!Narrow' = Slices!Narrow
    BY <1>1 DEF Slices!Narrow
  <2>3. (canWrite => path \in logDir \/ path.day + MaxDays <= Slices!Day(now))'
    BY <1>1, <2>1 DEF SlicesInv, Slices!FileLogRight
  <2> QED BY <1>1, <2>2, <2>3 DEF SlicesInv, Slices!FileLogRight
<1> QED BY <1>4, <1>5, <1>6 DEF SlicesInv

LEMMA SlicesRestart == SlicesInv /\ Slices!Restart => SlicesInv'
<1> SUFFICES ASSUME SlicesInv, Slices!Restart PROVE SlicesInv'
  OBVIOUS
<1> DEFINE N == {0} \cup {f.slice : f \in {g \in logDir : g.day = Slices!Day(now)}}
<1>1. /\ known' = logDir /\ started' = now /\ lastDay' = -1 /\ path' = Slices!NoPath
      /\ canWrite' = FALSE /\ gone' = {} /\ lateLine' = FALSE /\ now' = now /\ logDir' = logDir
      /\ index' = CHOOSE n \in N : \A m \in N : m <= n
  BY DEF Slices!Restart, Slices!Construct
<1>2. /\ logDir \subseteq known /\ IsFiniteSet(logDir) /\ now \in Nat
      /\ logDir \subseteq [day : Nat, slice : 0..MaxSlice]
      /\ \A f \in logDir : f.day <= Slices!Day(now)
  BY FS_Subset DEF SlicesInv, SlicesTypes, Slices!FileLogRight
<1>3. \A f \in logDir : f.slice \in 0..MaxSlice /\ f.day \in Nat
  BY <1>2
<1>4. N \subseteq 0..MaxSlice /\ N # {}
  BY <1>3, MaxSliceNat
<1>5. \A f \in logDir : f.day = Slices!Day(now) => f.slice \in N
  OBVIOUS
<1> HIDE DEF N
<1>6. index' \in N /\ \A n \in N : n <= index'
  <2>1. \E m \in N : \A n \in N : n <= m
    BY <1>4, MaxSliceNat, GreatestNatural
  <2> QED BY <1>1, <2>1
<1>7. path'.day = -1
  BY <1>1 DEF Slices!NoPath
<1>8. SlicesTypes'
  <2>1. index' \in 0..MaxSlice
    BY <1>4, <1>6
  <2>2. (\A f \in known : f.day <= Slices!Day(now))'
    BY <1>1, <1>2 DEF Slices!Day
  <2>3. started' \in Nat /\ now' \in Nat /\ started' <= now'
    BY <1>1, <1>2
  <2>4. known' \subseteq [day : Nat, slice : 0..MaxSlice] /\ IsFiniteSet(known')
    BY <1>1, <1>2
  <2>5. canWrite' \in BOOLEAN /\ lateLine' \in BOOLEAN
    BY <1>1
  <2>6. lastDay' \in Int /\ path'.day \in Int
    BY <1>1, <1>7
  <2> QED BY <2>1, <2>2, <2>3, <2>4, <2>5, <2>6 DEF SlicesTypes
<1>9. Newer'
  <2>1. Slices!Day(now) \in Nat
    BY <1>2, DayIs
  <2> QED BY <1>1, <1>2, <1>3, <1>5, <1>6, <2>1 DEF Newer
<1>10. Slices!FileLogRight'
  <2>1. path' \notin known'
    BY <1>1, <1>3, <1>7
  <2> QED BY <1>1, <2>1 DEF Slices!FileLogRight
<1> QED BY <1>8, <1>9, <1>10 DEF SlicesInv

\* changeFile, whichever slice it is for.
LEMMA ChangeFileRight ==
    ASSUME SlicesInv, NEW second \in Nat, second <= now, NEW slice \in 0..(MaxSlice - 1),
           Slices!ChangeFile(second, slice), now' = now
    PROVE  LET file == [day |-> Slices!Day(second), slice |-> slice] IN
           /\ path' = file /\ index' = slice + 1 /\ canWrite' \in BOOLEAN
           /\ known' \subseteq known \cup {file} /\ IsFiniteSet(known')
           /\ known' \subseteq [day : Nat, slice : 0..MaxSlice]
           /\ \A f \in known' : f.day <= Slices!Day(now)
           /\ logDir' \subseteq known'
           /\ canWrite' => path' \in logDir' \/ path'.day + MaxDays <= Slices!Day(now)
           /\ Slices!Narrow' => \A f \in gone', g \in known' : Slices!Older(f, g)
           /\ path' \in known' => \/ Slices!Cardinality(known') <= MaxCount
                                  \/ \A f \in known' : ~Slices!NameBefore(f, path')
<1> DEFINE file == [day |-> Slices!Day(second), slice |-> slice]
           aged == Slices!Aged(known \cup {file})
           noted == (known \cup {file}) \ aged
           many == Slices!TooMany(noted, file)
<1>1. PICK opened \in BOOLEAN :
          /\ path' = file /\ canWrite' = opened /\ index' = slice + 1
          /\ known' = noted \ many /\ gone' = many
          /\ logDir' = ((IF opened THEN logDir \cup {file} ELSE logDir) \ aged) \ many
  BY DEF Slices!ChangeFile
<1>2. /\ Slices!Day(second) \in Nat /\ Slices!Day(now) \in Nat /\ Slices!Day(second) <= Slices!Day(now)
  BY DayIs DEF SlicesInv, SlicesTypes
<1>3. /\ known \subseteq [day : Nat, slice : 0..MaxSlice] /\ IsFiniteSet(known)
      /\ logDir \subseteq known /\ \A f \in known : f.day <= Slices!Day(now)
  BY DEF SlicesInv, SlicesTypes, Slices!FileLogRight
<1>4. /\ file \in [day : Nat, slice : 0..MaxSlice] /\ file.day = Slices!Day(second) /\ file.slice = slice
  BY <1>2, MaxSliceNat
<1>5. aged = {f \in known \cup {file} : f.day + MaxDays <= Slices!Day(now)}
  BY DEF Slices!Aged
<1> HIDE DEF file, aged, many
<1>6. IsFiniteSet(known \cup {file})
  BY <1>3, FS_AddElement
<1>7. /\ noted \subseteq known \cup {file} /\ IsFiniteSet(noted) /\ IsFiniteSet(noted \ many)
      /\ noted \subseteq LogFile /\ file \in LogFile
  <2>1. noted \subseteq known \cup {file} /\ noted \ many \subseteq known \cup {file}
    OBVIOUS
  <2>2. [day : Nat, slice : 0..MaxSlice] \subseteq LogFile
    BY MaxSliceNat DEF LogFile
  <2> QED BY <1>3, <1>4, <1>6, <2>1, <2>2, FS_Subset
<1>14. /\ many = Slices!TooMany(noted, file) /\ noted = (known \cup {file}) \ aged
       /\ \A f : f \in noted <=> (f \in known \/ f = file) /\ f \notin aged
  BY DEF many
<1> HIDE DEF noted
<1>8. /\ many \subseteq noted /\ file \notin many
      /\ (\A f \in noted : ~Slices!Wide(f.slice)) => \A f \in many, g \in noted \ many : Slices!Older(f, g)
      /\ file \in noted \ many => \/ Slices!Cardinality(noted \ many) <= MaxCount
                                  \/ \A f \in noted \ many : ~Slices!NameBefore(f, file)
  <2>1. noted \subseteq LogFile /\ IsFiniteSet(noted) /\ file \in LogFile
    BY <1>7
  <2>2. LET m == Slices!TooMany(noted, file) IN
        /\ m \subseteq noted /\ file \notin m
        /\ (\A f \in noted : ~Slices!Wide(f.slice)) => \A f \in m, g \in noted \ m : Slices!Older(f, g)
        /\ file \in noted \ m => \/ Slices!Cardinality(noted \ m) <= MaxCount
                                 \/ \A f \in noted \ m : ~Slices!NameBefore(f, file)
    BY <2>1, CleanRight
  <2> QED BY <1>14, <2>2
<1>9. known' \subseteq known \cup {file} /\ logDir' \subseteq known'
  <2>1. known' \subseteq known \cup {file}
    BY <1>1, <1>14
  <2>2. ASSUME NEW f \in logDir' PROVE f \in known'
    <3>1. f \notin aged /\ f \notin many /\ (f \in logDir \/ f = file)
      BY <1>1, <2>2
    <3>2. f \in known \/ f = file
      BY <1>3, <3>1
    <3> QED BY <1>1, <1>14, <3>1, <3>2
  <2> QED BY <2>1, <2>2
<1>10. known' \subseteq [day : Nat, slice : 0..MaxSlice] /\ \A f \in known' : f.day <= Slices!Day(now)
  BY <1>2, <1>3, <1>4, <1>9
<1>11. canWrite' => path' \in logDir' \/ path'.day + MaxDays <= Slices!Day(now)
  BY <1>1, <1>5, <1>8, <1>14
<1>12. Slices!Narrow' => \A f \in gone', g \in known' : Slices!Older(f, g)
  <2>1. gone' \cup known' = noted
    BY <1>1, <1>8
  <2>2. Slices!Narrow' => \A f \in noted : ~Slices!Wide(f.slice)
    BY <2>1 DEF Slices!Narrow
  <2> QED BY <1>1, <1>8, <2>2
<1>13. path' \in known' => \/ Slices!Cardinality(known') <= MaxCount
                          \/ \A f \in known' : ~Slices!NameBefore(f, path')
  BY <1>1, <1>8
<1> QED BY <1>1, <1>7, <1>9, <1>10, <1>11, <1>12, <1>13 DEF file

LEMMA SlicesWrite ==
    ASSUME SlicesInv, NEW age \in 0..Lag, Slices!Write(now - age)
    PROVE  SlicesInv'
<1> DEFINE second == now - age
           day == Slices!Day(second)
<1>1. /\ second \in Int /\ second >= started /\ index < MaxSlice /\ now \in Nat /\ started \in Nat
      /\ now' = now /\ started' = started /\ (lateLine' <=> (lateLine \/ day < lastDay))
  <2>1. now \in Nat /\ started \in Nat /\ age \in Nat
    BY FileLogAssumption DEF SlicesInv, SlicesTypes
  <2>2. second \in Int
    BY <2>1
  <2>3. /\ second >= started /\ index < MaxSlice /\ now' = now /\ started' = started
        /\ (lateLine' <=> (lateLine \/ day < lastDay))
    BY DEF Slices!Write, MaxSlice
  <2> QED BY <2>1, <2>2, <2>3
<1>2. second \in Nat /\ second <= now /\ index \in 0..(MaxSlice - 1)
  BY <1>1, FileLogAssumption, MaxSliceNat DEF SlicesInv, SlicesTypes
<1>3. /\ \/ /\ day # lastDay /\ lastDay' = day
            /\ Slices!ChangeFile(second, IF lastDay = -1 THEN index ELSE 0)
         \/ day = lastDay /\ Slices!CheckSize(second) /\ lastDay' = lastDay
  BY DEF Slices!Write
<1> HIDE DEF second
<1>4. day \in Nat /\ Slices!Day(started) \in Nat /\ Slices!Day(started) <= day
  BY <1>1, <1>2, DayIs
<1>5. \A f \in known : f.day \in Nat /\ f.slice \in Nat
  BY MaxSliceNat DEF SlicesInv, SlicesTypes
<1>6. lateLine' \in BOOLEAN /\ lastDay \in Int
  <2>1. lateLine' = (lateLine \/ day < lastDay)
    BY DEF Slices!Write, second
  <2> QED BY <2>1 DEF SlicesInv, SlicesTypes
<1>7. ASSUME NEW slice \in 0..(MaxSlice - 1), Slices!ChangeFile(second, slice), lastDay' = day,
             ~lateLine' => \A f \in known : \/ f.day < day
                                            \/ f.day = day /\ f.slice <= slice
      PROVE  SlicesInv'
  <2> DEFINE file == [day |-> day, slice |-> slice]
  <2>1. /\ path' = file /\ index' = slice + 1 /\ canWrite' \in BOOLEAN
        /\ known' \subseteq known \cup {file} /\ IsFiniteSet(known')
        /\ known' \subseteq [day : Nat, slice : 0..MaxSlice]
        /\ \A f \in known' : f.day <= Slices!Day(now)
        /\ logDir' \subseteq known'
        /\ canWrite' => path' \in logDir' \/ path'.day + MaxDays <= Slices!Day(now)
        /\ Slices!Narrow' => \A f \in gone', g \in known' : Slices!Older(f, g)
        /\ path' \in known' => \/ Slices!Cardinality(known') <= MaxCount
                               \/ \A f \in known' : ~Slices!NameBefore(f, path')
    BY <1>1, <1>2, <1>7, ChangeFileRight
  <2>2. file.day = day /\ file.slice = slice /\ slice \in Nat /\ slice + 1 \in 0..MaxSlice
        /\ (slice + 1) - 1 = slice
    BY MaxSliceNat
  <2>3. SlicesTypes'
    BY <1>1, <1>4, <1>6, <1>7, <2>1, <2>2 DEF SlicesInv, SlicesTypes
  <2>4. ~lateLine' => \A f \in known' : f.day < day \/ (f.day = day /\ f.slice < slice + 1)
    BY <1>5, <1>7, <2>1, <2>2
  <2>5. Newer'
    <3>1. day # -1
      BY <1>4
    <3>2. path' = [day |-> lastDay', slice |-> index' - 1]
      BY <1>7, <2>1, <2>2
    <3> QED BY <1>7, <2>1, <2>4, <3>1, <3>2 DEF Newer
  <2>6. ~lateLine' => \A f \in known' \ {path'} : Slices!Older(f, path')
    <3>1. SUFFICES ASSUME ~lateLine', NEW f \in known', f # file PROVE Slices!Older(f, file)
      BY <2>1
    <3>2. f = [day |-> f.day, slice |-> f.slice] /\ f.day \in Nat /\ f.slice \in Nat
      BY <2>1, MaxSliceNat
    <3>3. f.day # day \/ f.slice # slice
      BY <3>1, <3>2
    <3> QED BY <2>2, <2>4, <3>1, <3>2, <3>3 DEF Slices!Older
  <2>7. Slices!FileLogRight'
    BY <1>1, <2>1, <2>6 DEF Slices!FileLogRight
  <2> QED BY <2>3, <2>5, <2>7 DEF SlicesInv
<1>8. CASE day # lastDay /\ lastDay' = day /\ Slices!ChangeFile(second, IF lastDay = -1 THEN index ELSE 0)
  <2>1. CASE lastDay = -1
    <3>1. \A f \in known : f.day < day \/ (f.day = day /\ f.slice <= index)
      BY <1>4, <1>5, <2>1 DEF SlicesInv, Newer
    <3> QED BY <1>2, <1>7, <1>8, <2>1, <3>1
  <2>2. CASE lastDay # -1
    <3>1. ~lateLine' => ~lateLine /\ lastDay < day
      BY <1>1, <1>4, <1>6, <1>8
    <3>2. ~lateLine' => \A f \in known : f.day < day
      BY <1>4, <1>5, <1>6, <2>2, <3>1 DEF SlicesInv, Newer
    <3>3. 0 \in 0..(MaxSlice - 1) /\ Slices!ChangeFile(second, 0)
      BY <1>8, <2>2, MaxSliceNat
    <3> QED BY <1>7, <1>8, <3>2, <3>3
  <2> QED BY <2>1, <2>2
<1>9. CASE day = lastDay /\ Slices!CheckSize(second) /\ lastDay' = lastDay
  <2>0. lastDay # -1 /\ (lateLine' <=> lateLine)
    BY <1>1, <1>4, <1>9
  <2>1. CASE Slices!ChangeFile(second, index)
    <3>1. ~lateLine' => \A f \in known : f.day < day \/ (f.day = day /\ f.slice <= index)
      BY <1>2, <1>5, <1>9, <2>0, MaxSliceNat DEF SlicesInv, Newer
    <3> QED BY <1>2, <1>7, <1>9, <2>1, <3>1
  <2>2. CASE UNCHANGED <<logDir, known, index, path, canWrite, gone>>
    <3>1. SlicesTypes'
      BY <1>1, <1>6, <1>9, <2>2 DEF SlicesInv, SlicesTypes
    <3>2. Newer'
      BY <1>1, <1>9, <2>0, <2>2 DEF SlicesInv, Newer
    <3>3. Slices!FileLogRight'
      <4>1. Slices!Narrow' = Slices!Narrow
        BY <2>2 DEF Slices!Narrow
      <4> QED BY <1>1, <2>0, <2>2, <4>1 DEF SlicesInv, Slices!FileLogRight
    <3> QED BY <3>1, <3>2, <3>3 DEF SlicesInv
  <2> QED BY <1>9, <2>1, <2>2 DEF Slices!CheckSize
<1> QED BY <1>3, <1>8, <1>9

LEMMA SlicesStep == SlicesInv /\ Slices!Next => SlicesInv'
BY SlicesTick, SlicesRestart, SlicesWrite DEF Slices!Next

LEMMA SlicesInvRight == SlicesInv => Slices!FileLogRight
BY DEF SlicesInv

-----------------------------------------------------------------------------
(* The clock (StampThread). *)

\* What the settings of the clock since the last reading have moved it.
Moved == (system - lastSeen) - (real - awake)
\* What the count may have gained by all but the settings that were not read yet.
Gained(n) == (Limit - 1) * n

StampTypes ==
    /\ real \in Nat /\ awake \in Nat /\ sets \in Nat /\ microsecond \in Nat /\ highest \in Nat
    /\ system \in Int /\ lastSeen \in Int /\ wrong \in Int
    /\ doing \in {"read", "micro", "milli"}
    /\ stored.micro \in Nat /\ stored.milli \in Nat

StampInv ==
    /\ StampTypes
    /\ awake <= real
    /\ stored.milli >= highest
    /\ stored.milli <= stored.micro \div Milli /\ stored.micro <= microsecond
    /\ doing = "milli" => stored.micro = microsecond
    /\ IF Moved = 0 THEN wrong <= Gained(sets) ELSE sets > 0 /\ wrong <= Gained(sets - 1)
    /\ sets = 0 => wrong <= 0 /\ (wrong < 0 => wrong <= -Limit)

LEMMA GainedGrows ==
    ASSUME NEW n \in Nat, Limit \in Nat \ {0}
    PROVE  /\ Gained(n) \in Int /\ Gained(n + 1) = Gained(n) + (Limit - 1)
           /\ Gained(0) = 0
<1>1. (Limit - 1) * (n + 1) = (Limit - 1) * n + (Limit - 1)
  OBVIOUS
<1> QED BY <1>1 DEF Gained

LEMMA StampStart == Stamp!Init => StampInv
<1> SUFFICES ASSUME Stamp!Init PROVE StampInv
  OBVIOUS
<1>1. stored.micro = 0 /\ stored.milli = 0
  BY DEF Stamp!Init
<1>2. Moved = 0 /\ Gained(sets) = 0
  BY StampAssumption, GainedGrows DEF Stamp!Init, Moved
<1>3. 0 \div Milli = 0
  BY StampAssumption
<1> QED BY <1>1, <1>2, <1>3, StampAssumption DEF Stamp!Init, StampInv, StampTypes

LEMMA ReadClockStep == StampInv /\ Stamp!ReadClock => StampInv'
<1> SUFFICES ASSUME StampInv, Stamp!ReadClock PROVE StampInv'
  OBVIOUS
<1> DEFINE passed == real - awake
           step == IF Stamp!Count(system - lastSeen) THEN system - lastSeen ELSE 0
<1>1. stored'.micro = stored.micro /\ stored'.milli = stored.milli
  BY DEF Stamp!ReadClock
<1>2. /\ microsecond' = microsecond + step /\ wrong' = (wrong + step) - passed
      /\ lastSeen' = system /\ awake' = real /\ doing' \in {"read", "micro"}
      /\ step \in Nat /\ passed \in Nat /\ step < Limit
      /\ UNCHANGED <<real, system, sets, highest>>
  BY StampAssumption DEF Stamp!ReadClock, Stamp!Expired, Stamp!Count, StampInv, StampTypes
<1>3. Moved' = 0
  BY <1>2 DEF Moved, StampInv, StampTypes
<1>4. wrong' <= Gained(sets)
  <2>1. CASE Moved = 0
    BY <1>2, <2>1, GainedGrows, StampAssumption DEF Moved, StampInv, StampTypes, Stamp!Count
  <2>2. CASE Moved # 0
    <3>1. sets - 1 \in Nat /\ Gained((sets - 1) + 1) = Gained(sets - 1) + (Limit - 1) /\ Gained(sets - 1) \in Int
      BY <2>2, GainedGrows, StampAssumption DEF StampInv, StampTypes
    <3>2. Gained(sets) = Gained(sets - 1) + (Limit - 1)
      BY <3>1 DEF StampInv, StampTypes
    <3> QED BY <1>2, <2>2, <3>1, <3>2, StampAssumption DEF StampInv, StampTypes
  <2> QED BY <2>1, <2>2
<1>5. sets = 0 => wrong' <= 0 /\ (wrong' < 0 => wrong' <= -Limit)
  BY <1>2, StampAssumption DEF Moved, StampInv, StampTypes, Stamp!Count
<1> QED BY <1>1, <1>2, <1>3, <1>4, <1>5 DEF StampInv, StampTypes

LEMMA StampStep == StampInv /\ [Stamp!Next]_(Stamp!stampVars) => StampInv'
<1> SUFFICES ASSUME StampInv, [Stamp!Next]_(Stamp!stampVars) PROVE StampInv'
  OBVIOUS
<1>1. CASE Stamp!StoreMicro
  <2>1. /\ stored'.micro = microsecond /\ stored'.milli = stored.milli /\ doing' = "milli"
        /\ UNCHANGED <<real, system, lastSeen, microsecond, awake, wrong, sets, highest>>
    BY <1>1 DEF Stamp!StoreMicro, StampInv, StampTypes
  <2>2. stored.micro \div Milli <= microsecond \div Milli /\ microsecond \div Milli \in Int
        /\ stored.micro \div Milli \in Int
    BY QuotientGrows, StampAssumption DEF StampInv, StampTypes
  <2>3. Moved' = Moved
    BY <2>1 DEF Moved
  <2> QED BY <2>1, <2>2, <2>3 DEF StampInv, StampTypes
<1>2. CASE Stamp!StoreMilli
  <2>1. /\ stored'.micro = stored.micro /\ stored'.milli = microsecond \div Milli /\ doing' = "read"
        /\ UNCHANGED <<real, system, lastSeen, microsecond, awake, wrong, sets, highest>>
    BY <1>2 DEF Stamp!StoreMilli, StampInv, StampTypes
  <2>2. stored.micro = microsecond /\ microsecond \div Milli \in Nat
    BY <1>2, QuotientGrows, StampAssumption DEF Stamp!StoreMilli, StampInv, StampTypes
  <2>3. Moved' = Moved
    BY <2>1 DEF Moved
  <2> QED BY <2>1, <2>2, <2>3 DEF StampInv, StampTypes
<1>3. CASE Stamp!GetCurrentMillisecond
  BY <1>3 DEF Stamp!GetCurrentMillisecond, StampInv, StampTypes, Moved
<1>4. CASE Stamp!Tick
  BY <1>4 DEF Stamp!Tick, StampInv, StampTypes, Moved
<1>5. ASSUME NEW n \in {-Limit, -1, 1, Limit}, Stamp!SetClock(n) PROVE StampInv'
  <2>1. /\ sets' = sets + 1 /\ n \in Int /\ Moved' = Moved + n
        /\ UNCHANGED <<real, lastSeen, microsecond, stored, doing, awake, wrong, highest>>
        /\ system' \in Int
    BY <1>5, StampAssumption DEF Stamp!SetClock, StampInv, StampTypes, Moved
  <2>2. wrong <= Gained(sets) /\ wrong <= Gained(sets + 1)
    <3>1. /\ Gained(sets + 1) = Gained(sets) + (Limit - 1) /\ Gained(sets) \in Int
      BY GainedGrows, StampAssumption DEF StampInv, StampTypes
    <3>2. CASE Moved = 0
      BY <3>1, <3>2, StampAssumption DEF StampInv, StampTypes
    <3>3. CASE Moved # 0
      <4>1. sets - 1 \in Nat /\ Gained((sets - 1) + 1) = Gained(sets - 1) + (Limit - 1) /\ Gained(sets - 1) \in Int
        BY <3>3, GainedGrows, StampAssumption DEF StampInv, StampTypes
      <4>2. Gained(sets) = Gained(sets - 1) + (Limit - 1)
        BY <4>1 DEF StampInv, StampTypes
      <4> QED BY <3>1, <3>3, <4>1, <4>2, StampAssumption DEF StampInv, StampTypes
    <3> QED BY <3>2, <3>3
  <2>3. IF Moved' = 0 THEN wrong' <= Gained(sets') ELSE sets' > 0 /\ wrong' <= Gained(sets' - 1)
    BY <2>1, <2>2 DEF StampInv, StampTypes
  <2> QED BY <2>1, <2>3 DEF StampInv, StampTypes
<1>6. CASE UNCHANGED Stamp!stampVars
  BY <1>6 DEF Stamp!stampVars, StampInv, StampTypes, Moved
<1> QED BY <1>1, <1>2, <1>3, <1>4, <1>5, <1>6, ReadClockStep DEF Stamp!Next

LEMMA StampInvRight == StampInv => Stamp!StampRight
<1> SUFFICES ASSUME StampInv PROVE Stamp!StampRight
  OBVIOUS
<1>1. wrong <= Gained(sets)
  <2>1. Gained(sets) \in Int
    BY GainedGrows, StampAssumption DEF StampInv, StampTypes
  <2>2. CASE Moved = 0
    BY <2>1, <2>2 DEF StampInv, StampTypes
  <2>3. CASE Moved # 0
    <3>1. sets - 1 \in Nat /\ Gained((sets - 1) + 1) = Gained(sets - 1) + (Limit - 1) /\ Gained(sets - 1) \in Int
      BY <2>3, GainedGrows, StampAssumption DEF StampInv, StampTypes
    <3>2. Gained(sets) = Gained(sets - 1) + (Limit - 1)
      BY <3>1 DEF StampInv, StampTypes
    <3> QED BY <2>1, <2>3, <3>1, <3>2, StampAssumption DEF StampInv, StampTypes
  <2> QED BY <2>2, <2>3
<1> QED BY <1>1 DEF StampInv, Stamp!StampRight, Gained

-----------------------------------------------------------------------------
(* The certificates (SslContexts). *)

\* The order of the names.
Differ(a, b, i) == /\ i \in 1..Len(b) /\ Len(a) >= i - 1
                   /\ \A k \in 1..(i - 1) : a[k] = b[k]
                   /\ Len(a) < i \/ a[i] < b[i]

\* The first m elements of a sequence.
LEMMA FirstOf ==
    ASSUME NEW a \in Seq(Nat), NEW m \in 0..Len(a)
    PROVE  /\ SubSeq(a, 1, m) \in Seq(Nat) /\ Len(SubSeq(a, 1, m)) = m
           /\ \A k \in 1..m : SubSeq(a, 1, m)[k] = a[k]
<1>1. /\ Len(a) \in Nat /\ m \in Nat /\ m <= Len(a) /\ m \in Int /\ 1 \in Int
      /\ \A k \in 1..m : a[k] \in Nat
  OBVIOUS
<1>2. /\ SubSeq(a, 1, m) \in Seq(Nat)
      /\ Len(SubSeq(a, 1, m)) = IF 1 <= m THEN m - 1 + 1 ELSE 0
      /\ \A k \in 1..(m - 1 + 1) : SubSeq(a, 1, m)[k] = a[1 + k - 1]
  BY <1>1, SubSeqProperties
<1>3. m - 1 + 1 = m /\ \A k \in 1..m : 1 + k - 1 = k
  BY <1>1
<1>4. Len(SubSeq(a, 1, m)) = m
  BY <1>1, <1>2
<1> QED BY <1>2, <1>3, <1>4, Zenon

LEMMA LessMeans ==
    ASSUME NEW a \in Seq(Nat), NEW b \in Seq(Nat)
    PROVE  Certs!Less(a, b) <=> \E i \in 1..Len(b) : Differ(a, b, i)
<1> SUFFICES ASSUME NEW i \in 1..Len(b), Len(a) >= i - 1
             PROVE  SubSeq(a, 1, i - 1) = SubSeq(b, 1, i - 1)
                       <=> \A k \in 1..(i - 1) : a[k] = b[k]
  BY DEF Certs!Less, Differ
<1>1. /\ Len(a) \in Nat /\ Len(b) \in Nat /\ i - 1 \in Nat
      /\ i - 1 \in 0..Len(a) /\ i - 1 \in 0..Len(b)
  OBVIOUS
<1>2. /\ SubSeq(a, 1, i - 1) \in Seq(Nat) /\ Len(SubSeq(a, 1, i - 1)) = i - 1
      /\ \A k \in 1..(i - 1) : SubSeq(a, 1, i - 1)[k] = a[k]
  BY <1>1, FirstOf, Zenon
<1>3. /\ SubSeq(b, 1, i - 1) \in Seq(Nat) /\ Len(SubSeq(b, 1, i - 1)) = i - 1
      /\ \A k \in 1..(i - 1) : SubSeq(b, 1, i - 1)[k] = b[k]
  BY <1>1, FirstOf, Zenon
<1> QED BY <1>1, <1>2, <1>3, SeqEqual

LEMMA LessIrreflexive ==
    ASSUME NEW a \in Seq(Nat) PROVE ~Certs!Less(a, a)
<1> SUFFICES ASSUME NEW i \in 1..Len(a), Differ(a, a, i) PROVE FALSE
  BY LessMeans
<1>1. Len(a) \in Nat /\ a[i] \in Nat
  OBVIOUS
<1> QED BY <1>1 DEF Differ

LEMMA LessTransitive ==
    ASSUME NEW a \in Seq(Nat), NEW b \in Seq(Nat), NEW c \in Seq(Nat),
           Certs!Less(a, b), Certs!Less(b, c)
    PROVE  Certs!Less(a, c)
<1>1. PICK i \in 1..Len(b) : Differ(a, b, i)
  BY LessMeans
<1>2. PICK j \in 1..Len(c) : Differ(b, c, j)
  BY LessMeans
<1>3. /\ Len(a) \in Nat /\ Len(b) \in Nat /\ Len(c) \in Nat /\ i \in Nat /\ j \in Nat
      /\ \A k \in 1..Len(a) : a[k] \in Nat
      /\ \A k \in 1..Len(b) : b[k] \in Nat
      /\ \A k \in 1..Len(c) : c[k] \in Nat
  OBVIOUS
<1>7. Len(a) \in Nat /\ Len(b) \in Nat /\ i \in Nat /\ j \in Nat
  BY <1>3
<1>4. CASE i < j
  <2>1. i \in 1..Len(c) /\ b[i] = c[i] /\ \A k \in 1..(i - 1) : b[k] = c[k]
    BY <1>2, <1>3, <1>4 DEF Differ
  <2>2. Differ(a, c, i)
    BY <1>1, <1>3, <2>1 DEF Differ
  <2> QED BY <2>1, <2>2, LessMeans
<1>5. CASE i = j
  <2>0. /\ Len(a) >= i - 1 /\ \A k \in 1..(i - 1) : a[k] = b[k]
        /\ Len(a) < i \/ a[i] < b[i]
        /\ i \in 1..Len(c) /\ (\A k \in 1..(i - 1) : b[k] = c[k]) /\ b[i] < c[i]
    BY <1>1, <1>2, <1>3, <1>5 DEF Differ
  <2>2. Len(a) < i \/ a[i] < c[i]
    <3>1. ASSUME ~(Len(a) < i) PROVE a[i] < c[i]
      <4>1. i \in 1..Len(a)
        BY <1>3, <3>1
      <4>2. a[i] \in Nat /\ b[i] \in Nat /\ c[i] \in Nat
        BY <1>3, <2>0, <4>1
      <4>3. a[i] < b[i] /\ b[i] < c[i]
        BY <2>0, <3>1
      <4>4. \A x, y, z \in Nat : x < y /\ y < z => x < z
        OBVIOUS
      <4> QED BY <4>2, <4>3, <4>4, Zenon
    <3> QED BY <3>1
  <2>1. Differ(a, c, i)
    BY <2>0, <2>2 DEF Differ
  <2> QED BY <1>5, <2>1, LessMeans
<1>6. CASE j < i
  <2>4. Len(a) >= i - 1 /\ i <= Len(b) /\ 1 <= j /\ \A k \in 1..(i - 1) : a[k] = b[k]
    BY <1>1, <1>3 DEF Differ
  <2>5. j <= i - 1 /\ j <= Len(b)
    BY <1>6, <1>7, <2>4
  <2>0. j \in 1..(i - 1) /\ \A k \in 1..(j - 1) : k \in 1..(i - 1)
    BY <1>7, <2>4, <2>5
  <2>7. Len(a) >= j /\ Len(a) >= j - 1
    <3>1. \A x, y, z \in Nat : x >= z - 1 /\ y <= z - 1 => x >= y /\ x >= y - 1
      OBVIOUS
    <3> QED BY <1>7, <2>4, <2>5, <3>1, Zenon
  <2>1. Len(a) >= j /\ Len(a) >= j - 1 /\ a[j] = b[j] /\ \A k \in 1..(j - 1) : a[k] = b[k]
    BY <2>0, <2>4, <2>7, Zenon
  <2>3. j \in 1..Len(c) /\ b[j] < c[j] /\ \A k \in 1..(j - 1) : b[k] = c[k]
    BY <1>2, <1>3, <2>5 DEF Differ
  <2>6. a[j] < c[j] /\ \A k \in 1..(j - 1) : a[k] = c[k]
    BY <2>1, <2>3
  <2>2. Differ(a, c, j)
    BY <2>1, <2>3, <2>6, Zenon DEF Differ
  <2> QED BY <2>2, LessMeans
<1> QED BY <1>3, <1>4, <1>5, <1>6

LEMMA LessTotal ==
    ASSUME NEW a \in Seq(Nat), NEW b \in Seq(Nat), a # b
    PROVE  Certs!Less(a, b) \/ Certs!Less(b, a)
<1> DEFINE D == {i \in Nat \ {0} : i > Len(a) \/ i > Len(b) \/ a[i] # b[i]}
<1>1. Len(a) \in Nat /\ Len(b) \in Nat
  OBVIOUS
<1>2. D \in SUBSET Nat /\ Len(a) + 1 \in D
  BY <1>1
<1>3. PICK i \in D : \A k \in D : i <= k
  BY <1>2, LeastNatural
<1>4. /\ i \in Nat /\ i > 0
      /\ \A k \in 1..(i - 1) : k <= Len(a) /\ k <= Len(b) /\ a[k] = b[k]
  BY <1>1, <1>3
<1>5. i - 1 <= Len(a) /\ i - 1 <= Len(b)
  BY <1>1, <1>4
<1>6. \A k \in 1..Len(a) : a[k] \in Nat
  OBVIOUS
<1>7. \A k \in 1..Len(b) : b[k] \in Nat
  OBVIOUS
<1>8. CASE i <= Len(a) /\ i <= Len(b)
  <2>1. a[i] # b[i] /\ a[i] \in Nat /\ b[i] \in Nat
    BY <1>1, <1>3, <1>4, <1>6, <1>7, <1>8
  <2>2. Differ(a, b, i) \/ Differ(b, a, i)
    BY <1>1, <1>4, <1>5, <1>8, <2>1 DEF Differ
  <2> QED BY <1>4, <1>8, <2>2, LessMeans
<1>9. CASE i > Len(a) /\ i <= Len(b)
  <2>1. Differ(a, b, i)
    BY <1>1, <1>4, <1>5, <1>9 DEF Differ
  <2> QED BY <1>4, <1>9, <2>1, LessMeans
<1>10. CASE i <= Len(a) /\ i > Len(b)
  <2>1. Differ(b, a, i)
    BY <1>1, <1>4, <1>5, <1>10 DEF Differ
  <2> QED BY <1>4, <1>10, <2>1, LessMeans
<1>11. CASE i > Len(a) /\ i > Len(b)
  <2>1. Len(a) = Len(b) /\ \A k \in 1..Len(a) : a[k] = b[k]
    BY <1>1, <1>4, <1>5, <1>11
  <2> QED BY <2>1, SeqEqual
<1> QED BY <1>1, <1>4, <1>8, <1>9, <1>10, <1>11

CertLoad == [name : Seq(Nat), server : BOOLEAN]

\* Load i is the newest of a name in a mode.
Latest(i, name, mode) ==
    /\ i \in 1..Len(loads) /\ loads[i] = [name |-> name, server |-> mode]
    /\ \A j \in 1..Len(loads) : loads[j] = [name |-> name, server |-> mode] => j <= i

\* The maps hold the newest context of every name that was loaded, the wildcards those of
\* the names that begin with a star, and the default host is a name that was loaded.
ContextsKept ==
    /\ loads \in Seq(CertLoad)
    /\ emptyCtx = [m \in BOOLEAN |-> emptyCtx[m]] /\ ctxs = [m \in BOOLEAN |-> ctxs[m]]
    /\ wildcards = [m \in BOOLEAN |-> wildcards[m]]
    /\ defaultVhost = [m \in BOOLEAN |-> defaultVhost[m]]
    /\ \A m \in BOOLEAN : Latest(emptyCtx[m], <<>>, m)
    /\ \A m \in BOOLEAN : DOMAIN ctxs[m] \subseteq Seq(Nat) \ {<<>>} /\ IsFiniteSet(DOMAIN ctxs[m])
    /\ \A m \in BOOLEAN : \A n \in DOMAIN ctxs[m] : Latest(ctxs[m][n], n, m)
    /\ \A i \in 1..Len(loads) : loads[i].name # <<>> => loads[i].name \in DOMAIN ctxs[loads[i].server]
    /\ \A m \in BOOLEAN : DOMAIN wildcards[m] = {Tail(n) : n \in {x \in DOMAIN ctxs[m] : Certs!Wild(x)}}
    /\ \A m \in BOOLEAN : \A n \in DOMAIN ctxs[m] :
          Certs!Wild(n) => wildcards[m][Tail(n)] = ctxs[m][n]
    /\ \A m \in BOOLEAN : defaultVhost[m] \in {<<>>} \cup DOMAIN ctxs[m]

CertsInv == ContextsKept /\ (found.ctx = -1 \/ Certs!ContextsRight)

LEMMA CertsStart == Certs!Init => CertsInv
<1> SUFFICES ASSUME Certs!Init PROVE CertsInv
  OBVIOUS
<1>1. /\ loads \in Seq(CertLoad) /\ Len(loads) = 2
      /\ loads[1] = [name |-> <<>>, server |-> FALSE] /\ loads[2] = [name |-> <<>>, server |-> TRUE]
  BY DEF Certs!Init, CertLoad
<1>2. [name |-> <<>>, server |-> FALSE] # [name |-> <<>>, server |-> TRUE]
  OBVIOUS
<1>3. /\ emptyCtx = [m \in BOOLEAN |-> IF m THEN 2 ELSE 1]
      /\ ctxs = [m \in BOOLEAN |-> <<>>] /\ wildcards = [m \in BOOLEAN |-> <<>>]
      /\ defaultVhost = [m \in BOOLEAN |-> <<>>]
      /\ found = Certs!NotAsked
  BY DEF Certs!Init
<1>4. emptyCtx[TRUE] = 2 /\ emptyCtx[FALSE] = 1
  BY <1>3
<1>5. \A m \in BOOLEAN : Latest(emptyCtx[m], <<>>, m)
  <2>1. Latest(1, <<>>, FALSE) /\ Latest(2, <<>>, TRUE)
    BY <1>1, <1>2 DEF Latest
  <2> QED BY <1>4, <2>1
<1>6. DOMAIN <<>> = {} /\ IsFiniteSet({})
  BY FS_EmptySet
<1>7. \A m \in BOOLEAN : DOMAIN ctxs[m] = {} /\ DOMAIN wildcards[m] = {} /\ defaultVhost[m] = <<>>
  BY <1>3, <1>6
<1>8. found.ctx = -1
  BY <1>3 DEF Certs!NotAsked
<1>9. \A i \in 1..Len(loads) : loads[i].name = <<>>
  BY <1>1
<1>10. ContextsKept
  BY <1>1, <1>3, <1>5, <1>6, <1>7, <1>9 DEF ContextsKept
<1> QED BY <1>8, <1>10 DEF CertsInv

LEMMA NewestIs ==
    ASSUME NEW n, NEW m, loads \in Seq(CertLoad)
    PROVE  /\ \A i : Latest(i, n, m) => Certs!Newest(n, m) = i /\ i # 0
           /\ Certs!Newest(n, m) # 0 => \E i \in 1..Len(loads) : loads[i] = [name |-> n, server |-> m]
<1> DEFINE places == {i \in 1..Len(loads) : loads[i] = [name |-> n, server |-> m]}
<1>1. Certs!Newest(n, m) = IF places = {} THEN 0 ELSE CHOOSE i \in places : \A j \in places : j <= i
  BY DEF Certs!Newest
<1>2. ASSUME NEW i, Latest(i, n, m) PROVE Certs!Newest(n, m) = i /\ i # 0
  <2>1. i \in places /\ \A j \in places : j <= i
    BY <1>2 DEF Latest
  <2>2. places \subseteq Nat \ {0}
    OBVIOUS
  <2> HIDE DEF places
  <2>3. \A k \in places : (\A j \in places : j <= k) => k = i
    BY <2>1, <2>2
  <2> QED BY <1>1, <2>1, <2>2, <2>3
<1> QED BY <1>1, <1>2

LEMMA LatestLater ==
    ASSUME loads \in Seq(CertLoad), NEW vhost \in Seq(Nat), NEW mode \in BOOLEAN,
           loads' = Append(loads, [name |-> vhost, server |-> mode])
    PROVE  /\ loads' \in Seq(CertLoad) /\ Len(loads') = Len(loads) + 1 /\ Len(loads) \in Nat
           /\ \A i \in 1..Len(loads) : loads'[i] = loads[i]
           /\ loads'[Len(loads) + 1] = [name |-> vhost, server |-> mode]
           /\ Latest(Len(loads), vhost, mode)'
           /\ \A i, n, m : Latest(i, n, m) /\ (n # vhost \/ m # mode) => Latest(i, n, m)'
<1> DEFINE l == [name |-> vhost, server |-> mode]
<1>1. l \in CertLoad
  BY DEF CertLoad
<1>2. l.name = vhost /\ l.server = mode
  OBVIOUS
<1> HIDE DEF l
<1>3. /\ loads' \in Seq(CertLoad) /\ Len(loads') = Len(loads) + 1 /\ Len(loads) \in Nat
      /\ \A i \in 1..Len(loads) : loads'[i] = loads[i]
      /\ loads'[Len(loads) + 1] = l
  <2>1. loads' = Append(loads, l)
    BY DEF l
  <2> QED BY <1>1, <2>1
<1>4. Latest(Len(loads), vhost, mode)'
  BY <1>3 DEF Latest, l
<1>5. ASSUME NEW i, NEW n, NEW m, Latest(i, n, m), n # vhost \/ m # mode PROVE Latest(i, n, m)'
  <2>1. l # [name |-> n, server |-> m]
    BY <1>2, <1>5
  <2>2. \A j \in 1..Len(loads') : j \in 1..Len(loads) \/ j = Len(loads) + 1
    BY <1>3
  <2> QED BY <1>3, <1>5, <2>1, <2>2 DEF Latest
<1> QED BY <1>3, <1>4, <1>5 DEF l

LEMMA WildTail ==
    ASSUME NEW a \in Seq(Nat), NEW b \in Seq(Nat), Certs!Wild(a), Certs!Wild(b), Tail(a) = Tail(b)
    PROVE  a = b
<1>1. Len(a) \in Nat /\ Len(b) \in Nat /\ Len(a) >= 2 /\ Len(b) >= 2 /\ a[1] = b[1]
  BY DEF Certs!Wild
<1>2. /\ Len(Tail(a)) = Len(a) - 1 /\ \A i \in 1..(Len(a) - 1) : Tail(a)[i] = a[i + 1]
      /\ Len(Tail(b)) = Len(b) - 1 /\ \A i \in 1..(Len(b) - 1) : Tail(b)[i] = b[i + 1]
  BY <1>1
<1>3. Len(a) = Len(b)
  BY <1>1, <1>2
<1>4. ASSUME NEW i \in 1..Len(a), i # 1 PROVE a[i] = b[i]
  <2>1. i - 1 \in 1..(Len(a) - 1) /\ (i - 1) + 1 = i
    BY <1>1, <1>4
  <2> QED BY <1>2, <1>3, <2>1
<1> QED BY <1>1, <1>3, <1>4, SeqEqual

LEMMA ContextsLoad ==
    ASSUME ContextsKept, NEW vhost \in CertNames, NEW mode \in BOOLEAN, NEW isDefault \in BOOLEAN,
           Certs!Load(vhost, mode, isDefault)
    PROVE  CertsInv'
<1>1. vhost \in Seq(Nat)
  BY CertsAssumption
<1>2. /\ loads' = Append(loads, [name |-> vhost, server |-> mode]) /\ found' = Certs!NotAsked
      /\ Certs!SetContext(vhost, Len(loads) + 1, mode, isDefault)
  BY DEF Certs!Load
<1>3. found'.ctx = -1
  BY <1>2 DEF Certs!NotAsked
<1>4. /\ loads' \in Seq(CertLoad) /\ Len(loads') = Len(loads) + 1 /\ Len(loads) \in Nat
      /\ \A i \in 1..Len(loads) : loads'[i] = loads[i]
      /\ loads'[Len(loads) + 1] = [name |-> vhost, server |-> mode]
      /\ Latest(Len(loads), vhost, mode)'
      /\ \A i, n, m : Latest(i, n, m) /\ (n # vhost \/ m # mode) => Latest(i, n, m)'
  BY <1>1, <1>2, LatestLater DEF ContextsKept
<1> DEFINE new == Len(loads) + 1
<1>5. \A i : i = new => Latest(i, vhost, mode)'
  BY <1>4 DEF Latest
<1> HIDE DEF new
<1>6. CASE vhost = <<>>
  <2>1. /\ emptyCtx' = [emptyCtx EXCEPT ![mode] = new]
        /\ UNCHANGED <<ctxs, wildcards, defaultVhost>>
    BY <1>2, <1>6 DEF Certs!SetContext, new
  <2>2. /\ emptyCtx' = [m \in BOOLEAN |-> emptyCtx'[m]] /\ emptyCtx'[mode] = new
        /\ \A m \in BOOLEAN : m # mode => emptyCtx'[m] = emptyCtx[m]
    BY <2>1 DEF ContextsKept
  <2>3. \A m \in BOOLEAN : Latest(emptyCtx[m], <<>>, m)'
    <3>1. SUFFICES ASSUME NEW m \in BOOLEAN PROVE Latest(emptyCtx[m], <<>>, m)'
      OBVIOUS
    <3>2. CASE m = mode
      BY <1>5, <1>6, <2>2, <3>2 DEF Latest
    <3>3. CASE m # mode
      <4>1. PICK e : e = emptyCtx[m] /\ Latest(e, <<>>, m)
        BY DEF ContextsKept
      <4>2. Latest(e, <<>>, m)'
        BY <1>4, <3>3, <4>1
      <4> QED BY <2>2, <3>3, <4>1, <4>2 DEF Latest
    <3> QED BY <3>2, <3>3
  <2>4. \A m \in BOOLEAN : \A n \in DOMAIN ctxs[m] : Latest(ctxs[m][n], n, m)'
    BY <1>4, <1>6, <2>1 DEF ContextsKept
  <2>5. \A i \in 1..Len(loads') :
           loads'[i].name # <<>> => loads'[i].name \in DOMAIN ctxs[loads'[i].server]
    <3>1. loads'[Len(loads) + 1].name = <<>>
      BY <1>4, <1>6
    <3>2. \A i \in 1..Len(loads') : i \in 1..Len(loads) \/ i = Len(loads) + 1
      BY <1>4
    <3> QED BY <1>4, <3>1, <3>2 DEF ContextsKept
  <2>6. ContextsKept'
    BY <1>4, <2>1, <2>2, <2>3, <2>4, <2>5 DEF ContextsKept
  <2> QED BY <1>3, <2>6 DEF CertsInv
<1>7. CASE vhost # <<>>
  <2>1. /\ ctxs' = [ctxs EXCEPT ![mode] = Certs!Put(@, vhost, new)]
        /\ defaultVhost' = IF isDefault THEN [defaultVhost EXCEPT ![mode] = vhost] ELSE defaultVhost
        /\ wildcards' = IF Certs!Wild(vhost)
                        THEN [wildcards EXCEPT ![mode] = Certs!Put(@, Tail(vhost), new)]
                        ELSE wildcards
        /\ UNCHANGED emptyCtx
    BY <1>2, <1>7 DEF Certs!SetContext, new
  <2>2. /\ ctxs' = [m \in BOOLEAN |-> ctxs'[m]] /\ ctxs'[mode] = Certs!Put(ctxs[mode], vhost, new)
        /\ \A m \in BOOLEAN : m # mode => ctxs'[m] = ctxs[m]
    BY <2>1 DEF ContextsKept
  <2>3. /\ defaultVhost' = [m \in BOOLEAN |-> defaultVhost'[m]]
        /\ \A m \in BOOLEAN : defaultVhost'[m] = defaultVhost[m] \/ (m = mode /\ defaultVhost'[m] = vhost)
    BY <2>1 DEF ContextsKept
  <2>4. /\ wildcards' = [m \in BOOLEAN |-> wildcards'[m]]
        /\ \A m \in BOOLEAN : m # mode => wildcards'[m] = wildcards[m]
        /\ Certs!Wild(vhost) => wildcards'[mode] = Certs!Put(wildcards[mode], Tail(vhost), new)
        /\ ~Certs!Wild(vhost) => wildcards'[mode] = wildcards[mode]
    BY <2>1 DEF ContextsKept
  <2>5. /\ DOMAIN ctxs'[mode] = DOMAIN ctxs[mode] \cup {vhost} /\ ctxs'[mode][vhost] = new
        /\ \A n \in DOMAIN ctxs[mode] \ {vhost} : ctxs'[mode][n] = ctxs[mode][n]
    BY <2>2 DEF Certs!Put
  <2>6. \A m \in BOOLEAN : Latest(emptyCtx[m], <<>>, m)'
    <3>1. SUFFICES ASSUME NEW m \in BOOLEAN PROVE Latest(emptyCtx[m], <<>>, m)'
      OBVIOUS
    <3>2. PICK e : e = emptyCtx[m] /\ Latest(e, <<>>, m)
      BY DEF ContextsKept
    <3>3. Latest(e, <<>>, m)'
      BY <1>4, <1>7, <3>2
    <3> QED BY <2>1, <3>2, <3>3 DEF Latest
  <2>7. \A m \in BOOLEAN : DOMAIN ctxs'[m] \subseteq Seq(Nat) \ {<<>>} /\ IsFiniteSet(DOMAIN ctxs'[m])
    <3>1. IsFiniteSet(DOMAIN ctxs[mode]) /\ DOMAIN ctxs[mode] \subseteq Seq(Nat) \ {<<>>}
      BY DEF ContextsKept
    <3>2. IsFiniteSet(DOMAIN ctxs'[mode])
      BY <2>5, <3>1, FS_AddElement
    <3>3. DOMAIN ctxs'[mode] \subseteq Seq(Nat) \ {<<>>}
      BY <1>1, <1>7, <2>5, <3>1
    <3> QED BY <2>2, <3>2, <3>3 DEF ContextsKept
  <2>8. ASSUME NEW m \in BOOLEAN, NEW n \in DOMAIN ctxs'[m] PROVE Latest(ctxs[m][n], n, m)'
    <3>1. CASE m = mode /\ n = vhost
      BY <1>5, <2>5, <3>1 DEF Latest
    <3>2. CASE ~(m = mode /\ n = vhost)
      <4>1. n \in DOMAIN ctxs[m] /\ ctxs'[m][n] = ctxs[m][n]
        BY <2>2, <2>5, <2>8, <3>2
      <4>2. PICK e : e = ctxs[m][n] /\ Latest(e, n, m)
        BY <4>1 DEF ContextsKept
      <4>3. Latest(e, n, m)'
        BY <1>4, <3>2, <4>2
      <4> QED BY <4>1, <4>2, <4>3 DEF Latest
    <3> QED BY <3>1, <3>2
  <2>9. \A i \in 1..Len(loads') :
           loads'[i].name # <<>> => loads'[i].name \in DOMAIN ctxs'[loads'[i].server]
    <3>1. loads'[Len(loads) + 1].name \in DOMAIN ctxs'[loads'[Len(loads) + 1].server]
      BY <1>4, <2>5
    <3>2. \A i \in 1..Len(loads') : i \in 1..Len(loads) \/ i = Len(loads) + 1
      BY <1>4
    <3>3. \A i \in 1..Len(loads) : loads[i].server \in BOOLEAN
      <4>1. loads \in Seq(CertLoad)
        BY DEF ContextsKept
      <4>2. \A i \in 1..Len(loads) : loads[i] \in CertLoad
        BY <4>1
      <4> QED BY <4>2 DEF CertLoad
    <3>4. \A m \in BOOLEAN : DOMAIN ctxs[m] \subseteq DOMAIN ctxs'[m]
      BY <2>2, <2>5
    <3> QED BY <1>4, <3>1, <3>2, <3>3, <3>4 DEF ContextsKept
  <2>10. ASSUME NEW m \in BOOLEAN
         PROVE  DOMAIN wildcards'[m] = {Tail(n) : n \in {x \in DOMAIN ctxs'[m] : Certs!Wild(x)}}
    <3>0. DOMAIN wildcards[m] = {Tail(n) : n \in {x \in DOMAIN ctxs[m] : Certs!Wild(x)}}
      BY DEF ContextsKept
    <3>1. CASE m # mode
      BY <2>2, <2>4, <3>0, <3>1
    <3>2. CASE m = mode /\ ~Certs!Wild(vhost)
      BY <2>4, <2>5, <3>0, <3>2
    <3>3. CASE m = mode /\ Certs!Wild(vhost)
      <4>1. DOMAIN wildcards'[m] = DOMAIN wildcards[m] \cup {Tail(vhost)}
        BY <2>4, <3>3 DEF Certs!Put
      <4> QED BY <2>5, <3>0, <3>3, <4>1
    <3> QED BY <3>1, <3>2, <3>3
  <2>11. ASSUME NEW m \in BOOLEAN, NEW n \in DOMAIN ctxs'[m], Certs!Wild(n)
         PROVE  wildcards'[m][Tail(n)] = ctxs'[m][n]
    <3>1. CASE m # mode
      BY <2>2, <2>4, <2>11, <3>1 DEF ContextsKept
    <3>2. CASE m = mode /\ n = vhost
      <4>1. wildcards'[mode] = Certs!Put(wildcards[mode], Tail(vhost), new)
        BY <2>4, <2>11, <3>2
      <4>2. wildcards'[mode][Tail(vhost)] = new
        BY <4>1 DEF Certs!Put
      <4> QED BY <2>5, <3>2, <4>2
    <3>3. CASE m = mode /\ n # vhost
      <4>0. /\ \A x \in DOMAIN ctxs[m] : x \in Seq(Nat)
            /\ DOMAIN wildcards[m] = {Tail(x) : x \in {y \in DOMAIN ctxs[m] : Certs!Wild(y)}}
            /\ \A x \in DOMAIN ctxs[m] : Certs!Wild(x) => wildcards[m][Tail(x)] = ctxs[m][x]
        BY DEF ContextsKept
      <4>4. n \in DOMAIN ctxs[m] /\ ctxs'[m][n] = ctxs[m][n]
        BY <2>5, <2>11, <3>3
      <4>1. /\ n \in DOMAIN ctxs[m] /\ ctxs'[m][n] = ctxs[m][n] /\ n \in Seq(Nat)
            /\ wildcards[m][Tail(n)] = ctxs[m][n] /\ Tail(n) \in DOMAIN wildcards[m]
        BY <2>11, <4>0, <4>4
      <4>2. CASE Certs!Wild(vhost)
        <5>1. Tail(n) # Tail(vhost)
          BY <1>1, <2>11, <3>3, <4>1, <4>2, WildTail
        <5>2. wildcards'[mode] = Certs!Put(wildcards[mode], Tail(vhost), new)
          BY <2>4, <4>2
        <5>3. wildcards'[mode][Tail(n)] = wildcards[mode][Tail(n)]
          BY <3>3, <4>1, <5>1, <5>2 DEF Certs!Put
        <5> QED BY <3>3, <4>1, <5>3
      <4>3. CASE ~Certs!Wild(vhost)
        BY <2>4, <3>3, <4>1, <4>3
      <4> QED BY <4>2, <4>3
    <3> QED BY <3>1, <3>2, <3>3
  <2>12. \A m \in BOOLEAN : defaultVhost'[m] \in {<<>>} \cup DOMAIN ctxs'[m]
    BY <2>2, <2>3, <2>5 DEF ContextsKept
  <2>13. emptyCtx' = [m \in BOOLEAN |-> emptyCtx'[m]]
    BY <2>1 DEF ContextsKept
  <2>14. ContextsKept'
    BY <1>4, <2>2, <2>3, <2>4, <2>6, <2>7, <2>8, <2>9, <2>10, <2>11, <2>12, <2>13 DEF ContextsKept
  <2> QED BY <1>3, <2>14 DEF CertsInv
<1> QED BY <1>6, <1>7

\* What the two maps give for a host of the server.
LEMMA ByName ==
    ASSUME ContextsKept, NEW host \in Seq(Nat), host # <<>>
    PROVE  LET ctx == Certs!GetSSLCtxL(host, TRUE) IN
           /\ host \in DOMAIN ctxs[TRUE] => Latest(ctx, host, TRUE)
           /\ host \notin DOMAIN ctxs[TRUE] => ctx = 0
BY DEF Certs!GetSSLCtxL, ContextsKept

LEMMA ByDefault ==
    ASSUME ContextsKept
    PROVE  LET ctx == Certs!GetSSLCtx(<<>>, TRUE) IN
           Latest(ctx, defaultVhost[TRUE], TRUE)
<1> DEFINE ctx == Certs!GetSSLCtxL(<<>>, TRUE)
<1>1. Latest(ctx, defaultVhost[TRUE], TRUE)
  BY DEF Certs!GetSSLCtxL, ContextsKept
<1>2. ctx # 0
  <2> HIDE DEF ctx
  <2>1. ctx \in 1..Len(loads)
    BY <1>1 DEF Latest
  <2> QED BY <2>1
<1> QED BY <1>1, <1>2 DEF Certs!GetSSLCtx

LEMMA ByWildcard ==
    ASSUME ContextsKept, NEW host \in Seq(Nat)
    PROVE  LET fit == {n \in DOMAIN ctxs[TRUE] : Certs!Wild(n) /\ Certs!EndsWith(host, Tail(n))}
               ctx == Certs!GetSSLCtxWildcards(host, TRUE)
           IN  /\ fit = {} => ctx = 0
               /\ fit # {} => \E n \in fit : Latest(ctx, n, TRUE)
<1> DEFINE W == DOMAIN wildcards[TRUE]
           names == {n \in DOMAIN ctxs[TRUE] : Certs!Wild(n) /\ Certs!EndsWith(host, Tail(n))}
           fit == {s \in W : Certs!EndsWith(host, s)}
           pick == CHOOSE s \in fit : \A r \in fit \ {s} : Certs!Less(s, r)
           ctx == Certs!GetSSLCtxWildcards(host, TRUE)
<1>1. ctx = IF fit = {} THEN 0 ELSE wildcards[TRUE][pick]
  BY DEF Certs!GetSSLCtxWildcards
<1>2. /\ DOMAIN ctxs[TRUE] \subseteq Seq(Nat) \ {<<>>} /\ IsFiniteSet(DOMAIN ctxs[TRUE])
      /\ W = {Tail(n) : n \in {x \in DOMAIN ctxs[TRUE] : Certs!Wild(x)}}
      /\ \A n \in DOMAIN ctxs[TRUE] : Certs!Wild(n) => wildcards[TRUE][Tail(n)] = ctxs[TRUE][n]
      /\ \A n \in DOMAIN ctxs[TRUE] : Latest(ctxs[TRUE][n], n, TRUE)
  BY DEF ContextsKept
<1> HIDE DEF W
<1>3. fit = {Tail(n) : n \in names}
  BY <1>2
<1>4. IsFiniteSet(fit) /\ fit \subseteq Seq(Nat)
  <2>1. IsFiniteSet(names)
    BY <1>2, FS_Subset
  <2>2. names \subseteq Seq(Nat) \ {<<>>}
    BY <1>2
  <2> HIDE DEF names, fit
  <2> DEFINE tails == [n \in names |-> Tail(n)]
  <2>3. tails \in Surjection(names, fit)
    BY <1>3 DEF Surjection
  <2>4. IsFiniteSet(fit)
    BY <2>1, <2>3, FS_Surjection
  <2>5. \A n \in names : Tail(n) \in Seq(Nat)
    BY <2>2
  <2> QED BY <1>3, <2>4, <2>5
<1>5. fit = {} <=> names = {}
  BY <1>3
<1> HIDE DEF names
<1>6. ASSUME fit # {} PROVE pick \in fit
  <2> DEFINE R == {p \in fit \X fit : Certs!Less(p[1], p[2])}
  <2> HIDE DEF fit
  <2>1. \A a \in fit : <<a, a>> \notin R
    BY <1>4, LessIrreflexive
  <2>2. \A a, b \in fit : <<a, b>> \in R <=> Certs!Less(a, b)
    OBVIOUS
  <2>3. \A a, b, c \in fit : <<a, b>> \in R /\ <<b, c>> \in R => <<a, c>> \in R
    BY <1>4, <2>2, LessTransitive
  <2> HIDE DEF R
  <2>4. PICK m \in fit : \A s \in fit : <<s, m>> \notin R
    BY <1>4, <1>6, <2>1, <2>3, LeastOf
  <2>5. \A r \in fit \ {m} : Certs!Less(m, r)
    BY <1>4, <2>2, <2>4, LessTotal
  <2> QED BY <2>5
<1>7. ASSUME fit # {} PROVE \E n \in names : Latest(ctx, n, TRUE)
  <2>1. PICK n \in names : pick = Tail(n)
    BY <1>3, <1>6, <1>7
  <2>2. ctx = wildcards[TRUE][Tail(n)]
    BY <1>1, <1>7, <2>1
  <2> QED BY <1>2, <2>1, <2>2 DEF names
<1> QED BY <1>1, <1>5, <1>7 DEF names

LEMMA ContextsFind ==
    ASSUME ContextsKept, NEW host \in Hosts, Certs!FindCertificate(host)
    PROVE  CertsInv'
<1>1. UNCHANGED <<emptyCtx, ctxs, wildcards, defaultVhost, loads>>
  BY DEF Certs!FindCertificate
<1>2. ContextsKept'
  BY <1>1 DEF ContextsKept, Latest
<1>3. host \in Seq(Nat)
  BY CertsAssumption
<1> DEFINE ctx == IF host = <<>> THEN 0 ELSE Certs!GetSSLCtx(host, TRUE)
           chosen == IF ctx # 0 THEN ctx ELSE Certs!GetSSLCtx(<<>>, TRUE)
           names == {n \in DOMAIN ctxs[TRUE] : Certs!Wild(n) /\ Certs!EndsWith(host, Tail(n))}
           covers == {i \in 1..Len(loads) : loads[i].server /\ loads[i].name # <<>>
                                             /\ Certs!Covers(loads[i].name, host)}
<1>4. found' = [host |-> host, server |-> TRUE, ctx |-> chosen]
  BY DEF Certs!FindCertificate
<1>5. /\ names = {} => Certs!GetSSLCtxWildcards(host, TRUE) = 0
      /\ names # {} => \E n \in names : Latest(Certs!GetSSLCtxWildcards(host, TRUE), n, TRUE)
  BY <1>3, ByWildcard
<1>6. Latest(Certs!GetSSLCtx(<<>>, TRUE), defaultVhost[TRUE], TRUE)
  BY ByDefault
<1>7. loads \in Seq(CertLoad) /\ \A i \in 1..Len(loads) : loads[i] \in CertLoad
  BY DEF ContextsKept
<1>8. \A i, n : Latest(i, n, TRUE) => /\ i \in 1..Len(loads) /\ i # 0 /\ loads[i].name = n
                                      /\ loads[i].server = TRUE /\ i = Certs!Newest(n, TRUE)
  <2> SUFFICES ASSUME NEW i, NEW n, Latest(i, n, TRUE)
               PROVE  /\ i \in 1..Len(loads) /\ i # 0 /\ loads[i].name = n
                      /\ loads[i].server = TRUE /\ i = Certs!Newest(n, TRUE)
    OBVIOUS
  <2>1. i \in 1..Len(loads) /\ loads[i] = [name |-> n, server |-> TRUE]
    BY DEF Latest
  <2>2. loads[i].name = n /\ loads[i].server = TRUE
    BY <2>1
  <2>3. i # 0 /\ i = Certs!Newest(n, TRUE)
    BY <1>7, NewestIs
  <2> QED BY <2>1, <2>2, <2>3
<1>9. \A i \in covers : loads[i].name \in DOMAIN ctxs[TRUE]
                        /\ (loads[i].name = host \/ loads[i].name \in names)
  <2>1. SUFFICES ASSUME NEW i \in covers
                 PROVE  loads[i].name \in DOMAIN ctxs[TRUE]
                        /\ (loads[i].name = host \/ loads[i].name \in names)
    OBVIOUS
  <2>2. loads[i].server = TRUE /\ loads[i].name # <<>>
    BY <1>7 DEF CertLoad
  <2>3. loads[i].name \in DOMAIN ctxs[TRUE]
    BY <2>2 DEF ContextsKept
  <2> QED BY <2>3 DEF Certs!Covers
<1>10. names # {} => host # <<>>
  <2>1. SUFFICES ASSUME host = <<>>, NEW n, Certs!EndsWith(host, Tail(n)) PROVE FALSE
    OBVIOUS
  <2>2. Len(host) = 0
    BY <2>1
  <2> QED BY <2>1, <2>2 DEF Certs!EndsWith
<1>11. /\ \E n : Latest(chosen, n, TRUE)
       /\ host # <<>> /\ host \in DOMAIN ctxs[TRUE] => Latest(chosen, host, TRUE)
       /\ covers # {} => chosen \in covers
       /\ covers = {} => Latest(chosen, defaultVhost[TRUE], TRUE)
  <2>1. CASE host # <<>> /\ host \in DOMAIN ctxs[TRUE]
    <3>1. Latest(Certs!GetSSLCtxL(host, TRUE), host, TRUE)
      BY <1>3, <2>1, ByName
    <3>2. chosen = Certs!GetSSLCtxL(host, TRUE)
      BY <1>8, <2>1, <3>1 DEF Certs!GetSSLCtx
    <3> HIDE DEF chosen
    <3>3. chosen \in covers
      BY <1>8, <2>1, <3>1, <3>2 DEF Certs!Covers
    <3> QED BY <2>1, <3>1, <3>2, <3>3
  <2>2. CASE host # <<>> /\ host \notin DOMAIN ctxs[TRUE] /\ names # {}
    <3>1. Certs!GetSSLCtx(host, TRUE) = Certs!GetSSLCtxWildcards(host, TRUE)
      BY <1>3, <2>2, ByName DEF Certs!GetSSLCtx
    <3>2. PICK n \in names : Latest(Certs!GetSSLCtxWildcards(host, TRUE), n, TRUE)
      BY <1>5, <2>2
    <3>3. chosen = Certs!GetSSLCtxWildcards(host, TRUE)
      BY <1>8, <2>2, <3>1, <3>2
    <3> HIDE DEF chosen
    <3>4. n # <<>>
      BY DEF ContextsKept
    <3>5. chosen \in covers
      BY <1>8, <3>2, <3>3, <3>4 DEF Certs!Covers
    <3> QED BY <2>2, <3>2, <3>3, <3>5
  <2>3. CASE names = {} /\ (host = <<>> \/ host \notin DOMAIN ctxs[TRUE])
    <3>1. ctx = 0
      BY <1>3, <1>5, <2>3, ByName DEF Certs!GetSSLCtx
    <3>2. chosen = Certs!GetSSLCtx(<<>>, TRUE)
      BY <3>1
    <3> HIDE DEF chosen
    <3>3. covers = {}
      BY <1>7, <1>9, <2>3 DEF ContextsKept
    <3> QED BY <1>6, <2>3, <3>2, <3>3
  <2> QED BY <1>10, <2>1, <2>2, <2>3
<1> HIDE DEF chosen, covers
<1>12. host # <<>> /\ Certs!Newest(host, TRUE) # 0 => host \in DOMAIN ctxs[TRUE]
  <2>1. SUFFICES ASSUME host # <<>>, NEW i \in 1..Len(loads), loads[i] = [name |-> host, server |-> TRUE]
                 PROVE  host \in DOMAIN ctxs[TRUE]
    BY <1>7, NewestIs
  <2>2. loads[i].name = host /\ loads[i].server = TRUE
    BY <2>1
  <2> QED BY <2>1, <2>2 DEF ContextsKept
<1>13. Certs!ContextsRight'
  <2>1. found'.ctx = chosen /\ found'.host = host /\ found'.server = TRUE
    BY <1>4
  <2>2. loads' = loads /\ defaultVhost' = defaultVhost
    BY <1>1
  <2>3. /\ chosen # 0 /\ loads[chosen].server = TRUE /\ chosen = Certs!Newest(loads[chosen].name, TRUE)
        /\ host # <<>> /\ Certs!Newest(host, TRUE) # 0 => loads[chosen].name = host
        /\ covers # {} => chosen \in covers
        /\ covers = {} => loads[chosen].name = defaultVhost[TRUE]
    BY <1>8, <1>11, <1>12
  <2>4. \A n : Certs!Newest(n, TRUE)' = Certs!Newest(n, TRUE)
    BY <2>2 DEF Certs!Newest
  <2> QED BY <2>1, <2>2, <2>3, <2>4 DEF Certs!ContextsRight, covers
<1> QED BY <1>2, <1>13 DEF CertsInv

LEMMA ContextsMake ==
    ASSUME ContextsKept, Certs!MakeSSL
    PROVE  CertsInv'
<1>1. /\ UNCHANGED <<emptyCtx, ctxs, wildcards, defaultVhost, loads>>
      /\ found' = [host |-> <<>>, server |-> FALSE, ctx |-> emptyCtx[FALSE]]
  BY DEF Certs!MakeSSL
<1>2. ContextsKept'
  BY <1>1 DEF ContextsKept, Latest
<1>3. PICK e : e = emptyCtx[FALSE] /\ Latest(e, <<>>, FALSE)
  BY DEF ContextsKept
<1>4. found'.ctx = e /\ found'.host = <<>> /\ found'.server = FALSE
  BY <1>1, <1>3
<1>5. loads[e] = [name |-> <<>>, server |-> FALSE]
  BY <1>3 DEF Latest
<1>6. loads[e].name = <<>> /\ loads[e].server = FALSE
  BY <1>5
<1>7. e # 0 /\ e = Certs!Newest(<<>>, FALSE)
  <2>1. loads \in Seq(CertLoad)
    BY DEF ContextsKept
  <2> QED BY <1>3, <2>1, NewestIs
<1>8. Certs!Newest(<<>>, FALSE)' = Certs!Newest(<<>>, FALSE)
  BY <1>1 DEF Certs!Newest
<1>9. Certs!ContextsRight'
  BY <1>1, <1>4, <1>6, <1>7, <1>8 DEF Certs!ContextsRight
<1> QED BY <1>2, <1>9 DEF CertsInv

LEMMA CertsStep == CertsInv /\ Certs!Next => CertsInv'
<1> SUFFICES ASSUME CertsInv, Certs!Next PROVE CertsInv'
  OBVIOUS
<1>1. ContextsKept
  BY DEF CertsInv
<1>2. ASSUME NEW vhost \in CertNames, NEW mode \in BOOLEAN, NEW isDefault \in BOOLEAN,
             Certs!Load(vhost, mode, isDefault)
      PROVE  CertsInv'
  BY <1>1, <1>2, ContextsLoad
<1>3. ASSUME NEW host \in Hosts, Certs!FindCertificate(host) PROVE CertsInv'
  BY <1>1, <1>3, ContextsFind
<1>4. CASE Certs!MakeSSL
  BY <1>1, <1>4, ContextsMake
<1> QED BY <1>2, <1>3, <1>4 DEF Certs!Next

LEMMA CertsInvRight == CertsInv => Certs!ContextsRight
BY DEF CertsInv, Certs!ContextsRight

-----------------------------------------------------------------------------
(* Files and directories (Files). *)

Paths == Disk!DirPaths \cup Disk!FilePaths
AnyName == DirNames \cup FileNames
Frames == [dir : Disk!DirPaths, must : SUBSET Paths, listed : SUBSET Paths]
Creates == [what : {"create"}, crowded : BOOLEAN, dir : Disk!DirPaths, file : FileNames \cup {Disk!NoFile},
            index : Nat \ {0}, missing : BOOLEAN]
Scans == [what : {"scan"}, crowded : BOOLEAN, path : Disk!DirPaths, enter : BOOLEAN, hidden : BOOLEAN,
          seen : SUBSET Paths, stack : Seq(Frames)]
Deletes == [what : {"delete"}, crowded : BOOLEAN, path : Paths, there : BOOLEAN, del : BOOLEAN,
            back : BOOLEAN, do : {"remove", "look"}, target : Paths \cup {<<>>}, asked : BOOLEAN,
            stack : Seq(Frames), fresh : SUBSET Paths]

Under(p, q) == Len(q) > Len(p) /\ \A i \in 1..Len(p) : p[i] = q[i]
Within(p, q) == Len(q) >= Len(p) /\ \A i \in 1..Len(p) : p[i] = q[i]

\* A directory that is looked at, or removed though nobody asked, is one above what was
\* removed; and what is in it then has come since it was found empty.
DeleteRight(d) ==
    /\ d.do = "look" => ~d.asked /\ d.stack = <<>>
    /\ d.do = "remove" => d.target # <<>>
    /\ ~d.asked => d.target \in Disk!DirPaths \cup {<<>>}
    /\ \A i \in 1..Len(d.stack) : Within(d.target, d.stack[i].dir)
    /\ ~d.asked /\ d.do = "remove" => \A p \in disk : Under(d.target, p) => p \in d.fresh

AtRight(d) == \/ d = Disk!Idle
              \/ d \in Creates /\ (d.missing => d.index <= Len(d.dir))
              \/ d \in Scans
              \/ d \in Deletes /\ DeleteRight(d)

FilesInv ==
    /\ disk \subseteq Paths
    /\ \A p \in disk : Len(p) > 1 => Disk!ParentDir(p) \in disk
    /\ at = [t \in FileThreads |-> at[t]] /\ \A t \in FileThreads : AtRight(at[t])
    /\ Disk!NoFileLost

LEMMA DirPathIs ==
    ASSUME NEW d \in Disk!DirPaths
    PROVE  d \in Seq(DirNames) /\ d \in Seq(AnyName) /\ Len(d) \in Nat /\ Len(d) >= 1 /\ Len(d) <= MaxDepth
<1>1. PICK n \in 1..MaxDepth : d \in [1..n -> DirNames]
  BY DEF Disk!DirPaths
<1>2. n \in Nat /\ d \in Seq(DirNames) /\ Len(d) = n
  BY <1>1, FilesAssumption
<1> QED BY <1>1, <1>2 DEF AnyName

LEMMA PathIs ==
    ASSUME NEW p \in Paths
    PROVE  /\ p \in Seq(AnyName) /\ Len(p) \in Nat /\ Len(p) >= 1
           /\ p # <<>> /\ (Len(p) = 1 \/ Len(p) > 1)
<1>a. ASSUME p \in Seq(AnyName), Len(p) >= 1
      PROVE  Len(p) \in Nat /\ p # <<>> /\ (Len(p) = 1 \/ Len(p) > 1)
  <2>1. PICK n \in Nat : n = Len(p)
    BY <1>a
  <2>2. n = 1 \/ n > 1
    BY <1>a, <2>1
  <2>3. p # <<>>
    BY <1>a
  <2> QED BY <2>1, <2>2, <2>3
<1> SUFFICES p \in Seq(AnyName) /\ Len(p) >= 1
  BY <1>a
<1>1. CASE p \in Disk!DirPaths
  BY <1>1, DirPathIs
<1>2. CASE p \in Disk!FilePaths
  <2>1. PICK d \in Disk!DirPaths, f \in FileNames : p = Append(d, f)
    BY <1>2 DEF Disk!FilePaths
  <2>2. d \in Seq(AnyName) /\ f \in AnyName /\ Len(d) \in Nat
    BY DirPathIs DEF AnyName
  <2> QED BY <2>1, <2>2
<1> QED BY <1>1, <1>2 DEF Paths

LEMMA PrefixIsDir ==
    ASSUME NEW d \in Disk!DirPaths, NEW k \in 1..Len(d)
    PROVE  SubSeq(d, 1, k) \in Disk!DirPaths /\ Len(SubSeq(d, 1, k)) = k
           /\ \A i \in 1..k : SubSeq(d, 1, k)[i] = d[i]
<1>1. d \in Seq(DirNames) /\ Len(d) \in Nat /\ Len(d) <= MaxDepth
  BY DirPathIs
<1>2. /\ SubSeq(d, 1, k) \in Seq(DirNames) /\ Len(SubSeq(d, 1, k)) = k
      /\ \A i \in 1..k : SubSeq(d, 1, k)[i] = d[i]
  BY <1>1
<1>3. k \in 1..MaxDepth
  BY <1>1, FilesAssumption
<1>4. SubSeq(d, 1, k) \in [1..k -> DirNames]
  BY <1>2, LenProperties
<1> QED BY <1>2, <1>3, <1>4 DEF Disk!DirPaths

\* The directory of a path.
LEMMA ParentIs ==
    ASSUME NEW p \in Paths
    PROVE  LET q == Disk!ParentDir(p) IN
           /\ Len(p) = 1 => q = <<>>
           /\ Len(p) > 1 => q \in Disk!DirPaths
           /\ Len(q) = Len(p) - 1 /\ \A i \in 1..Len(q) : q[i] = p[i]
<1> DEFINE q == Disk!ParentDir(p)
<1>1. q = SubSeq(p, 1, Len(p) - 1)
  BY DEF Disk!ParentDir, Disk!Front
<1>2. p \in Seq(AnyName) /\ Len(p) \in Nat /\ Len(p) >= 1
  BY PathIs
<1> DEFINE n == Len(p) - 1
<1>a. n \in Nat /\ n <= Len(p)
  BY <1>2
<1> HIDE DEF n
<1>b. SubSeq(p, 1, n) \in Seq(AnyName) /\ Len(SubSeq(p, 1, n)) = n
      /\ \A i \in 1..n : SubSeq(p, 1, n)[i] = p[i]
  BY <1>a, <1>2
<1>3. q \in Seq(AnyName) /\ Len(q) = Len(p) - 1 /\ \A i \in 1..(Len(p) - 1) : q[i] = p[i]
  BY <1>1, <1>b DEF n
<1>4. Len(p) = 1 => q = <<>>
  BY <1>3
<1>5. Len(p) > 1 => q \in Disk!DirPaths
  <2>1. CASE p \in Disk!DirPaths
    BY <1>1, <1>2, <2>1, PrefixIsDir
  <2>2. CASE p \in Disk!FilePaths
    <3>1. PICK d \in Disk!DirPaths, f \in FileNames : p = Append(d, f)
      BY <2>2 DEF Disk!FilePaths
    <3>2. d \in Seq(AnyName) /\ f \in AnyName /\ Len(d) \in Nat
      BY DirPathIs DEF AnyName
    <3>3. Len(p) = Len(d) + 1 /\ \A i \in 1..Len(d) : p[i] = d[i]
      BY <3>1, <3>2
    <3>4. Len(q) = Len(d) /\ \A i \in 1..Len(q) : q[i] = d[i]
      BY <1>3, <3>2, <3>3
    <3>5. q = d
      BY <1>3, <3>2, <3>4, SeqEqual
    <3> QED BY <3>5
  <2> QED BY <2>1, <2>2 DEF Paths
<1> QED BY <1>3, <1>4, <1>5

LEMMA PrefixMeans ==
    ASSUME NEW p \in Seq(AnyName), NEW q \in Seq(AnyName)
    PROVE  Disk!IsPrefix(p, q) <=> Within(p, q)
<1>1. /\ Len(p) \in Nat /\ Len(q) \in Nat
  OBVIOUS
<1>2. ASSUME Len(p) <= Len(q)
      PROVE  SubSeq(p, 1, Len(p)) = SubSeq(q, 1, Len(p)) <=> \A i \in 1..Len(p) : p[i] = q[i]
  <2>1. /\ SubSeq(p, 1, Len(p)) \in Seq(AnyName) /\ Len(SubSeq(p, 1, Len(p))) = Len(p)
        /\ \A i \in 1..Len(p) : SubSeq(p, 1, Len(p))[i] = p[i]
    BY <1>1
  <2>2. /\ SubSeq(q, 1, Len(p)) \in Seq(AnyName) /\ Len(SubSeq(q, 1, Len(p))) = Len(p)
        /\ \A i \in 1..Len(p) : SubSeq(q, 1, Len(p))[i] = q[i]
    BY <1>1, <1>2
  <2> QED BY <2>1, <2>2, SeqEqual
<1> QED BY <1>1, <1>2 DEF Disk!IsPrefix, Within

\* The children of a directory are just beneath it, and what is beneath it is beneath a child.
LEMMA ChildrenAre ==
    ASSUME disk \subseteq Paths, NEW dir \in Disk!DirPaths
    PROVE  Disk!Children(dir) = {p \in disk : Len(p) = Len(dir) + 1 /\ Within(dir, p)}
<1>1. \A p \in disk : Disk!IsPrefix(dir, p) <=> Within(dir, p)
  BY DirPathIs, PathIs, PrefixMeans
<1> QED BY <1>1 DEF Disk!Children

LEMMA NothingUnder ==
    ASSUME disk \subseteq Paths, \A p \in disk : Len(p) > 1 => Disk!ParentDir(p) \in disk,
           NEW dir \in Disk!DirPaths, Disk!Children(dir) = {}, NEW p \in disk, Under(dir, p)
    PROVE  FALSE
<1> DEFINE n == Len(dir)
           K == {k \in Nat : n < k /\ \E q \in disk : Len(q) = k /\ Within(dir, q)}
<1>1. n \in Nat /\ n >= 1 /\ Len(p) \in Nat /\ Len(p) > n
  BY DirPathIs, PathIs DEF Under
<1>2. Len(p) \in K
  BY <1>1 DEF Under, Within
<1>3. PICK k \in K : \A j \in K : k <= j
  BY <1>2, LeastNatural
<1>4. PICK q \in disk : Len(q) = k /\ Within(dir, q) /\ n < k /\ k \in Nat
  BY <1>3
<1>5. k # n + 1
  BY <1>4, ChildrenAre
<1>6. k - 1 > n /\ Len(q) > 1 /\ k - 1 \in Nat
  BY <1>1, <1>4, <1>5
<1> DEFINE r == Disk!ParentDir(q)
<1>7. r \in disk /\ Len(r) = k - 1 /\ \A i \in 1..Len(r) : r[i] = q[i]
  BY <1>4, <1>6, ParentIs
<1> HIDE DEF r
<1>8. Within(dir, r)
  BY <1>1, <1>4, <1>6, <1>7 DEF Within
<1>9. k - 1 \in K
  BY <1>6, <1>7, <1>8
<1> QED BY <1>3, <1>4, <1>9

LEMMA FilesStart == Disk!Init => FilesInv
<1> SUFFICES ASSUME Disk!Init PROVE FilesInv
  OBVIOUS
<1>1. disk \subseteq Paths /\ \A p \in disk : Len(p) > 1 => Disk!ParentDir(p) \in disk
  BY DEF Disk!Init, Paths
<1>2. at = [t \in FileThreads |-> at[t]] /\ \A t \in FileThreads : at[t] = Disk!Idle
  BY DEF Disk!Init
<1>3. lost = {}
  BY DEF Disk!Init
<1> QED BY <1>1, <1>2, <1>3 DEF FilesInv, AtRight, Disk!NoFileLost

LEMMA StaysRight ==
    ASSUME NEW d, AtRight(d), disk' \subseteq disk
    PROVE  AtRight(d)'
BY DEF AtRight, DeleteRight

LEMMA CrowdedRight ==
    ASSUME NEW d, AtRight(d), d.what # "idle"
    PROVE  AtRight([d EXCEPT !.crowded = TRUE])
<1>1. d # Disk!Idle
  BY DEF Disk!Idle
<1>2. CASE d \in Creates /\ (d.missing => d.index <= Len(d.dir))
  BY <1>2 DEF AtRight, Creates
<1>3. CASE d \in Scans
  BY <1>3 DEF AtRight, Scans
<1>4. CASE d \in Deletes /\ DeleteRight(d)
  <2> DEFINE e == [d EXCEPT !.crowded = TRUE]
  <2>1. e \in Deletes
    BY <1>4 DEF Deletes
  <2>2. e.do = d.do /\ e.asked = d.asked /\ e.stack = d.stack /\ e.target = d.target
        /\ e.fresh = d.fresh
    BY <1>4 DEF Deletes
  <2>3. DeleteRight(e)
    BY <1>4, <2>2 DEF DeleteRight
  <2> QED BY <2>1, <2>3 DEF AtRight
<1> QED BY <1>1, <1>2, <1>3, <1>4 DEF AtRight

LEMMA SortsRight ==
    /\ AtRight(Disk!Idle) /\ AtRight(Disk!Idle)'
    /\ \A d \in Creates : (d.missing => d.index <= Len(d.dir)) => AtRight(d) /\ AtRight(d)'
    /\ \A d \in Creates : ~d.missing => AtRight(d) /\ AtRight(d)'
    /\ \A d \in Scans : AtRight(d) /\ AtRight(d)'
BY DEF AtRight

\* What each sort of record is called.
LEMMA WhatIs ==
    ASSUME NEW d, AtRight(d)
    PROVE  /\ d.what = "idle" => d = Disk!Idle
           /\ d.what = "create" => d \in Creates /\ (d.missing => d.index <= Len(d.dir))
           /\ d.what = "scan" => d \in Scans
           /\ d.what = "delete" => d \in Deletes /\ DeleteRight(d)
<1>1. CASE d = Disk!Idle
  BY <1>1 DEF Disk!Idle
<1>2. CASE d \in Creates /\ (d.missing => d.index <= Len(d.dir))
  <2>1. d.what = "create"
    BY <1>2 DEF Creates
  <2> QED BY <1>2, <2>1
<1>3. CASE d \in Scans
  <2>1. d.what = "scan"
    BY <1>3 DEF Scans
  <2> QED BY <1>3, <2>1
<1>4. CASE d \in Deletes /\ DeleteRight(d)
  <2>1. d.what = "delete"
    BY <1>4 DEF Deletes
  <2> QED BY <1>4, <2>1
<1> QED BY <1>1, <1>2, <1>3, <1>4 DEF AtRight

LEMMA FreshRight ==
    ASSUME NEW d, AtRight(d), NEW p \in Paths, disk' = disk \cup {p}
    PROVE  AtRight(IF d.what = "delete" THEN [d EXCEPT !.fresh = @ \cup {p}] ELSE d)'
<1>1. CASE d.what = "delete"
  <2> DEFINE e == [d EXCEPT !.fresh = @ \cup {p}]
  <2>1. d \in Deletes /\ DeleteRight(d)
    BY <1>1, WhatIs
  <2>2. e \in Deletes
    BY <2>1 DEF Deletes
  <2>3. e.do = d.do /\ e.asked = d.asked /\ e.stack = d.stack /\ e.target = d.target
        /\ e.fresh = d.fresh \cup {p}
    BY <2>1 DEF Deletes
  <2> HIDE DEF e
  <2>4. ASSUME ~e.asked, e.do = "remove", NEW q \in disk', Under(e.target, q)
        PROVE  q \in e.fresh
    BY <2>1, <2>3, <2>4 DEF DeleteRight
  <2>5. DeleteRight(e)'
    BY <2>1, <2>3, <2>4 DEF DeleteRight
  <2>6. AtRight(e)'
    BY <2>2, <2>5 DEF AtRight
  <2> QED BY <1>1, <2>6 DEF e
<1>2. CASE d.what # "delete"
  <2>1. ~(d \in Deletes)
    BY <1>2 DEF Deletes
  <2> QED BY <1>2, <2>1 DEF AtRight
<1> QED BY <1>1, <1>2

\* A step that replaces what one thread does and adds nothing to the disk.
LEMMA ReplacedRight ==
    ASSUME FilesInv, NEW t \in FileThreads, NEW e, AtRight(e)', at' = [at EXCEPT ![t] = e],
           disk' \subseteq disk
    PROVE  (at = [u \in FileThreads |-> at[u]] /\ \A u \in FileThreads : AtRight(at[u]))'
<1>1. at = [u \in FileThreads |-> at[u]] /\ \A u \in FileThreads : AtRight(at[u])
  BY DEF FilesInv
<1>2. at' = [u \in FileThreads |-> IF u = t THEN e ELSE at[u]]
  BY <1>1
<1>3. ASSUME NEW u \in FileThreads
      PROVE  AtRight(at[u])'
  <2>1. PICK d : d = at[u]
    OBVIOUS
  <2>2. AtRight(d)'
    BY <1>1, <2>1, StaysRight
  <2>3. PICK f : f = at'[u]
    OBVIOUS
  <2>4. f = IF u = t THEN e ELSE d
    BY <1>2, <2>1, <2>3
  <2>5. AtRight(f)'
    BY <2>2, <2>4
  <2> QED BY <2>3, <2>5
<1> QED BY <1>2, <1>3

\* A step that makes a path.
LEMMA MadeRight ==
    ASSUME FilesInv, NEW t \in FileThreads, NEW e, AtRight(e)', NEW p \in Paths,
           disk' = disk \cup {p},
           at' = [u \in FileThreads |->
                     IF u = t THEN e
                     ELSE IF at[u].what = "delete" THEN [at[u] EXCEPT !.fresh = @ \cup {p}]
                     ELSE at[u]]
    PROVE  (at = [u \in FileThreads |-> at[u]] /\ \A u \in FileThreads : AtRight(at[u]))'
<1>1. at = [u \in FileThreads |-> at[u]] /\ \A u \in FileThreads : AtRight(at[u])
  BY DEF FilesInv
<1>3. ASSUME NEW u \in FileThreads
      PROVE  AtRight(at[u])'
  <2>1. PICK d : d = at[u]
    OBVIOUS
  <2>2. PICK g : g = IF d.what = "delete" THEN [d EXCEPT !.fresh = @ \cup {p}] ELSE d
    OBVIOUS
  <2>3. AtRight(d)
    BY <1>1, <2>1
  <2>4. AtRight(g)'
    BY <2>2, <2>3, FreshRight
  <2>5. PICK f : f = at'[u]
    OBVIOUS
  <2>6. f = IF u = t THEN e ELSE g
    BY <2>1, <2>2, <2>5
  <2>7. AtRight(f)'
    BY <2>4, <2>6
  <2> QED BY <2>5, <2>7
<1> QED BY <1>3

LEMMA QuietFilesStep ==
    ASSUME FilesInv, NEW t \in FileThreads, NEW e, AtRight(e)', at' = [at EXCEPT ![t] = e],
           disk' = disk, lost' = lost
    PROVE  FilesInv'
<1>1. (at = [u \in FileThreads |-> at[u]] /\ \A u \in FileThreads : AtRight(at[u]))'
  BY ReplacedRight
<1>2. (disk \subseteq Paths /\ \A p \in disk : Len(p) > 1 => Disk!ParentDir(p) \in disk)'
  BY DEF FilesInv, Paths
<1>3. Disk!NoFileLost'
  BY DEF FilesInv, Disk!NoFileLost
<1> QED BY <1>1, <1>2, <1>3 DEF FilesInv

\* Something goes that is no directory above what is left.
LEMMA RemovedStep ==
    ASSUME FilesInv, NEW t \in FileThreads, NEW e, AtRight(e)', at' = [at EXCEPT ![t] = e],
           NEW q, disk' = disk \ {q}, Disk!NoFileLost',
           \A p \in disk \ {q} : Len(p) > 1 => Disk!ParentDir(p) # q
    PROVE  FilesInv'
<1>1. (at = [u \in FileThreads |-> at[u]] /\ \A u \in FileThreads : AtRight(at[u]))'
  BY ReplacedRight
<1>2. disk' \subseteq Paths
  BY DEF FilesInv
<1>3. ASSUME NEW p \in disk', Len(p) > 1
      PROVE  Disk!ParentDir(p) \in disk'
  BY <1>3 DEF FilesInv
<1>4. (disk \subseteq Paths /\ \A p \in disk : Len(p) > 1 => Disk!ParentDir(p) \in disk)'
  BY <1>2, <1>3 DEF Paths, Disk!ParentDir, Disk!DirPaths, Disk!FilePaths
<1> QED BY <1>1, <1>4 DEF FilesInv

LEMMA MadePathStep ==
    ASSUME FilesInv, NEW t \in FileThreads, NEW e, AtRight(e)', NEW p \in Paths,
           Len(p) > 1 => Disk!ParentDir(p) \in disk, lost' = lost, Disk!Make(t, p, e)
    PROVE  FilesInv'
<1>a. disk' = disk \cup {p}
  BY DEF Disk!Make
<1>b. at' = [u \in FileThreads |->
                 IF u = t THEN e
                 ELSE IF at[u].what = "delete" THEN [at[u] EXCEPT !.fresh = @ \cup {p}]
                 ELSE at[u]]
  BY DEF Disk!Make
<1>1. (at = [u \in FileThreads |-> at[u]] /\ \A u \in FileThreads : AtRight(at[u]))'
  BY <1>a, <1>b, MadeRight, Zenon
<1>2. disk' \subseteq Paths
  BY <1>a DEF FilesInv
<1>3. ASSUME NEW q \in disk', Len(q) > 1
      PROVE  Disk!ParentDir(q) \in disk'
  BY <1>3, <1>a DEF FilesInv
<1>4. (disk \subseteq Paths /\ \A q \in disk : Len(q) > 1 => Disk!ParentDir(q) \in disk)'
  BY <1>2, <1>3 DEF Paths, Disk!ParentDir, Disk!DirPaths, Disk!FilePaths
<1>5. Disk!NoFileLost'
  BY DEF FilesInv, Disk!NoFileLost
<1> QED BY <1>1, <1>4, <1>5 DEF FilesInv

LEMMA CallFilesStep ==
    ASSUME FilesInv, NEW t \in FileThreads, NEW r,
           \A b \in BOOLEAN : AtRight([r EXCEPT !.crowded = b]), Disk!Call(t, r)
    PROVE  FilesInv'
<1> DEFINE others == {u \in FileThreads \ {t} : at[u].what # "idle"}
<1>1. disk' = disk /\ lost' = lost
  BY DEF Disk!Call
<1>2. at' = [u \in FileThreads |->
                 IF u = t THEN [r EXCEPT !.crowded = (others # {})]
                 ELSE IF u \in others THEN [at[u] EXCEPT !.crowded = TRUE] ELSE at[u]]
  BY DEF Disk!Call
<1>3. PICK b \in BOOLEAN : b = (others # {})
  OBVIOUS
<1>4. PICK e : e = [r EXCEPT !.crowded = b]
  OBVIOUS
<1>5. AtRight(e)
  BY <1>4
<1>6. ASSUME NEW u \in FileThreads
      PROVE  AtRight(at[u])'
  <2>1. PICK d : d = at[u]
    OBVIOUS
  <2>2. PICK f : f = at'[u]
    OBVIOUS
  <2>3. AtRight(d)
    BY <2>1 DEF FilesInv
  <2>4. AtRight(f)
    <3>1. CASE u = t
      <4>1. f = e
        BY <1>2, <1>3, <1>4, <2>2, <3>1
      <4> QED BY <4>1, <1>5
    <3>2. CASE u # t /\ d.what # "idle"
      <4>1. f = [d EXCEPT !.crowded = TRUE]
        BY <1>2, <2>1, <2>2, <3>2
      <4> QED BY <4>1, <2>3, <3>2, CrowdedRight
    <3>3. CASE u # t /\ d.what = "idle"
      <4>1. f = d
        BY <1>2, <2>1, <2>2, <3>3
      <4> QED BY <4>1, <2>3
    <3> QED BY <3>1, <3>2, <3>3
  <2>5. AtRight(f)'
    BY <1>1, <2>4, StaysRight
  <2> QED BY <2>2, <2>5
<1>7. at' = [u \in FileThreads |-> at'[u]]
  BY <1>2
<1>8. (disk \subseteq Paths /\ \A p \in disk : Len(p) > 1 => Disk!ParentDir(p) \in disk)'
  BY <1>1 DEF FilesInv, Paths
<1>9. Disk!NoFileLost'
  BY <1>1 DEF FilesInv, Disk!NoFileLost
<1> QED BY <1>6, <1>7, <1>8, <1>9 DEF FilesInv

LEMMA FrameIs ==
    ASSUME disk \subseteq Paths, NEW dir \in Disk!DirPaths
    PROVE  Disk!Frame(dir) \in Frames /\ Disk!Frame(dir).dir = dir
BY DEF Disk!Frame, Frames, Disk!Children

\* The directory being read is the last of the stack; marking an entry as read changes
\* no directory of it.
LEMMA TopIs ==
    ASSUME NEW s \in Seq(Frames), s # <<>>
    PROVE  /\ Disk!Last(s) \in Frames /\ Len(s) \in Nat /\ Len(s) >= 1
           /\ Disk!Last(s) = s[Len(s)]
           /\ Disk!Front(s) \in Seq(Frames) /\ Len(Disk!Front(s)) = Len(s) - 1
           /\ \A i \in 1..(Len(s) - 1) : Disk!Front(s)[i] = s[i]
<1> DEFINE n == Len(s) - 1
<1>1. Len(s) \in Nat /\ Len(s) >= 1 /\ n \in Nat /\ n <= Len(s)
  BY EmptySeq
<1>2. Disk!Last(s) = s[Len(s)] /\ s[Len(s)] \in Frames
  BY <1>1 DEF Disk!Last
<1> HIDE DEF n
<1>3. /\ SubSeq(s, 1, n) \in Seq(Frames) /\ Len(SubSeq(s, 1, n)) = n
      /\ \A i \in 1..n : SubSeq(s, 1, n)[i] = s[i]
  BY <1>1
<1> QED BY <1>1, <1>2, <1>3 DEF n, Disk!Front

LEMMA MarkedIs ==
    ASSUME NEW s \in Seq(Frames), s # <<>>, NEW f \in Frames, f.dir = Disk!Last(s).dir
    PROVE  LET r == Disk!Front(s) \o <<f>> IN
           /\ r \in Seq(Frames) /\ r # <<>> /\ Len(r) = Len(s)
           /\ \A i \in 1..Len(s) : r[i].dir = s[i].dir
<1> DEFINE r == Disk!Front(s) \o <<f>>
<1>1. /\ r \in Seq(Frames) /\ Len(r) = Len(s) /\ r[Len(s)] = f
      /\ \A i \in 1..(Len(s) - 1) : r[i] = s[i]
  BY TopIs
<1> HIDE DEF r
<1>2. ASSUME NEW i \in 1..Len(s) PROVE r[i].dir = s[i].dir
  <2>1. CASE i = Len(s)
    <3>1. r[i] = f /\ f.dir = s[i].dir
      BY <1>1, <2>1, TopIs
    <3> QED BY <3>1
  <2>2. CASE i # Len(s)
    <3>1. Len(s) \in Nat /\ i \in 1..(Len(s) - 1)
      BY <2>2, TopIs
    <3> QED BY <1>1, <3>1
  <2> QED BY <2>1, <2>2
<1>3. r # <<>>
  BY <1>1, TopIs
<1> QED BY <1>1, <1>2, <1>3 DEF r

LEMMA WithinTransitive ==
    ASSUME NEW p \in Seq(AnyName), NEW q \in Seq(AnyName), NEW r \in Seq(AnyName), Within(p, q), Within(q, r)
    PROVE  Within(p, r)
BY DEF Within

LEMMA ParentOfFile ==
    ASSUME NEW d \in Disk!DirPaths, NEW f \in FileNames
    PROVE  Append(d, f) \in Paths /\ Disk!ParentDir(Append(d, f)) = d /\ d # <<>>
<1>1. d \in Seq(AnyName) /\ Len(d) \in Nat /\ Len(d) >= 1 /\ f \in AnyName
  BY DirPathIs DEF AnyName
<1>2. Append(d, f) \in Paths
  BY DEF Paths, Disk!FilePaths
<1> DEFINE p == Append(d, f)
<1>3. Len(p) = Len(d) + 1 /\ \A i \in 1..Len(d) : p[i] = d[i]
  BY <1>1
<1> HIDE DEF p
<1>4. PICK q : q = Disk!ParentDir(p)
  OBVIOUS
<1>5. Len(p) > 1 /\ p \in Paths
  BY <1>1, <1>2, <1>3 DEF p
<1>6. q \in Disk!DirPaths /\ Len(q) = Len(p) - 1 /\ \A i \in 1..Len(q) : q[i] = p[i]
  BY <1>4, <1>5, ParentIs
<1>7. q \in Seq(AnyName)
  BY <1>6, DirPathIs
<1>8. q = d
  BY <1>1, <1>3, <1>6, <1>7, SeqEqual
<1> QED BY <1>1, <1>2, <1>4, <1>8 DEF p

\* A delete_file_l ends: the call returns, or the directory above is looked at.
LEMMA ReturnedIs ==
    ASSUME NEW t \in FileThreads, NEW d \in Deletes, DeleteRight(d), d.do = "remove", NEW ok,
           Disk!Returned(t, d, ok)
    PROVE  \E e : AtRight(e)' /\ at' = [at EXCEPT ![t] = e]
<1> DEFINE look == [d EXCEPT !.do = "look", !.target = Disk!ParentDir(@), !.asked = FALSE,
                             !.stack = <<>>]
<1>1. at' = [at EXCEPT ![t] = Disk!Idle] \/ at' = [at EXCEPT ![t] = look]
  BY DEF Disk!Returned, Disk!Return, Disk!Goto
<1>2. AtRight(Disk!Idle)'
  BY DEF AtRight
<1>3. AtRight(look)'
  <2>1. d.target \in Paths
    BY DEF Deletes, DeleteRight
  <2>2. PICK q : q = Disk!ParentDir(d.target)
    OBVIOUS
  <2>3. q \in Disk!DirPaths \cup {<<>>}
    <3>1. CASE Len(d.target) = 1
      <4>1. q = <<>>
        BY <2>1, <2>2, <3>1, ParentIs
      <4> QED BY <4>1
    <3>2. CASE Len(d.target) > 1
      <4>1. q \in Disk!DirPaths
        BY <2>1, <2>2, <3>2, ParentIs
      <4> QED BY <4>1
    <3>3. Len(d.target) = 1 \/ Len(d.target) > 1
      BY <2>1, PathIs
    <3> QED BY <3>1, <3>2, <3>3
  <2>4. PICK e : e = look
    OBVIOUS
  <2>5. e = [d EXCEPT !.do = "look", !.target = q, !.asked = FALSE, !.stack = <<>>]
    BY <2>2, <2>4 DEF Deletes
  <2>a. q \in Paths \cup {<<>>} /\ <<>> \in Seq(Frames)
    BY <2>3 DEF Paths
  <2>6. e \in Deletes
    BY <2>a, <2>5 DEF Deletes
  <2>7. e.do = "look" /\ ~e.asked /\ e.stack = <<>> /\ e.target = q
    BY <2>5 DEF Deletes
  <2>8. DeleteRight(e)'
    BY <2>3, <2>7 DEF DeleteRight
  <2> QED BY <2>4, <2>6, <2>8 DEF AtRight
<1> QED BY <1>1, <1>2, <1>3

LEMMA BeginFilesStep ==
    ASSUME FilesInv, NEW t \in FileThreads,
           \/ \E dir \in Disk!DirPaths, file \in FileNames \cup {Disk!NoFile} : Disk!Create(t, dir, file)
           \/ \E file \in Disk!DirPaths \cup Disk!FilePaths, del, back \in BOOLEAN :
                 Disk!DeleteFile(t, file, del, back)
           \/ \E dir \in Disk!DirPaths, enter, hidden \in BOOLEAN : Disk!ScanDir(t, dir, enter, hidden)
    PROVE  FilesInv'
<1>1. ASSUME NEW dir \in Disk!DirPaths, NEW file \in FileNames \cup {Disk!NoFile}, Disk!Create(t, dir, file)
      PROVE  FilesInv'
  <2> DEFINE r == [what |-> "create", crowded |-> FALSE, dir |-> dir, file |-> file, index |-> 1,
                   missing |-> FALSE]
  <2>1. \A b \in BOOLEAN : AtRight([r EXCEPT !.crowded = b])
    <3>1. ASSUME NEW b \in BOOLEAN
          PROVE  [r EXCEPT !.crowded = b] \in Creates /\ ~[r EXCEPT !.crowded = b].missing
      <4>1. PICK e : e = [r EXCEPT !.crowded = b]
        OBVIOUS
      <4>2. e = [what |-> "create", crowded |-> b, dir |-> dir, file |-> file, index |-> 1,
                 missing |-> FALSE]
        BY <4>1
      <4>3. 1 \in Nat \ {0} /\ "create" \in {"create"} /\ b \in BOOLEAN /\ FALSE \in BOOLEAN
        OBVIOUS
      <4>4. e \in Creates
        BY <4>2, <4>3 DEF Creates
      <4>5. ~e.missing
        BY <4>2
      <4> HIDE DEF r
      <4> QED BY <4>1, <4>4, <4>5
    <3> HIDE DEF r
    <3> QED BY <3>1, SortsRight
  <2>2. Disk!Call(t, r)
    BY <1>1 DEF Disk!Create
  <2> HIDE DEF r
  <2> QED BY <2>1, <2>2, CallFilesStep
<1>2. ASSUME NEW p \in Disk!DirPaths \cup Disk!FilePaths, NEW del \in BOOLEAN, NEW back \in BOOLEAN,
             Disk!DeleteFile(t, p, del, back)
      PROVE  FilesInv'
  <2>1. PICK there \in BOOLEAN : there = Disk!Exists(p)
    BY DEF Disk!Exists
  <2> DEFINE r == [what |-> "delete", crowded |-> FALSE, path |-> p, there |-> there,
                   del |-> del, back |-> back, do |-> "remove", target |-> p, asked |-> TRUE,
                   stack |-> <<>>, fresh |-> {}]
  <2>2. Disk!Call(t, r)
    BY <1>2, <2>1 DEF Disk!DeleteFile
  <2>3. p \in Paths /\ p # <<>>
    <3>1. p \in Paths
      BY DEF Paths
    <3> HIDE DEF r
    <3> QED BY <3>1, PathIs
  <2>4. ASSUME NEW b \in BOOLEAN
        PROVE  AtRight([r EXCEPT !.crowded = b])
    <3>1. PICK e : e = [r EXCEPT !.crowded = b]
      OBVIOUS
    <3>2. e = [what |-> "delete", crowded |-> b, path |-> p, there |-> there,
               del |-> del, back |-> back, do |-> "remove", target |-> p, asked |-> TRUE,
               stack |-> <<>>, fresh |-> {}]
      BY <3>1
    <3>3. e \in Deletes
      <4>1. <<>> \in Seq(Frames) /\ {} \in SUBSET Paths
        OBVIOUS
      <4> QED BY <2>3, <3>2, <4>1 DEF Deletes
    <3>4. e.do = "remove" /\ e.asked /\ e.stack = <<>> /\ e.target = p
      BY <3>2
    <3>5. DeleteRight(e)
      <4>1. \A i \in 1..Len(<<>>) : FALSE
        OBVIOUS
      <4> QED BY <2>3, <3>4, <4>1 DEF DeleteRight
    <3> QED BY <3>1, <3>3, <3>5 DEF AtRight
  <2> HIDE DEF r
  <2> QED BY <2>2, <2>4, CallFilesStep
<1>3. ASSUME NEW dir \in Disk!DirPaths, NEW enter \in BOOLEAN, NEW hidden \in BOOLEAN,
             Disk!ScanDir(t, dir, enter, hidden)
      PROVE  FilesInv'
  <2>1. PICK s \in Seq(Frames) : s = IF Disk!Exists(dir) THEN <<Disk!Frame(dir)>> ELSE <<>>
    <3>1. Disk!Frame(dir) \in Frames
      BY FrameIs DEF FilesInv
    <3>2. <<Disk!Frame(dir)>> \in Seq(Frames) /\ <<>> \in Seq(Frames)
      BY <3>1
    <3> QED BY <3>2
  <2> DEFINE r == [what |-> "scan", crowded |-> FALSE, path |-> dir, enter |-> enter,
                   hidden |-> hidden, seen |-> {}, stack |-> s]
  <2>2. Disk!Call(t, r)
    BY <1>3, <2>1 DEF Disk!ScanDir
  <2>3. \A b \in BOOLEAN : AtRight([r EXCEPT !.crowded = b])
    <3>1. \A b \in BOOLEAN : [r EXCEPT !.crowded = b] \in Scans
      BY DEF Scans
    <3> HIDE DEF r
    <3> QED BY <3>1, SortsRight
  <2> HIDE DEF r
  <2> QED BY <2>2, <2>3, CallFilesStep
<1> QED BY <1>1, <1>2, <1>3

LEMMA CreateFilesStep ==
    ASSUME FilesInv, NEW t \in FileThreads, Disk!Access(t) \/ Disk!Mkdir(t) \/ Disk!Fopen(t)
    PROVE  FilesInv'
<1>1. PICK c : c = at[t]
  OBVIOUS
<1>2. c.what = "create"
  BY <1>1 DEF Disk!Access, Disk!Mkdir, Disk!Fopen
<1>3. c \in Creates /\ (c.missing => c.index <= Len(c.dir))
  BY <1>1, <1>2, WhatIs DEF FilesInv
<1>4. AtRight(Disk!Idle)'
  BY DEF AtRight
<1>5. c.dir \in Disk!DirPaths /\ c.index \in Nat \ {0} /\ Len(c.dir) \in Nat
  BY <1>3, DirPathIs DEF Creates
<1>c. c.index \in Nat /\ c.index + 1 \in Nat \ {0}
  BY <1>3 DEF Creates
<1>6. CASE Disk!Access(t)
  <2>1. PICK e : e = IF Disk!Exists(SubSeq(c.dir, 1, c.index)) THEN [c EXCEPT !.index = @ + 1]
                     ELSE [c EXCEPT !.missing = TRUE]
    OBVIOUS
  <2>2. /\ ~c.missing /\ c.index <= Len(c.dir)
        /\ at' = [at EXCEPT ![t] = e] /\ disk' = disk /\ lost' = lost
    BY <1>1, <1>6, <2>1 DEF Disk!Access, Disk!Goto
  <2>3. e \in Creates /\ (e.missing => e.index <= Len(e.dir))
    <3>1. CASE e = [c EXCEPT !.index = @ + 1]
      <4>1. e \in Creates /\ ~e.missing
        BY <1>3, <2>2, <3>1, <1>c DEF Creates
      <4> QED BY <4>1
    <3>2. CASE e = [c EXCEPT !.missing = TRUE]
      <4>1. e \in Creates /\ e.index = c.index /\ e.dir = c.dir
        BY <1>3, <3>2 DEF Creates
      <4> QED BY <2>2, <4>1
    <3> QED BY <2>1, <3>1, <3>2
  <2>4. AtRight(e)'
    BY <2>3 DEF AtRight
  <2> QED BY <2>2, <2>4, QuietFilesStep
<1>7. CASE Disk!Mkdir(t)
  <2>1. PICK d : d = SubSeq(c.dir, 1, c.index)
    OBVIOUS
  <2>2. c.missing /\ lost' = lost
    BY <1>1, <1>7 DEF Disk!Mkdir
  <2>3. d \in Disk!DirPaths /\ d \in Paths
    <3>1. c.index \in 1..Len(c.dir)
      BY <1>3, <1>5, <2>2
    <3>2. d \in Disk!DirPaths
      BY <1>5, <2>1, <3>1, PrefixIsDir
    <3> QED BY <3>2 DEF Paths
  <2>4. CASE Disk!Exists(Disk!ParentDir(d)) /\ ~Disk!Exists(d)
    <3>1. PICK e : e = [c EXCEPT !.missing = FALSE, !.index = @ + 1]
      OBVIOUS
    <3>2. Disk!Make(t, d, e)
      BY <1>1, <1>7, <2>1, <2>4, <3>1 DEF Disk!Mkdir
    <3>3. e \in Creates /\ ~e.missing
      BY <1>3, <1>c, <3>1 DEF Creates
    <3>4. AtRight(e)'
      BY <3>3 DEF AtRight
    <3>5. Len(d) > 1 => Disk!ParentDir(d) \in disk
      <4>1. Len(d) > 1 => Disk!ParentDir(d) \in Disk!DirPaths
        BY <2>3, ParentIs
      <4>2. Len(d) > 1 => Disk!ParentDir(d) # <<>>
        BY <4>1, DirPathIs
      <4> QED BY <2>4, <4>2 DEF Disk!Exists
    <3> QED BY <2>2, <2>3, <3>2, <3>4, <3>5, MadePathStep
  <2>5. CASE ~(Disk!Exists(Disk!ParentDir(d)) /\ ~Disk!Exists(d))
    <3>1. at' = [at EXCEPT ![t] = Disk!Idle] /\ disk' = disk
      BY <1>1, <1>7, <2>1, <2>5 DEF Disk!Mkdir, Disk!Return
    <3> QED BY <1>4, <2>2, <3>1, QuietFilesStep
  <2> QED BY <2>4, <2>5
<1>8. CASE Disk!Fopen(t)
  <2>1. lost' = lost
    BY <1>8 DEF Disk!Fopen
  <2>2. CASE at' = [at EXCEPT ![t] = Disk!Idle] /\ disk' = disk
    BY <1>4, <2>1, <2>2, QuietFilesStep
  <2>3. CASE c.file # Disk!NoFile /\ Disk!Exists(c.dir) /\ Disk!Make(t, Append(c.dir, c.file), Disk!Idle)
    <3>1. c.file \in FileNames
      BY <1>3, <2>3 DEF Creates
    <3>2. PICK p : p = Append(c.dir, c.file)
      OBVIOUS
    <3>3. p \in Paths /\ Disk!ParentDir(p) = c.dir /\ c.dir # <<>>
      BY <1>5, <3>1, <3>2, ParentOfFile
    <3>4. c.dir \in disk
      BY <2>3, <3>3 DEF Disk!Exists
    <3> QED BY <1>4, <2>1, <2>3, <3>2, <3>3, <3>4, MadePathStep
  <2>4. \/ at' = [at EXCEPT ![t] = Disk!Idle] /\ disk' = disk
        \/ c.file # Disk!NoFile /\ Disk!Exists(c.dir) /\ Disk!Make(t, Append(c.dir, c.file), Disk!Idle)
    BY <1>1, <1>8 DEF Disk!Fopen, Disk!Return
  <2> QED BY <2>2, <2>3, <2>4
<1> QED BY <1>6, <1>7, <1>8

LEMMA LookStep ==
    ASSUME FilesInv, NEW t \in FileThreads, Disk!Look(t)
    PROVE  FilesInv'
<1>1. PICK d : d = at[t]
  OBVIOUS
<1>2. d.what = "delete" /\ d.do = "look" /\ disk' = disk /\ lost' = lost
  BY <1>1 DEF Disk!Look
<1>3. d \in Deletes /\ DeleteRight(d)
  BY <1>1, <1>2, WhatIs DEF FilesInv
<1>4. CASE d.target \notin disk \/ Disk!Children(d.target) # {}
  <2>1. at' = [at EXCEPT ![t] = Disk!Idle]
    BY <1>1, <1>4 DEF Disk!Look, Disk!Return
  <2>2. AtRight(Disk!Idle)'
    BY DEF AtRight
  <2> QED BY <1>2, <2>1, <2>2, QuietFilesStep
<1>5. CASE d.target \in disk /\ Disk!Children(d.target) = {}
  <2>1. PICK e : e = [d EXCEPT !.do = "remove", !.fresh = {}]
    OBVIOUS
  <2>2. at' = [at EXCEPT ![t] = e]
    BY <1>1, <1>5, <2>1 DEF Disk!Look, Disk!Goto
  <2>3. e \in Deletes /\ e.target = d.target /\ e.do = "remove" /\ e.stack = d.stack /\ e.asked = d.asked
    BY <1>3, <2>1 DEF Deletes
  <2>4. d.target \in Disk!DirPaths /\ d.target # <<>> /\ ~d.asked /\ d.stack = <<>>
    <3>1. d.target \in Paths
      BY <1>5 DEF FilesInv
    <3>2. d.target # <<>>
      BY <3>1, PathIs
    <3> QED BY <1>2, <1>3, <3>2 DEF DeleteRight
  <2>5. \A p \in disk : ~Under(d.target, p)
    BY <1>5, <2>4, NothingUnder DEF FilesInv
  <2>6. DeleteRight(e)'
    BY <1>2, <2>3, <2>4, <2>5 DEF DeleteRight
  <2>7. AtRight(e)'
    BY <2>3, <2>6 DEF AtRight
  <2> QED BY <1>2, <2>2, <2>7, QuietFilesStep
<1> QED BY <1>4, <1>5

LEMMA ScanStep ==
    ASSUME FilesInv, NEW t \in FileThreads, Disk!ScanEntry(t) \/ Disk!ScanEnds(t)
    PROVE  FilesInv'
<1>1. PICK s : s = at[t]
  OBVIOUS
<1>2. s.what = "scan" /\ disk' = disk /\ lost' = lost
  BY <1>1 DEF Disk!ScanEntry, Disk!ScanEnds
<1>3. s \in Scans
  BY <1>1, <1>2, WhatIs DEF FilesInv
<1>4. s.stack \in Seq(Frames) /\ s.seen \in SUBSET Paths
  BY <1>3 DEF Scans
<1>5. CASE Disk!ScanEntry(t)
  <2>1. PICK top : top = Disk!Last(s.stack)
    OBVIOUS
  <2>2. s.stack # <<>>
    BY <1>1, <1>5 DEF Disk!ScanEntry
  <2>3. PICK p \in Disk!Children(top.dir) \ top.listed :
           LET seen == Disk!Front(s.stack) \o <<[top EXCEPT !.listed = @ \cup {p}]>> IN
           \/ Disk!Goto(t, [s EXCEPT !.stack = seen])
           \/ Disk!Goto(t, [s EXCEPT !.seen = @ \cup {p},
                                     !.stack = IF Disk!IsDir(p) /\ s.enter
                                               THEN Append(seen, Disk!Frame(p)) ELSE seen])
    BY <1>1, <1>5, <2>1 DEF Disk!ScanEntry
  <2>4. PICK m : m = [top EXCEPT !.listed = @ \cup {p}]
    OBVIOUS
  <2>5. top \in Frames
    BY <1>4, <2>1, <2>2, TopIs
  <2>6. p \in Paths
    BY DEF Disk!Children, FilesInv
  <2>7. m \in Frames /\ m.dir = top.dir
    BY <2>4, <2>5, <2>6 DEF Frames
  <2>8. PICK seen : seen = Disk!Front(s.stack) \o <<m>>
    OBVIOUS
  <2>9. seen \in Seq(Frames)
    BY <1>4, <2>1, <2>2, <2>7, <2>8, MarkedIs
  <2>10. PICK longer \in Seq(Frames) :
             longer = IF Disk!IsDir(p) /\ s.enter THEN Append(seen, Disk!Frame(p)) ELSE seen
    <3>1. CASE Disk!IsDir(p) /\ s.enter
      <4>1. Disk!Frame(p) \in Frames
        BY <3>1, FrameIs DEF Disk!IsDir, FilesInv
      <4>2. Append(seen, Disk!Frame(p)) \in Seq(Frames)
        BY <2>9, <4>1
      <4> QED BY <3>1, <4>2
    <3>2. CASE ~(Disk!IsDir(p) /\ s.enter)
      BY <2>9, <3>2
    <3> QED BY <3>1, <3>2
  <2>11. PICK e : e \in {[s EXCEPT !.stack = seen], [s EXCEPT !.seen = @ \cup {p}, !.stack = longer]}
                  /\ at' = [at EXCEPT ![t] = e]
    BY <2>3, <2>4, <2>8, <2>10 DEF Disk!Goto
  <2>12. e \in Scans
    <3>1. CASE e = [s EXCEPT !.stack = seen]
      BY <1>3, <2>9, <3>1 DEF Scans
    <3>2. CASE e = [s EXCEPT !.seen = @ \cup {p}, !.stack = longer]
      <4>1. s.seen \cup {p} \in SUBSET Paths
        BY <1>4, <2>6
      <4> QED BY <1>3, <3>2, <4>1 DEF Scans
    <3> QED BY <2>11, <3>1, <3>2
  <2>13. AtRight(e)'
    BY <2>12, SortsRight
  <2> QED BY <1>2, <2>11, <2>13, QuietFilesStep
<1>6. CASE Disk!ScanEnds(t)
  <2>1. CASE Len(s.stack) > 1
    <3>1. PICK e : e = [s EXCEPT !.stack = Disk!Front(@)]
      OBVIOUS
    <3>2. at' = [at EXCEPT ![t] = e]
      BY <1>1, <1>6, <2>1, <3>1 DEF Disk!ScanEnds, Disk!Goto
    <3>3. PICK q : q = Disk!Front(s.stack)
      OBVIOUS
    <3>4. q \in Seq(Frames)
      <4>1. s.stack # <<>>
        BY <1>4, <2>1
      <4> QED BY <1>4, <3>3, <4>1, TopIs
    <3>5. e = [s EXCEPT !.stack = q]
      BY <3>1, <3>3
    <3>6. e \in Scans
      BY <1>3, <3>4, <3>5 DEF Scans
    <3>7. AtRight(e)'
      BY <3>6, SortsRight
    <3> QED BY <1>2, <3>2, <3>7, QuietFilesStep
  <2>2. CASE ~(Len(s.stack) > 1)
    <3>1. at' = [at EXCEPT ![t] = Disk!Idle]
      BY <1>1, <1>6, <2>2 DEF Disk!ScanEnds, Disk!Return
    <3>2. AtRight(Disk!Idle)'
      BY SortsRight
    <3> QED BY <1>2, <3>1, <3>2, QuietFilesStep
  <2> QED BY <2>1, <2>2
<1> QED BY <1>5, <1>6

\* A file is removed: only one that was asked for, or came late, goes.
LEMMA NothingElseLost ==
    ASSUME FilesInv, NEW t \in FileThreads, NEW q, Disk!RemoveFile(t, q),
           at[t].asked \/ q \notin disk \/ q \in at[t].fresh
    PROVE  Disk!NoFileLost'
<1>1. CASE lost' = lost
  BY <1>1 DEF FilesInv, Disk!NoFileLost
<1>2. CASE ~(at[t].asked \/ q \notin disk)
  <2>1. lost' = lost \cup {[file |-> q, fresh |-> q \in at[t].fresh]}
    BY <1>2 DEF Disk!RemoveFile
  <2>2. q \in at[t].fresh
    BY <1>2
  <2>3. [file |-> q, fresh |-> q \in at[t].fresh].fresh
    BY <2>2
  <2> QED BY <2>1, <2>3 DEF FilesInv, Disk!NoFileLost
<1>3. CASE at[t].asked \/ q \notin disk
  BY <1>1, <1>3 DEF Disk!RemoveFile
<1> QED BY <1>2, <1>3

LEMMA DeleteLStep ==
    ASSUME FilesInv, NEW t \in FileThreads, Disk!DeleteL(t)
    PROVE  FilesInv'
<1>1. PICK d : d = at[t]
  OBVIOUS
<1>2. d.what = "delete" /\ d.do = "remove" /\ d.stack = <<>>
  BY <1>1 DEF Disk!DeleteL
<1>3. d \in Deletes /\ DeleteRight(d)
  BY <1>1, <1>2, WhatIs DEF FilesInv
<1>4. d.target \in Paths /\ d.target # <<>>
  BY <1>2, <1>3 DEF Deletes, DeleteRight
<1>5. CASE Disk!IsDir(d.target) /\ Disk!Exists(d.target)
  <2>1. d.target \in Disk!DirPaths
    BY <1>5 DEF Disk!IsDir
  <2>2. PICK f : f = Disk!Frame(d.target)
    OBVIOUS
  <2>3. f \in Frames /\ f.dir = d.target
    BY <2>1, <2>2, FrameIs DEF FilesInv
  <2>4. PICK q : q = <<f>>
    OBVIOUS
  <2>5. q \in Seq(Frames) /\ Len(q) = 1 /\ q[1] = f /\ q # <<>>
    BY <2>3, <2>4
  <2>6. PICK e : e = [d EXCEPT !.stack = q]
    OBVIOUS
  <2>7. at' = [at EXCEPT ![t] = e] /\ disk' = disk /\ lost' = lost
    BY <1>1, <1>5, <2>2, <2>4, <2>6 DEF Disk!DeleteL, Disk!Goto
  <2>8. /\ e \in Deletes
        /\ e.do = d.do /\ e.asked = d.asked /\ e.target = d.target /\ e.fresh = d.fresh /\ e.stack = q
    BY <1>3, <2>5, <2>6 DEF Deletes
  <2>9. \A i \in 1..Len(e.stack) : Within(e.target, e.stack[i].dir)
    <3>1. Within(d.target, f.dir)
      BY <2>1, <2>3, DirPathIs DEF Within
    <3>a. Len(e.stack) = 1
      BY <2>5, <2>8
    <3>2. \A i \in 1..Len(e.stack) : i = 1
      BY <3>a
    <3> QED BY <2>5, <2>8, <3>1, <3>2
  <2>10. DeleteRight(e)'
    BY <1>2, <1>3, <2>7, <2>8, <2>9 DEF DeleteRight
  <2>11. AtRight(e)'
    BY <2>8, <2>10 DEF AtRight
  <2> QED BY <2>7, <2>11, QuietFilesStep
<1>6. CASE ~(Disk!IsDir(d.target) /\ Disk!Exists(d.target))
  <2>1. Disk!RemoveFile(t, d.target) /\ Disk!Returned(t, d, Disk!Exists(d.target))
    BY <1>1, <1>6 DEF Disk!DeleteL
  <2>2. PICK e : AtRight(e)' /\ at' = [at EXCEPT ![t] = e]
    BY <1>2, <1>3, <2>1, ReturnedIs
  <2>3. disk' = disk \ {d.target}
    BY <2>1 DEF Disk!RemoveFile
  <2>4. d.target \notin disk \/ d.target \notin Disk!DirPaths
    BY <1>6 DEF Disk!IsDir, Disk!Exists
  <2>5. d.asked \/ d.target \notin disk
    BY <1>3, <1>4, <2>4 DEF DeleteRight
  <2>6. Disk!NoFileLost'
    BY <1>1, <2>1, <2>5, NothingElseLost
  <2>7. \A p \in disk \ {d.target} : Len(p) > 1 => Disk!ParentDir(p) # d.target
    <3>1. \A p \in disk : p \in Paths /\ (Len(p) > 1 => Disk!ParentDir(p) \in disk)
      BY DEF FilesInv
    <3>2. \A p \in disk : Len(p) > 1 => Disk!ParentDir(p) \in Disk!DirPaths
      BY <3>1, ParentIs
    <3> QED BY <2>4, <3>1, <3>2
  <2> QED BY <2>2, <2>3, <2>6, <2>7, RemovedStep
<1> QED BY <1>5, <1>6

LEMMA RmdirStep ==
    ASSUME FilesInv, NEW t \in FileThreads, Disk!Rmdir(t)
    PROVE  FilesInv'
<1>1. PICK d : d = at[t]
  OBVIOUS
<1>2. d.what = "delete" /\ d.stack # <<>> /\ lost' = lost
  BY <1>1 DEF Disk!Rmdir
<1>3. d \in Deletes /\ DeleteRight(d)
  BY <1>1, <1>2, WhatIs DEF FilesInv
<1>4. d.stack \in Seq(Frames) /\ d.do = "remove"
  BY <1>2, <1>3 DEF Deletes, DeleteRight
<1>5. PICK top \in Frames : top = Disk!Last(d.stack)
  BY <1>2, <1>4, TopIs
<1>6. top.dir \in Disk!DirPaths
  BY <1>5 DEF Frames
<1>7. PICK ok : ok = (Disk!Exists(top.dir) /\ Disk!Children(top.dir) = {})
  OBVIOUS
<1>8. /\ disk' = IF Disk!Exists(top.dir) /\ Disk!Children(top.dir) = {} THEN disk \ {top.dir} ELSE disk
      /\ IF Len(d.stack) > 1 THEN Disk!Goto(t, [d EXCEPT !.stack = Disk!Front(@)])
         ELSE Disk!Returned(t, d, ok)
  BY <1>1, <1>5, <1>7 DEF Disk!Rmdir
<1>9. disk' \subseteq disk
  BY <1>8
<1>10. PICK e : AtRight(e)' /\ at' = [at EXCEPT ![t] = e]
  <2>1. CASE Len(d.stack) > 1
    <3>1. PICK q : q = Disk!Front(d.stack)
      OBVIOUS
    <3>2. q \in Seq(Frames) /\ Len(q) = Len(d.stack) - 1 /\ \A i \in 1..Len(q) : q[i] = d.stack[i]
      BY <1>2, <1>4, <3>1, TopIs
    <3>3. PICK e : e = [d EXCEPT !.stack = q]
      OBVIOUS
    <3>4. at' = [at EXCEPT ![t] = e]
      BY <1>8, <2>1, <3>1, <3>3 DEF Disk!Goto
    <3>5. /\ e \in Deletes
          /\ e.do = d.do /\ e.asked = d.asked /\ e.target = d.target /\ e.fresh = d.fresh /\ e.stack = q
      BY <1>3, <3>2, <3>3 DEF Deletes
    <3>6. \A i \in 1..Len(e.stack) : Within(e.target, e.stack[i].dir)
      <4>1. \A i \in 1..Len(q) : i \in 1..Len(d.stack)
        BY <1>4, <3>2
      <4> QED BY <1>3, <3>2, <3>5, <4>1 DEF DeleteRight
    <3>7. \A p \in disk' : p \in disk
      BY <1>9
    <3>8. DeleteRight(e)'
      BY <1>3, <1>4, <3>5, <3>6, <3>7 DEF DeleteRight
    <3>9. AtRight(e)'
      BY <3>5, <3>8 DEF AtRight
    <3> QED BY <3>4, <3>9
  <2>2. CASE ~(Len(d.stack) > 1)
    BY <1>3, <1>4, <1>8, <2>2, ReturnedIs
  <2> QED BY <2>1, <2>2
<1>11. Disk!NoFileLost'
  BY <1>2 DEF FilesInv, Disk!NoFileLost
<1>12. CASE disk' = disk
  BY <1>2, <1>10, <1>12, QuietFilesStep
<1>13. CASE Disk!Children(top.dir) = {} /\ disk' = disk \ {top.dir}
  <2>1. ASSUME NEW p \in disk, Len(p) > 1, Disk!ParentDir(p) = top.dir
        PROVE  FALSE
    <3>1. p \in Paths /\ disk \subseteq Paths
      BY DEF FilesInv
    <3>2. p \in Seq(AnyName) /\ Len(p) \in Nat
      BY <3>1, PathIs
    <3>3. Len(top.dir) = Len(p) - 1 /\ \A i \in 1..Len(top.dir) : top.dir[i] = p[i]
      BY <2>1, <3>1, ParentIs
    <3>4. Len(p) = Len(top.dir) + 1 /\ Within(top.dir, p)
      BY <3>2, <3>3 DEF Within
    <3> QED BY <1>6, <1>13, <3>1, <3>4, ChildrenAre
  <2> QED BY <1>10, <1>11, <1>13, <2>1, RemovedStep
<1> QED BY <1>8, <1>12, <1>13

\* An entry of the directory being read is removed, or is a directory to be read next.
LEMMA ReadEntryStep ==
    ASSUME FilesInv, NEW t \in FileThreads, Disk!ReadEntry(t)
    PROVE  FilesInv'
<1>1. PICK d : d = at[t]
  OBVIOUS
<1>2. d.what = "delete" /\ d.stack # <<>>
  BY <1>1 DEF Disk!ReadEntry
<1>3. d \in Deletes /\ DeleteRight(d)
  BY <1>1, <1>2, WhatIs DEF FilesInv
<1>4. d.stack \in Seq(Frames) /\ d.do = "remove"
  BY <1>2, <1>3 DEF Deletes, DeleteRight
<1>5. PICK top \in Frames : top = Disk!Last(d.stack)
  BY <1>2, <1>4, TopIs
<1>6. top.dir \in Disk!DirPaths
  BY <1>5 DEF Frames
<1>7. PICK p \in Disk!Children(top.dir) \ top.listed :
         LET seen == [top EXCEPT !.listed = @ \cup {p}] IN
         IF Disk!IsDir(p)
         THEN /\ Disk!Goto(t, [d EXCEPT !.stack = Append(Disk!Front(@) \o <<seen>>, Disk!Frame(p))])
              /\ UNCHANGED <<disk, lost>>
         ELSE /\ Disk!RemoveFile(t, p)
              /\ Disk!Goto(t, [d EXCEPT !.stack = Disk!Front(@) \o <<seen>>])
  BY <1>1, <1>5 DEF Disk!ReadEntry
<1>8. p \in disk /\ p \in Paths /\ Len(p) = Len(top.dir) + 1 /\ Within(top.dir, p)
  BY <1>6, ChildrenAre DEF FilesInv
<1>9. PICK m : m = [top EXCEPT !.listed = @ \cup {p}]
  OBVIOUS
<1>10. m \in Frames /\ m.dir = top.dir
  BY <1>5, <1>8, <1>9 DEF Frames
<1>11. PICK s : s = Disk!Front(d.stack) \o <<m>>
  OBVIOUS
<1>12. /\ s \in Seq(Frames) /\ s # <<>> /\ Len(s) = Len(d.stack)
       /\ \A i \in 1..Len(d.stack) : s[i].dir = d.stack[i].dir
  BY <1>2, <1>4, <1>5, <1>10, <1>11, MarkedIs
<1>13. \A i \in 1..Len(s) : Within(d.target, s[i].dir)
  BY <1>3, <1>12 DEF DeleteRight
<1>14. Len(d.stack) \in Nat /\ Len(d.stack) >= 1 /\ top = d.stack[Len(d.stack)]
  BY <1>2, <1>4, <1>5, TopIs
<1>15. Within(d.target, top.dir)
  <2>1. Len(d.stack) \in 1..Len(d.stack)
    BY <1>14
  <2> QED BY <1>3, <1>14, <2>1 DEF DeleteRight
<1>16. d.target \in Paths
  BY <1>3, <1>4 DEF Deletes, DeleteRight
<1>17. Within(d.target, p) /\ Under(d.target, p)
  <2>1. d.target \in Seq(AnyName) /\ top.dir \in Seq(AnyName) /\ p \in Seq(AnyName)
    BY <1>6, <1>8, <1>16, PathIs, DirPathIs
  <2>2. Within(d.target, p)
    BY <1>8, <1>15, <2>1, WithinTransitive
  <2>3. Len(p) > Len(d.target)
    BY <1>8, <1>15, <2>1 DEF Within
  <2> QED BY <2>2, <2>3 DEF Under, Within
<1>18. CASE Disk!IsDir(p)
  <2>1. PICK f : f = Disk!Frame(p)
    OBVIOUS
  <2>2. f \in Frames /\ f.dir = p
    BY <1>18, <2>1, FrameIs DEF FilesInv, Disk!IsDir
  <2>3. PICK q : q = Append(s, f)
    OBVIOUS
  <2>4. /\ q \in Seq(Frames) /\ Len(q) = Len(s) + 1 /\ q[Len(s) + 1] = f
        /\ \A i \in 1..Len(s) : q[i] = s[i]
    BY <1>12, <2>2, <2>3
  <2>5. PICK e : e = [d EXCEPT !.stack = q]
    OBVIOUS
  <2>6. at' = [at EXCEPT ![t] = e] /\ disk' = disk /\ lost' = lost
    BY <1>7, <1>9, <1>11, <1>18, <2>1, <2>3, <2>5 DEF Disk!Goto
  <2>7. /\ e \in Deletes
        /\ e.do = d.do /\ e.asked = d.asked /\ e.target = d.target /\ e.fresh = d.fresh /\ e.stack = q
    BY <1>3, <2>4, <2>5 DEF Deletes
  <2>8. ASSUME NEW i \in 1..Len(q)
        PROVE  Within(d.target, q[i].dir)
    <3>1. Len(s) \in Nat
      BY <1>12
    <3>2. CASE i \in 1..Len(s)
      BY <1>13, <2>4, <3>2
    <3>3. CASE i = Len(s) + 1
      BY <1>17, <2>2, <2>4, <3>3
    <3> QED BY <2>4, <3>1, <3>2, <3>3
  <2>9. DeleteRight(e)'
    BY <1>3, <1>4, <2>6, <2>7, <2>8 DEF DeleteRight
  <2>10. AtRight(e)'
    BY <2>7, <2>9 DEF AtRight
  <2> QED BY <2>6, <2>10, QuietFilesStep
<1>19. CASE ~Disk!IsDir(p)
  <2>1. PICK e : e = [d EXCEPT !.stack = s]
    OBVIOUS
  <2>2. Disk!RemoveFile(t, p) /\ at' = [at EXCEPT ![t] = e]
    BY <1>7, <1>9, <1>11, <1>19, <2>1 DEF Disk!Goto
  <2>3. /\ e \in Deletes
        /\ e.do = d.do /\ e.asked = d.asked /\ e.target = d.target /\ e.fresh = d.fresh /\ e.stack = s
    BY <1>3, <1>12, <2>1 DEF Deletes
  <2>4. disk' = disk \ {p}
    BY <2>2 DEF Disk!RemoveFile
  <2>5. DeleteRight(e)'
    BY <1>3, <1>4, <1>13, <2>3, <2>4 DEF DeleteRight
  <2>6. AtRight(e)'
    BY <2>3, <2>5 DEF AtRight
  <2>7. d.asked \/ p \in d.fresh
    BY <1>3, <1>4, <1>8, <1>17 DEF DeleteRight
  <2>8. Disk!NoFileLost'
    BY <1>1, <2>2, <2>7, NothingElseLost
  <2>9. \A q \in disk : Len(q) > 1 => Disk!ParentDir(q) \in Disk!DirPaths
    BY ParentIs DEF FilesInv
  <2>10. \A q \in disk \ {p} : Len(q) > 1 => Disk!ParentDir(q) # p
    BY <1>19, <2>9 DEF Disk!IsDir
  <2> QED BY <2>2, <2>4, <2>6, <2>8, <2>10, RemovedStep
<1> QED BY <1>18, <1>19

LEMMA FilesStep == FilesInv /\ Disk!Next => FilesInv'
<1> SUFFICES ASSUME FilesInv, Disk!Next
             PROVE  FilesInv'
  OBVIOUS
<1>1. PICK t \in FileThreads :
          \/ \/ \E dir \in Disk!DirPaths, file \in FileNames \cup {Disk!NoFile} : Disk!Create(t, dir, file)
             \/ \E file \in Disk!DirPaths \cup Disk!FilePaths, del, back \in BOOLEAN :
                   Disk!DeleteFile(t, file, del, back)
             \/ \E dir \in Disk!DirPaths, enter, hidden \in BOOLEAN :
                   Disk!ScanDir(t, dir, enter, hidden)
          \/ Disk!ScanEntry(t) \/ Disk!ScanEnds(t)
          \/ Disk!Access(t) \/ Disk!Mkdir(t) \/ Disk!Fopen(t)
          \/ Disk!DeleteL(t) \/ Disk!ReadEntry(t) \/ Disk!Rmdir(t) \/ Disk!Look(t)
  BY DEF Disk!Next
<1>2. CASE \/ \E dir \in Disk!DirPaths, file \in FileNames \cup {Disk!NoFile} : Disk!Create(t, dir, file)
           \/ \E file \in Disk!DirPaths \cup Disk!FilePaths, del, back \in BOOLEAN :
                 Disk!DeleteFile(t, file, del, back)
           \/ \E dir \in Disk!DirPaths, enter, hidden \in BOOLEAN :
                 Disk!ScanDir(t, dir, enter, hidden)
  BY <1>2, BeginFilesStep
<1>3. CASE Disk!ScanEntry(t) \/ Disk!ScanEnds(t)
  BY <1>3, ScanStep
<1>4. CASE Disk!Access(t) \/ Disk!Mkdir(t) \/ Disk!Fopen(t)
  BY <1>4, CreateFilesStep
<1>5. CASE Disk!DeleteL(t)
  BY <1>5, DeleteLStep
<1>6. CASE Disk!ReadEntry(t)
  BY <1>6, ReadEntryStep
<1>7. CASE Disk!Rmdir(t)
  BY <1>7, RmdirStep
<1>8. CASE Disk!Look(t)
  BY <1>8, LookStep
<1> QED BY <1>1, <1>2, <1>3, <1>4, <1>5, <1>6, <1>7, <1>8

LEMMA FilesInvRight == FilesInv => Disk!NoFileLost
BY DEF FilesInv

-----------------------------------------------------------------------------
(* All of them, side by side. *)

-----------------------------------------------------------------------------
(* All of them, side by side. *)

\* Where a part stutters.
LEMMA PartsStay ==
    /\ ReadInv /\ UNCHANGED Read!readVars => ReadInv'
    /\ AdaptersInv /\ UNCHANGED Adapters!adapterVars => AdaptersInv'
    /\ SlicesInv /\ UNCHANGED Slices!fileVars => SlicesInv'
    /\ CertsInv /\ UNCHANGED Certs!sslVars => CertsInv'
    /\ FilesInv /\ UNCHANGED Disk!fileVars => FilesInv'
<1>1. ReadInv /\ UNCHANGED Read!readVars => ReadInv'
  BY DEF Read!readVars, Read!kernelV, Read!epollV, ReadInv, ReadTypes, Reporting, AddingRead, Telling,
         Queued, Ordinary, Read!Readable
<1>2. AdaptersInv /\ UNCHANGED Adapters!adapterVars => AdaptersInv'
  BY DEF Adapters!adapterVars, AdaptersInv, Asked, Adapters!AdaptersRight, Adapters!OfDevice
<1>3. SlicesInv /\ UNCHANGED Slices!fileVars => SlicesInv'
  BY DEF Slices!fileVars, SlicesInv, SlicesTypes, Newer, Slices!FileLogRight, Slices!Narrow
<1>4. CertsInv /\ UNCHANGED Certs!sslVars => CertsInv'
  <2> SUFFICES ASSUME CertsInv, UNCHANGED Certs!sslVars PROVE CertsInv'
    OBVIOUS
  <2>1. /\ emptyCtx' = emptyCtx /\ ctxs' = ctxs /\ wildcards' = wildcards
        /\ defaultVhost' = defaultVhost /\ loads' = loads /\ found' = found
    BY DEF Certs!sslVars
  <2>2. \A i, name, mode : Latest(i, name, mode)' <=> Latest(i, name, mode)
    BY <2>1 DEF Latest
  <2>3. ContextsKept'
    BY <2>1, <2>2, SMTT(20) DEF CertsInv, ContextsKept, Latest
  <2>4. Certs!ContextsRight' <=> Certs!ContextsRight
    BY <2>1, SMTT(30) DEF Certs!ContextsRight, Certs!Newest
  <2> QED BY <2>1, <2>3, <2>4 DEF CertsInv
<1>5. FilesInv /\ UNCHANGED Disk!fileVars => FilesInv'
  BY DEF Disk!fileVars, FilesInv, AtRight, DeleteRight, Disk!NoFileLost
<1> QED BY <1>1, <1>2, <1>3, <1>4, <1>5

SharingInv == /\ part = "pool" => PoolInv
              /\ part = "notice" => NoticeInv
              /\ part = "udp" => UdpInv
              /\ part = "read" => ReadInv
              /\ part = "util" => UtilInv
              /\ part = "adapters" => AdaptersInv
              /\ part = "sql" => SqlInv
              /\ part = "slices" => SlicesInv
              /\ part = "stamp" => StampInv
              /\ part = "certs" => CertsInv
              /\ part = "files" => FilesInv

LEMMA SharingStart == SharingInit => SharingInv
BY SharingAssumption, PoolStart, NoticeStart, UdpStart, ReadStart, UtilStart, AdaptersStart, SqlStart,
   SlicesStart, StampStart, CertsStart, FilesStart DEF SharingAssumption, SharingInit, SharingInv

LEMMA SharingStep == SharingInv /\ [SharingNext]_sharingV => SharingInv'
<1> SUFFICES ASSUME SharingInv, [SharingNext]_sharingV PROVE SharingInv'
  OBVIOUS
<1>1. part' = part
  BY DEF SharingNext, sharingV
<1>2. ASSUME part = "pool" PROVE PoolInv'
  <2>1. [Pool!Next]_(Pool!poolVars)
    BY <1>2 DEF SharingNext, sharingV, poolV, Pool!poolVars
  <2> QED BY <1>2, <2>1, SharingAssumption, PoolStep DEF SharingAssumption, SharingInv
<1>3. ASSUME part = "notice" PROVE NoticeInv'
  <2>1. [Notice!Next]_(Notice!noticeVars)
    BY <1>3 DEF SharingNext, sharingV, noticeV, Notice!noticeVars
  <2> QED BY <1>3, <2>1, SharingAssumption, NoticeStep DEF SharingAssumption, SharingInv
<1>4. ASSUME part = "udp" PROVE UdpInv'
  <2>1. [Udp!Next]_(Udp!udpVars)
    BY <1>4 DEF SharingNext, sharingV, udpV, Udp!udpVars
  <2> QED BY <1>4, <2>1, UdpStep DEF SharingInv
<1>5. ASSUME part = "read" PROVE ReadInv'
  <2>1. [Read!Next]_(Read!readVars)
    BY <1>5 DEF SharingNext, sharingV, readV, Read!readVars, Read!kernelV, Read!epollV
  <2> QED BY <1>5, <2>1, ReadStep, PartsStay DEF SharingInv
<1>6. ASSUME part = "util" PROVE UtilInv'
  <2>1. [Util!Next]_(Util!utilVars)
    BY <1>6 DEF SharingNext, sharingV, utilV, Util!utilVars
  <2> QED BY <1>6, <2>1, UtilStep DEF SharingInv
<1>7. ASSUME part = "adapters" PROVE AdaptersInv'
  <2>1. [Adapters!Next]_(Adapters!adapterVars)
    BY <1>7 DEF SharingNext, sharingV, adaptersV, Adapters!adapterVars
  <2> QED BY <1>7, <2>1, AdaptersStep, PartsStay DEF SharingInv
<1>8. ASSUME part = "sql" PROVE SqlInv'
  <2>1. [Sql!Next]_(Sql!sqlVars)
    BY <1>8 DEF SharingNext, sharingV, sqlV, Sql!sqlVars
  <2> QED BY <1>8, <2>1, SqlStep DEF SharingInv
<1>9. ASSUME part = "slices" PROVE SlicesInv'
  <2>1. [Slices!Next]_(Slices!fileVars)
    BY <1>9 DEF SharingNext, sharingV, slicesV, Slices!fileVars
  <2> QED BY <1>9, <2>1, SlicesStep, PartsStay DEF SharingInv
<1>10. ASSUME part = "stamp" PROVE StampInv'
  <2>1. [Stamp!Next]_(Stamp!stampVars)
    BY <1>10 DEF SharingNext, sharingV, stampV, Stamp!stampVars
  <2> QED BY <1>10, <2>1, StampStep DEF SharingInv
<1>11. ASSUME part = "certs" PROVE CertsInv'
  <2>1. [Certs!Next]_(Certs!sslVars)
    BY <1>11 DEF SharingNext, sharingV, certsV, Certs!sslVars
  <2> QED BY <1>11, <2>1, CertsStep, PartsStay DEF SharingInv
<1>12. ASSUME part = "files" PROVE FilesInv'
  <2>1. [Disk!Next]_(Disk!fileVars)
    BY <1>12 DEF SharingNext, sharingV, filesV, Disk!fileVars
  <2> QED BY <1>12, <2>1, FilesStep, PartsStay DEF SharingInv
<1> QED BY <1>1, <1>2, <1>3, <1>4, <1>5, <1>6, <1>7, <1>8, <1>9, <1>10, <1>11, <1>12 DEF SharingInv

\* A pooled object is with one user, in one thread's hands or at one index of the vector,
\* which never exceeds its size and which one thread at a time changes, whatever obtain, the
\* deleters and the pool's end do in between; and a listener that met no removal while it was
\* added is found by every emit after it.
THEOREM SharingRightHolds == SharingSpec => []SharingRight
<1>1. SharingInv => SharingRight
  BY DEF SharingInv, SharingRight, PoolInv, NoticeInv
<1> QED BY <1>1, SharingStart, SharingStep, PTL DEF SharingSpec

\* However the reads of the sockets, their pollers' queues, failures, the erasures of the
\* map and the server's end interleave: while the server is up a session is in the map or
\* was told, once, that it ended (UdpServer's getOrCreateSession, onErr); no datagram is in
\* two of the readers' hands, the queues and the sessions, and while no session has ended
\* and the server is up each is in one.
THEOREM UdpRightHolds == SharingSpec => []UdpRight
<1>1. SharingInv => UdpRight
  BY UdpInvRight DEF SharingInv, UdpRight
<1> QED BY <1>1, SharingStart, SharingStep, PTL DEF SharingSpec

\* However data, the end of the peer, errors, the calls of other threads and the poller's
\* queue interleave: nothing the kernel holds for an open socket that is not paused is
\* forgotten, save behind an empty datagram, a change of the events by another thread or one
\* that Linux refuses; and an error is told once and ends the events, save where two threads
\* passed the test of _err_emit together, the socket had no descriptor yet or on_read shut it
\* down itself (Socket's attachEvent, onRead, enableRecv, emitErr).  The calls of SockUtil leak
\* no descriptor and close none of another call's, bind where they are told, and use an address
\* no older than its expiry and one lookup (sockutil.cpp).  And the local address, and whether
\* two are in one network, are answered from adapters there are (get_local_ip, in_same_lan).
THEOREM SocketsRightHolds == SharingSpec => []SocketsRight
<1>1. SharingInv => SocketsRight
  BY ReadInvRight, UtilInvRight, AdaptersInvRight DEF SharingInv, SocketsRight
<1> QED BY <1>1, SharingStart, SharingStep, PTL DEF SharingSpec

\* Whatever fails and in whatever order: a statement is in one of the SQL pool's lists until it
\* was confirmed or given up, and in none then (SqlPool); the log files that clean removes are
\* the oldest while slices have two digits, and it keeps as many as it may unless the open one
\* comes first (FileChannel::clean); the milliseconds of StampThread never go back and are off by
\* no more than the settings of the clock explain (util.cpp); a handshake gets the newest
\* certificate of its host's name, or one that covers it, before the default (SSL_Initor); and
\* no file goes that was neither given to delete_file nor made after its directory was found
\* empty (File.cpp).
THEOREM RecordsRightHolds == SharingSpec => []RecordsRight
<1>1. SharingInv => RecordsRight
  BY SqlInvRight, SlicesInvRight, StampInvRight, CertsInvRight, FilesInvRight DEF SharingInv, RecordsRight
<1> QED BY <1>1, SharingStart, SharingStep, PTL DEF SharingSpec
=============================================================================
