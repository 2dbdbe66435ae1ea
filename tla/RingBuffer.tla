----------------------------- MODULE RingBuffer -----------------------------
(***************************************************************************)
(* The media ring of zltoolkit: one writer's stream is handed to readers   *)
(* on several pollers.  The ring keeps a storage of its own and, for every *)
(* poller with a reader, a dispatcher with a copy of it.  write puts a     *)
(* task on each of these pollers, so that a dispatcher's storage lags      *)
(* behind the ring's; a dispatcher without readers is dropped, and a new   *)
(* one starts from a new copy while tasks for the old one are queued.      *)
(* Messages go the same way; getInfoList asks the dispatchers about their  *)
(* readers and answers when the last of them has run.                      *)
(***************************************************************************)
EXTENDS Naturals, Sequences, FiniteSets, SequencesExt

CONSTANTS Pollers,
          Readers,   \* reader objects; none is used twice
          MaxSize,   \* items a storage may hold
          MaxGops,   \* groups a storage may hold
          MaxWrites, \* bound: items written, messages sent and questions asked
          MaxTasks   \* bound: tasks queued on a poller

VARIABLES stream,   \* for every item written, whether it is a key frame
          master,   \* the ring's _storage
          ring,     \* per poller: the dispatcher in _dispatcher_map
          ringTasks, \* per poller: what is queued on its thread
          reader,   \* the reader objects
          total,    \* _total_count
          messages, \* how many messages were sent
          asked     \* the questions: whom getInfoList waits for, what it knows

ringVars == <<stream, master, ring, ringTasks, reader, total, messages, asked>>

\* A storage: groups of items, each but perhaps the first begun by a key frame.
Cleared(s) == [s EXCEPT !.gops = <<<<>>>>, !.size = 0, !.idr = FALSE]
EmptyStorage == [gops |-> <<<<>>>>, size |-> 0, idr |-> FALSE, started |-> FALSE]

PopFront(s) ==
    [s EXCEPT !.size = @ - Len(Head(s.gops)),
              !.gops = IF Len(@) = 1 THEN <<<<>>>> ELSE Tail(@)]

\* A key frame begins a group, and the oldest group goes when there are too many.
Begin(s) ==
    LET t == [s EXCEPT !.idr = TRUE, !.started = TRUE,
                       !.gops = IF Last(@) = <<>> THEN @ ELSE Append(@, <<>>)]
    IN  IF Len(t.gops) > MaxGops THEN PopFront(t) ELSE t

\* When the storage overflows only the newest group stays, or nothing at all.
Shrink(s) ==
    LET newest == [s EXCEPT !.gops = <<Last(@)>>, !.size = Len(Last(s.gops))]
    IN  CASE s.size <= MaxSize -> s
          [] s.size > MaxSize /\ newest.size <= MaxSize -> newest
          [] OTHER -> Cleared(newest)

\* mutant: an overflow empties the groups and forgets that the key frame is gone
StoreDeaf(s, n, key) ==
    LET t == IF key THEN Begin(s) ELSE s
        u == [t EXCEPT !.size = @ + 1, !.gops[Len(t.gops)] = Append(@, n)]
    IN  IF u.size > MaxSize THEN [Cleared(u) EXCEPT !.idr = TRUE] ELSE u

\* Without a key frame in front, what comes before the next one is not kept.
Store(s, n, key) ==
    LET t == IF key THEN Begin(s) ELSE s
    IN  IF ~t.idr /\ t.started THEN t
        ELSE Shrink([t EXCEPT !.size = @ + 1, !.gops[Len(t.gops)] = Append(@, n)])

\* A reader object that is not made yet or is destroyed.
NoReader(at) == [at |-> at, poller |-> "none", gen |-> 0, cache |-> FALSE,
                 got |-> <<>>, heard |-> <<>>]

Init == /\ stream = <<>> /\ master = EmptyStorage /\ total = 0
        /\ messages = 0 /\ asked = <<>>
        /\ ring = [p \in Pollers |-> [live |-> FALSE, gen |-> 0, store |-> EmptyStorage]]
        /\ ringTasks = [p \in Pollers |-> <<>>]
        /\ reader = [r \in Readers |-> NoReader("none")]

-----------------------------------------------------------------------------
\* Any thread, under _mtx_map.

\* Every poller that has a dispatcher is given the task for this dispatcher.
Tell(task) == /\ \A p \in Pollers : Len(ringTasks[p]) < MaxTasks
              /\ ringTasks' = [p \in Pollers |->
                     IF ring[p].live
                     THEN Append(ringTasks[p], [task EXCEPT !.gen = ring[p].gen])
                     ELSE ringTasks[p]]

Write(key) == /\ Len(stream) + messages + Len(asked) < MaxWrites
              /\ stream' = Append(stream, key)
              /\ Tell([kind |-> "write", gen |-> 0, item |-> Len(stream) + 1])
              /\ master' = Store(master, Len(stream) + 1, key)
              /\ UNCHANGED <<ring, reader, total, messages, asked>>

\* clearCache; dispatchers with readers keep theirs.
ClearCache == /\ master' = Cleared(master)
              /\ Tell([kind |-> "clear", gen |-> 0, item |-> 0])
              /\ UNCHANGED <<stream, ring, reader, total, messages, asked>>

\* mutant: on its own thread a poller is given the message before what is queued
SendMessageAtOnce ==
    /\ Len(stream) + messages + Len(asked) < MaxWrites
    /\ messages' = messages + 1
    /\ reader' = [r \in Readers |->
           IF reader[r].at # "reading" THEN reader[r]
           ELSE [reader[r] EXCEPT !.heard = Append(@, <<Len(stream), reader[r].got>>)]]
    /\ UNCHANGED <<stream, master, ring, ringTasks, total, asked>>

\* A message is queued behind the items written before it, and is not kept.
SendMessage == /\ Len(stream) + messages + Len(asked) < MaxWrites
               /\ messages' = messages + 1
               /\ Tell([kind |-> "message", gen |-> 0, item |-> Len(stream)])
               /\ UNCHANGED <<stream, master, ring, reader, total, asked>>

\* What the dispatcher of a poller says of its readers: those in its map that are
\* alive and have set their callbacks.
Infos(p) == {r \in Readers : /\ reader[r].poller = p /\ reader[r].gen = ring[p].gen
                             /\ reader[r].at = "reading"}

\* getInfoList on a poller's thread, which answers at once, or on another thread.
GetInfoList(here) ==
    LET others == {p \in Pollers : ring[p].live} \ {here}
    IN  /\ Len(stream) + messages + Len(asked) < MaxWrites
        /\ \A p \in others : Len(ringTasks[p]) < MaxTasks
        /\ ringTasks' = [p \in Pollers |->
               IF p \in others THEN Append(ringTasks[p],
                   [kind |-> "info", gen |-> ring[p].gen, item |-> Len(asked) + 1])
               ELSE ringTasks[p]]
        /\ asked' = Append(asked,
               [waits |-> others, infos |-> UNION {Infos(p) : p \in Pollers \cap {here}},
                answers |-> IF others = {} THEN 1 ELSE 0,
                readers |-> {r \in Readers : reader[r].at = "reading"}])
        /\ UNCHANGED <<stream, master, ring, reader, total, messages>>

-----------------------------------------------------------------------------
\* On a poller's thread.

\* The readers in the dispatcher's map: released ones are there until a task
\* finds them.
InMap(p) == {r \in Readers : /\ reader[r].poller = p /\ reader[r].gen = ring[p].gen
                             /\ reader[r].at \in {"attached", "reading", "released"}}

\* mutant: a new dispatcher starts without what was written before
AttachEmpty(p, r, cache) ==
    /\ reader[r].at = "none"
    /\ ring' = IF ring[p].live THEN ring
               ELSE [ring EXCEPT ![p] = [live |-> TRUE, gen |-> @.gen + 1,
                                         store |-> EmptyStorage]]
    /\ reader' = [reader EXCEPT ![r] = [at |-> "attached", poller |-> p,
                                        gen |-> ring'[p].gen, cache |-> cache,
                                        got |-> <<>>, heard |-> <<>>]]
    /\ total' = total + 1
    /\ UNCHANGED <<stream, master, ringTasks, messages, asked>>

\* The first reader of a poller makes the dispatcher, with a clone of the storage.
Attach(p, r, cache) ==
    /\ reader[r].at = "none"
    /\ ring' = IF ring[p].live THEN ring
               ELSE [ring EXCEPT ![p] = [live |-> TRUE, gen |-> @.gen + 1,
                                         store |-> master]]
    /\ reader' = [reader EXCEPT ![r] = [at |-> "attached", poller |-> p,
                                        gen |-> ring'[p].gen, cache |-> cache,
                                        got |-> <<>>, heard |-> <<>>]]
    /\ total' = total + 1
    /\ UNCHANGED <<stream, master, ringTasks, messages, asked>>

\* Setting the callback hands out what the dispatcher has kept.
SetReadCB(r) ==
    /\ reader[r].at = "attached"
    /\ reader' = [reader EXCEPT ![r].at = "reading",
           ![r].got = IF reader[r].cache
                    THEN FlattenSeq(ring[reader[r].poller].store.gops) ELSE <<>>]
    /\ UNCHANGED <<stream, master, ring, ringTasks, total, messages, asked>>

\* Readers leave the map; with the last one the dispatcher leaves the ring.
Drop(p, gone) ==
    /\ total' = total - Cardinality(gone)
    /\ ring' = [ring EXCEPT ![p].live = @ /\ (gone = {} \/ gone # InMap(p))]

Dead(p) == {r \in InMap(p) : reader[r].at = "released"}

\* mutant: a task runs on whichever dispatcher the poller has now
RunWriteAnywhere(p, t) ==
    /\ t.kind = "write"
    /\ total' = total - Cardinality(Dead(p))
    /\ ring' = [ring EXCEPT ![p].live = @ /\ (Dead(p) = {} \/ Dead(p) # InMap(p)),
                            ![p].store = Store(@, t.item, stream[t.item])]
    /\ reader' = [r \in Readers |->
           CASE r \in Dead(p) -> NoReader("gone")
             [] r \in InMap(p) /\ reader[r].at = "reading" ->
                    [reader[r] EXCEPT !.got = Append(@, t.item)]
             [] OTHER -> reader[r]]
    /\ UNCHANGED asked

\* The dispatcher goes through its map: readers that are gone leave it, and the
\* others' callback is given something.
Visit(p, field, what) ==
    /\ total' = total - Cardinality(Dead(p))
    /\ reader' = [r \in Readers |->
           CASE r \in Dead(p) -> NoReader("gone")
             [] r \in InMap(p) /\ reader[r].at = "reading" ->
                    [reader[r] EXCEPT ![field] = Append(@, what[r])]
             [] OTHER -> reader[r]]

Stays(p) == ring[p].live /\ (Dead(p) = {} \/ Dead(p) # InMap(p))

\* The dispatcher's write: each reader it finds alive is called, then it stores.
RunWrite(p, t) ==
    /\ t.kind = "write"
    /\ IF ring[p].live /\ t.gen = ring[p].gen
       THEN /\ Visit(p, "got", [r \in Readers |-> t.item])
            /\ ring' = [ring EXCEPT ![p].live = Stays(p),
                                    ![p].store = Store(@, t.item, stream[t.item])]
       ELSE UNCHANGED <<ring, reader, total>>
    /\ UNCHANGED asked

\* The dispatcher's sendMessage: a reader hears it after what it has got so far.
RunMessage(p, t) ==
    /\ t.kind = "message"
    /\ IF ring[p].live /\ t.gen = ring[p].gen
       THEN /\ Visit(p, "heard", [r \in Readers |-> <<t.item, reader[r].got>>])
            /\ ring' = [ring EXCEPT ![p].live = Stays(p)]
       ELSE UNCHANGED <<ring, reader, total>>
    /\ UNCHANGED asked

\* mutant: a dispatcher that has been dropped since does not answer
RunInfoIfLive(p, t) ==
    /\ t.kind = "info"
    /\ asked' = IF ~ring[p].live \/ t.gen # ring[p].gen THEN asked
                ELSE [asked EXCEPT ![t.item].infos = @ \cup Infos(p),
                                   ![t.item].waits = @ \ {p},
                                   ![t.item].answers = IF asked[t.item].waits = {p}
                                                       THEN @ + 1 ELSE @]
    /\ UNCHANGED <<ring, reader, total>>

\* A dispatcher's getInfoList; the task of the last poller lets the answer go.  A
\* dispatcher dropped since has no readers, and its task counts all the same.
RunInfo(p, t) ==
    /\ t.kind = "info"
    /\ asked' = [asked EXCEPT
           ![t.item].infos = @ \cup IF t.gen = ring[p].gen THEN Infos(p) ELSE {},
           ![t.item].waits = @ \ {p},
           ![t.item].answers = IF asked[t.item].waits = {p} THEN @ + 1 ELSE @]
    /\ UNCHANGED <<ring, reader, total>>

\* The dispatcher's clearCache: only while nobody reads.
RunClear(p, t) ==
    /\ t.kind = "clear"
    /\ ring' = IF t.gen = ring[p].gen /\ ring[p].live /\ InMap(p) = {}
               THEN [ring EXCEPT ![p].store = Cleared(@)] ELSE ring
    /\ UNCHANGED <<reader, total, asked>>

\* The deleter of a reader: if it is still in the map, it is taken out.
RunDealloc(p, t) ==
    /\ t.kind = "dealloc"
    /\ IF t.reader \in InMap(p) /\ ring[p].live
       THEN Drop(p, {t.reader}) /\ reader' = [reader EXCEPT ![t.reader] = NoReader("gone")]
       ELSE UNCHANGED <<ring, reader, total>>
    /\ UNCHANGED asked

RunTask(p) == /\ ringTasks[p] # <<>>
              /\ ringTasks' = [ringTasks EXCEPT ![p] = Tail(@)]
              /\ \/ RunWrite(p, Head(ringTasks[p]))
                 \/ RunClear(p, Head(ringTasks[p]))
                 \/ RunDealloc(p, Head(ringTasks[p]))
                 \/ RunMessage(p, Head(ringTasks[p]))
                 \/ RunInfo(p, Head(ringTasks[p]))
              /\ UNCHANGED <<stream, master, messages>>

\* The last reference goes: on the poller's thread the deleter runs at once, on
\* another it is queued.
Release(r) ==
    /\ reader[r].at \in {"attached", "reading"}
    /\ LET p == reader[r].poller
       IN  \/ /\ reader' = [reader EXCEPT ![r] = NoReader("gone")]
              /\ Drop(p, {r})
              /\ UNCHANGED ringTasks
           \/ /\ reader' = [reader EXCEPT ![r].at = "released"]
              /\ ringTasks' = [ringTasks EXCEPT ![p] =
                     Append(@, [kind |-> "dealloc", gen |-> 0, reader |-> r])]
              /\ UNCHANGED <<ring, total>>
    /\ UNCHANGED <<stream, master, messages, asked>>

Next == \/ \E key \in BOOLEAN : Write(key)
        \/ ClearCache
        \/ SendMessage
        \/ \E here \in Pollers \cup {"another"} : GetInfoList(here)
        \/ \E p \in Pollers : RunTask(p) \/ \E r \in Readers, c \in BOOLEAN : Attach(p, r, c)
        \/ \E r \in Readers : SetReadCB(r) \/ Release(r)

Spec == Init /\ [][Next]_ringVars

-----------------------------------------------------------------------------
Storages == {master} \cup {ring[p].store : p \in Pollers}

\* No storage holds more than its limits, its counter is right, and playing it
\* begins with a key frame unless it holds what came before the first of all.
Kept == \A s \in Storages :
    /\ s.size = Len(FlattenSeq(s.gops)) /\ s.size <= MaxSize
    /\ Len(s.gops) \in 1..MaxGops
    /\ \A i \in DOMAIN s.gops : s.gops[i] # <<>> =>
          stream[Head(s.gops[i])] \/ (i = 1 /\ \A n \in 1..Head(s.gops[i]) : ~stream[n])

\* The items of the writes that are still queued for a reader.
Pending(r) == LET p == reader[r].poller
                  mine(t) == t.kind = "write" /\ t.gen = reader[r].gen
                  due == SelectSeq(ringTasks[p], mine)
              IN  [i \in DOMAIN due |-> due[i].item]

\* What a reader was given and what is on its way is a part of the stream up to
\* its end, without a gap and without an item given twice, whenever it came and
\* whichever dispatchers its poller had before.
Gapless == \A r \in Readers : reader[r].at = "reading" =>
    LET all == reader[r].got \o Pending(r)
    IN  all = [i \in 1..Len(all) |-> Len(stream) - Len(all) + i]

\* Readers are counted as often as they are in a map.
Counted == total = Cardinality(UNION {InMap(p) : p \in Pollers})

\* A reader hears a message between the items written before it and those after.
InStep == \A r \in Readers : \A i \in DOMAIN reader[r].heard :
    LET said == reader[r].heard[i]
    IN  said[2] = <<>> \/ Last(said[2]) = said[1]

\* A question is answered once, when no poller has to be heard any more, and who
\* has read all the time is in the answer.
Answered == \A q \in DOMAIN asked :
    LET open == \E p \in Pollers : \E i \in DOMAIN ringTasks[p] :
                    ringTasks[p][i].kind = "info" /\ ringTasks[p][i].item = q
    IN  /\ asked[q].answers = IF open THEN 0 ELSE 1
        /\ ~open => {r \in asked[q].readers : reader[r].at = "reading"}
                       \subseteq asked[q].infos

RingRight == Kept /\ Gapless /\ Counted /\ InStep /\ Answered
=============================================================================
