---------------------------- MODULE NoticeCenter ----------------------------
(***************************************************************************)
(* The notice center of zltoolkit, for one event.  The center's map and    *)
(* each dispatcher have a lock of their own, and every call takes them one *)
(* after the other: a dispatcher that was looked up may have left the map  *)
(* before the listener is put into it, and one that was found empty may    *)
(* have a listener again when it leaves.                                   *)
(***************************************************************************)
EXTENDS Naturals, FiniteSets

CONSTANTS NoticeThreads,
          Tags,           \* who listens; each adds one listener
          MaxDispatchers  \* bound: dispatchers made

VARIABLES center,     \* the dispatcher in the center's map; 0 is none
          made,       \* dispatchers made
          listeners,  \* per dispatcher: the tags in its map
          op,         \* per thread: the call it is in
          added,      \* the tags whose addListener returned, and no removal named since
          undisturbed \* those among them that met no removal on their way

noticeVars == <<center, made, listeners, op, added, undisturbed>>

Dispatchers == 1..MaxDispatchers
Idle == [at |-> "idle"]

Init == /\ center = 0 /\ made = 0 /\ listeners = [d \in Dispatchers |-> {}]
        /\ op = [t \in NoticeThreads |-> Idle] /\ added = {} /\ undisturbed = {}

Return(t) == op' = [op EXCEPT ![t] = Idle]

\* A removal in progress may take its dispatcher away under a new listener.
Removing(t, d) == op[t].at \in {"erase", "leave"} /\ op[t].disp = d

\* The listeners on their way into the center's dispatcher have met a removal.
Disturb == [t \in NoticeThreads |->
    IF op[t].at = "add" /\ op[t].disp = center
    THEN [op[t] EXCEPT !.alone = FALSE] ELSE op[t]]

-----------------------------------------------------------------------------
\* addListener.

GetDispatcher(t, tag) ==
    /\ op[t] = Idle
    /\ tag \notin added /\ \A u \in NoticeThreads : op[u].at = "add" => op[u].tag # tag
    /\ IF center = 0
       THEN made < MaxDispatchers /\ made' = made + 1 /\ center' = made + 1
       ELSE UNCHANGED <<made, center>>
    /\ op' = [op EXCEPT ![t] = [at |-> "add", tag |-> tag, disp |-> center',
                                alone |-> \A u \in NoticeThreads : ~Removing(u, center')]]
    /\ UNCHANGED <<listeners, added, undisturbed>>

AddListener(t) ==
    /\ op[t].at = "add"
    /\ listeners' = [listeners EXCEPT ![op[t].disp] = @ \cup {op[t].tag}]
    /\ added' = added \cup {op[t].tag}
    /\ undisturbed' = IF op[t].alone THEN undisturbed \cup {op[t].tag} ELSE undisturbed
    /\ Return(t)
    /\ UNCHANGED <<center, made>>

-----------------------------------------------------------------------------
\* delListener(tag, event), delListener(tag) and clearAll.

FindDispatcher(t, tag) ==
    /\ op[t] = Idle /\ center # 0
    /\ op' = [Disturb EXCEPT ![t] = [at |-> "erase", tag |-> tag, disp |-> center]]
    /\ UNCHANGED <<center, made, listeners, added, undisturbed>>

DelListener(t) ==
    LET d == op[t].disp
        left == listeners[d] \ {op[t].tag}
    IN  /\ op[t].at = "erase"
        /\ listeners' = [listeners EXCEPT ![d] = left]
        /\ added' = added \ {op[t].tag}
        /\ undisturbed' = undisturbed \ {op[t].tag}
        /\ op' = [op EXCEPT ![t] = IF left = {} THEN [at |-> "leave", disp |-> d] ELSE Idle]
        /\ UNCHANGED <<center, made>>

\* mutant: whatever dispatcher the event has now is dropped
DelDispatcherAny(t) ==
    /\ op[t].at = "leave" /\ center' = 0 /\ Return(t)
    /\ UNCHANGED <<made, listeners, added, undisturbed>>

\* Only the dispatcher that was found empty leaves the map.
DelDispatcher(t) ==
    /\ op[t].at = "leave"
    /\ center' = IF center = op[t].disp THEN 0 ELSE center
    /\ Return(t)
    /\ UNCHANGED <<made, listeners, added, undisturbed>>

\* The center's lock is held from the look to the end.
DelEverywhere(t, tag) ==
    /\ op[t] = Idle /\ center # 0
    /\ LET left == listeners[center] \ {tag}
       IN  /\ listeners' = [listeners EXCEPT ![center] = left]
           /\ center' = IF left = {} THEN 0 ELSE center
    /\ added' = added \ {tag} /\ undisturbed' = undisturbed \ {tag}
    /\ op' = Disturb
    /\ UNCHANGED made

ClearAll(t) == /\ op[t] = Idle
               /\ center' = 0 /\ added' = {} /\ undisturbed' = {} /\ op' = Disturb
               /\ UNCHANGED <<made, listeners>>

-----------------------------------------------------------------------------
\* emitEvent: the listeners are copied under the lock and called without it.

Emit(t) == /\ op[t] = Idle /\ center # 0
           /\ op' = [op EXCEPT ![t] = [at |-> "copy", disp |-> center]]
           /\ UNCHANGED <<center, made, listeners, added, undisturbed>>

Copy(t) == /\ op[t].at = "copy"
           /\ op' = [op EXCEPT ![t] = [at |-> "call", due |-> listeners[op[t].disp]]]
           /\ UNCHANGED <<center, made, listeners, added, undisturbed>>

\* A listener may throw InterruptException, and then no other is called.
CallListener(t, stop) ==
    /\ op[t].at = "call"
    /\ \E tag \in op[t].due :
          op' = [op EXCEPT ![t].due = IF stop THEN {} ELSE @ \ {tag}]
    /\ UNCHANGED <<center, made, listeners, added, undisturbed>>

Emitted(t) == /\ op[t].at = "call" /\ op[t].due = {} /\ Return(t)
              /\ UNCHANGED <<center, made, listeners, added, undisturbed>>

Next == \E t \in NoticeThreads :
    \/ AddListener(t) \/ DelListener(t) \/ DelDispatcher(t) \/ ClearAll(t)
    \/ Emit(t) \/ Copy(t) \/ Emitted(t)
    \/ \E stop \in BOOLEAN : CallListener(t, stop)
    \/ \E tag \in Tags : GetDispatcher(t, tag) \/ FindDispatcher(t, tag)
                         \/ DelEverywhere(t, tag)

Spec == Init /\ [][Next]_noticeVars

-----------------------------------------------------------------------------
\* A listener that was added while nobody was removing from its dispatcher stays reachable until a
\* removal names it. One that met a removal may be in a dispatcher nobody finds.
NotLost ==
    \A tag \in undisturbed : center # 0 /\ tag \in listeners[center]
=============================================================================
