------------------------------ MODULE SqlPool ------------------------------
(***************************************************************************)
(* SqlPool of zltoolkit: statements are run on one thread with connections *)
(* from a pool; one that failed is kept until a timer asks for it again.   *)
(* The timer calls asyncQuery(sql, tryCnt), whose further arguments are    *)
(* those of a printf: the count does not arrive as one.                    *)
(***************************************************************************)
EXTENDS Naturals, Sequences, FiniteSets, Functions

CONSTANTS Statements,
          TryCnt,     \* 3, the default of asyncQuery_l
          MaxAttempts \* bound: attempts at all statements

VARIABLES unasked,   \* statements that nobody has asked for yet
          queue,     \* of _threadPool: statement and tryCnt
          failed,    \* _error_query: statement and what is left of its tryCnt
          confirmed, \* statements that the server has said it executed
          abandoned, \* those that were given up
          attempts,  \* of each statement
          server,    \* the server answers
          spare      \* the pool has a connection: fresh, stale (the server closed it) or none

sqlVars == <<unasked, queue, failed, confirmed, abandoned, attempts, server, spare>>

\* Init of the class has obtained a connection and given it back.
Init == /\ unasked = Statements /\ queue = <<>> /\ failed = <<>>
        /\ confirmed = {} /\ abandoned = {}
        /\ attempts = [q \in Statements |-> 0]
        /\ server = TRUE /\ spare = "fresh"

\* asyncQuery_l
Enqueue(q, tryCnt) == queue' = Append(queue, [sql |-> q, try |-> tryCnt])

AsyncQuery(q) ==
    /\ q \in unasked /\ unasked' = unasked \ {q}
    /\ Enqueue(q, TryCnt)
    /\ UNCHANGED <<failed, confirmed, abandoned, attempts, server, spare>>

\* syncQuery: without a spare connection a new one is made.  A connection that was
\* used in vain is not given back; the server may also refuse the statement.
Works == server /\ spare # "stale"

\* bound: attempts
More == FoldFunctionOnSet(LAMBDA a, b : a + b, 0, attempts, Statements) < MaxAttempts

RunQuery ==
    /\ queue # <<>> /\ More
    /\ queue' = Tail(queue)
    /\ attempts' = [attempts EXCEPT ![Head(queue).sql] = @ + 1]
    /\ \/ /\ Works
          /\ confirmed' = confirmed \cup {Head(queue).sql} /\ spare' = "fresh"
          /\ UNCHANGED <<failed, abandoned>>
       \/ /\ spare' = "none"
          /\ IF Head(queue).try - 1 > 0
             THEN /\ failed' = Append(failed, [sql |-> Head(queue).sql,
                                               try |-> Head(queue).try - 1])
                  /\ UNCHANGED abandoned
             ELSE abandoned' = abandoned \cup {Head(queue).sql} /\ UNCHANGED failed
          /\ UNCHANGED confirmed
    /\ UNCHANGED <<unasked, server>>

\* mutant: the list is copied, not swapped
FlushErrorCopy ==
    /\ failed # <<>>
    /\ queue' = queue \o [i \in 1..Len(failed) |-> [sql |-> failed[i].sql, try |-> TryCnt]]
    /\ UNCHANGED <<failed, unasked, confirmed, abandoned, attempts, server, spare>>

\* flushError, every 30 seconds: asyncQuery takes the default for tryCnt.
FlushError ==
    /\ failed # <<>> /\ failed' = <<>>
    /\ queue' = queue \o [i \in 1..Len(failed) |-> [sql |-> failed[i].sql, try |-> TryCnt]]
    /\ UNCHANGED <<unasked, confirmed, abandoned, attempts, server, spare>>

\* The server goes away, with the connections, and comes back.
ServerChanges == /\ server' = ~server
                 /\ spare' = IF spare = "fresh" THEN "stale" ELSE spare
                 /\ UNCHANGED <<unasked, queue, failed, confirmed, abandoned, attempts>>

Next == \/ \E q \in Statements : AsyncQuery(q)
        \/ RunQuery \/ FlushError \/ ServerChanges

Spec == Init /\ [][Next]_sqlVars

-----------------------------------------------------------------------------
Places(q) == Cardinality({i \in 1..Len(queue) : queue[i].sql = q})
             + Cardinality({i \in 1..Len(failed) : failed[i].sql = q})

\* However often the server fails, a statement that was asked for waits in one place
\* until it is confirmed or given up, and is asked for no more then.
StatementKept == \A q \in Statements :
    Places(q) = IF q \in unasked \cup confirmed \cup abandoned THEN 0 ELSE 1

\* A statement is tried tryCnt times, as asyncQuery_l counts them.
TriesBounded == \A q \in Statements : attempts[q] <= TryCnt
=============================================================================
