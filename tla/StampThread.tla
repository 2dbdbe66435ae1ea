---------------------------- MODULE StampThread ----------------------------
(***************************************************************************)
(* The clock of zltoolkit: a thread reads the system's clock every half    *)
(* millisecond and stores it as it is, which may go back, and a count of   *)
(* elapsed time, which may not.  Every pollers' timer lives by the latter. *)
(* A unit of the model is a step of the system's clock.                    *)
(***************************************************************************)
EXTENDS Integers

CONSTANTS Milli,    \* units of a millisecond
          Limit,    \* units of a second: what counts as a change of the clock
          MaxReal, MaxSet \* bounds: time that passes, and settings of the clock

VARIABLES real,   \* time that has passed
          system, \* the system's clock
          lastSeen, microsecond, \* of the thread
          stored, \* the four values others read
          doing,  \* where the thread is
          awake,  \* real, when the thread last read the clock
          wrong,  \* what the count has lost or gained, by settings or by a long stop
          sets, highest

stampVars == <<real, system, lastSeen, microsecond, stored, doing, awake, wrong, sets, highest>>

Init == /\ real = 0 /\ system = MaxReal /\ lastSeen = MaxReal /\ microsecond = 0
        /\ stored = [micro |-> 0, milli |-> 0,
                     systemMicro |-> MaxReal, systemMilli |-> MaxReal \div Milli]
        /\ doing = "read" /\ awake = 0 /\ wrong = 0 /\ sets = 0 /\ highest = 0

Expired == system - lastSeen

\* mutant: a clock that was set back counts as well
CountAll(expired) == expired # 0

\* Only a step between 0 and a second is time that has passed.
Count(expired) == expired > 0 /\ expired < Limit

\* One round: the system's time is stored at once, the count behind it.
ReadClock ==
    /\ doing = "read"
    /\ lastSeen' = system /\ awake' = real
    /\ microsecond' = IF Count(Expired) THEN microsecond + Expired ELSE microsecond
    /\ wrong' = wrong + (microsecond' - microsecond) - (real - awake)
    /\ stored' = [stored EXCEPT !.systemMicro = system, !.systemMilli = system \div Milli]
    /\ doing' = IF Count(Expired) THEN "micro" ELSE "read"
    /\ UNCHANGED <<real, system, sets, highest>>

StoreMicro == /\ doing = "micro" /\ stored' = [stored EXCEPT !.micro = microsecond]
              /\ doing' = "milli"
              /\ UNCHANGED <<real, system, lastSeen, microsecond, awake, wrong, sets, highest>>

StoreMilli == /\ doing = "milli" /\ stored' = [stored EXCEPT !.milli = microsecond \div Milli]
              /\ doing' = "read"
              /\ UNCHANGED <<real, system, lastSeen, microsecond, awake, wrong, sets, highest>>

\* getCurrentMillisecond: highest is the latest answer that anyone got.
GetCurrentMillisecond == /\ highest' = IF stored.milli > highest THEN stored.milli ELSE highest
                         /\ UNCHANGED <<real, system, lastSeen, microsecond, stored, doing,
                                        awake, wrong, sets>>

\* Time passes, with the thread asleep for one unit or stopped for longer.
Tick == /\ real < MaxReal /\ real' = real + 1 /\ system' = system + 1
        /\ UNCHANGED <<lastSeen, microsecond, stored, doing, awake, wrong, sets, highest>>

\* Someone sets the clock.
SetClock(n) == /\ sets < MaxSet /\ sets' = sets + 1 /\ system' = system + n
               /\ UNCHANGED <<real, lastSeen, microsecond, stored, doing, awake, wrong, highest>>

Next == \/ ReadClock \/ StoreMicro \/ StoreMilli \/ GetCurrentMillisecond \/ Tick
        \/ \E n \in {-Limit, -1, 1, Limit} : SetClock(n)

Spec == Init /\ [][Next]_stampVars

-----------------------------------------------------------------------------
\* The count never goes back, whatever is done to the clock: no answer is less than
\* one given before, and milliseconds are never ahead of microseconds.  Each
\* setting of the clock puts it ahead of the time by less than a second, so that it is
\* never ahead while nobody sets the clock; then only stops of a second put it behind.
StampRight ==
    /\ stored.milli >= highest
    /\ stored.milli <= stored.micro \div Milli /\ stored.micro <= microsecond
    /\ wrong <= (Limit - 1) * sets
    /\ sets = 0 /\ wrong < 0 => wrong <= -Limit
=============================================================================
