------------------------------ MODULE FileLog ------------------------------
(***************************************************************************)
(* FileChannel: a log file per day and slice, a new slice when the file is *)
(* large, and the removal of old files and of too many, in the order of    *)
(* their names.  Names write the slice with at least two digits to Base    *)
(* (ten in the code).  A tick is a little more than the minute between two *)
(* looks at the size.                                                      *)
(***************************************************************************)
EXTENDS Integers, FiniteSets

CONSTANTS Base,
          MaxCount, MaxDays, \* _log_max_count and _log_max_day
          DayTicks,
          LogTicks, Lag      \* bounds: the clock, and the age of a line when it is written

VARIABLES now, started,
          disk,  \* the log files in the directory
          files, \* _log_file_map
          index, lastDay, lastCheck,
          path, canWrite,
          gone,  \* the files last removed for their number
          late   \* a line of an earlier day came behind one of a later day

fileVars == <<now, started, disk, files, index, lastDay, lastCheck, path, canWrite, gone, late>>

Day(second) == second \div DayTicks
NoPath == [day |-> -1, slice |-> 0]

\* The order of the names of one day: two digits compare as the numbers do, of
\* three digits the first two decide.
Wide(slice) == slice >= Base * Base
SliceBefore(m, n) == CASE Wide(m) /\ ~Wide(n) -> m \div Base < n
                       [] ~Wide(m) /\ Wide(n) -> m <= n \div Base
                       [] OTHER -> m < n
NameBefore(f, g) == f.day < g.day \/ (f.day = g.day /\ SliceBefore(f.slice, g.slice))

\* The constructor finds the files and takes the last slice of today up again.
Construct(second) ==
    /\ files' = disk
    /\ LET slices == {0} \cup {f.slice : f \in {g \in disk : g.day = Day(second)}}
       IN  index' = CHOOSE n \in slices : \A m \in slices : m <= n
    /\ started' = second /\ lastDay' = -1 /\ lastCheck' = -1
    /\ path' = NoPath /\ canWrite' = FALSE /\ gone' = {} /\ late' = FALSE

Init == /\ now = 0 /\ started = 0 /\ disk = {} /\ files = {} /\ index = 0
        /\ lastDay = -1 /\ lastCheck = -1 /\ path = NoPath /\ canWrite = FALSE
        /\ gone = {} /\ late = FALSE

Tick == /\ now < LogTicks /\ now' = now + 1
        /\ UNCHANGED <<started, disk, files, index, lastDay, lastCheck, path, canWrite, gone, late>>

Restart == Construct(now) /\ UNCHANGED <<now, disk>>

-----------------------------------------------------------------------------
\* clean: the names of too many days ago, then the first names while there are
\* too many, up to the file that is open.
Aged(S) == {f \in S : f.day + MaxDays <= Day(now)}

\* mutant: the open file is not spared
TooManyAny(S, open) == {f \in S : Cardinality({g \in S : NameBefore(g, f)}) < Cardinality(S) - MaxCount}

TooMany(S, open) ==
    {f \in S : /\ Cardinality({g \in S : NameBefore(g, f)}) < Cardinality(S) - MaxCount
               /\ open \in S => NameBefore(f, open)}

\* The name is noted whether the file opens or not.
ChangeFile(second, slice) ==
    LET file  == [day |-> Day(second), slice |-> slice]
        noted == (files \cup {file}) \ Aged(files \cup {file})
        many  == TooMany(noted, file)
    IN  \E opened \in BOOLEAN :
            /\ path' = file /\ canWrite' = opened /\ index' = slice + 1
            /\ files' = noted \ many /\ gone' = many
            /\ disk' = ((IF opened THEN disk \cup {file} ELSE disk) \ Aged(files \cup {file})) \ many

\* A stream that did not open has no size, and that is a large one.
CheckSize(second) ==
    /\ lastCheck' = IF second > lastCheck THEN second ELSE lastCheck
    /\ \/ second > lastCheck /\ ChangeFile(second, index)
       \/ /\ second > lastCheck => canWrite
          /\ UNCHANGED <<disk, files, index, path, canWrite, gone>>

Write(second) ==
    /\ second >= started /\ index < Base * Base + Base
    /\ \/ Day(second) # lastDay /\ lastDay' = Day(second)
          /\ ChangeFile(second, IF lastDay = -1 THEN index ELSE 0)
          /\ UNCHANGED lastCheck
       \/ Day(second) = lastDay /\ CheckSize(second) /\ UNCHANGED lastDay
    /\ late' = (late \/ Day(second) < lastDay)
    /\ UNCHANGED <<now, started>>

Next == Tick \/ Restart \/ \E age \in 0..Lag : Write(now - age)

Spec == Init /\ [][Next]_fileVars

-----------------------------------------------------------------------------
Older(f, g) == f.day < g.day \/ (f.day = g.day /\ f.slice < g.slice)
Narrow == \A f \in files \cup gone : ~Wide(f.slice)

\* Cleaning never takes the open file while its day is kept; while slices have two
\* digits it takes the oldest ones; the number is kept unless the open file comes
\* first; and without late lines the open file is the newest.
FileLogRight ==
    /\ disk \subseteq files
    /\ canWrite => path \in disk \/ path.day + MaxDays <= Day(now)
    /\ Narrow => \A f \in gone, g \in files : Older(f, g)
    /\ path \in files => \/ Cardinality(files) <= MaxCount
                         \/ \A f \in files : ~NameBefore(f, path)
    /\ (~late /\ path # NoPath) => \A f \in files \ {path} : Older(f, path)
=============================================================================
