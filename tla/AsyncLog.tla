------------------------------ MODULE AsyncLog ------------------------------
(***************************************************************************)
(* Logger with its AsyncLogWriter: lines are queued, the log thread swaps  *)
(* the queue out and writes it to the channel, where a line that repeats   *)
(* the last one is counted and printed at most every half second.  The     *)
(* destructors post the thread, join it, flush, and log once more.         *)
(***************************************************************************)
EXTENDS Naturals, Sequences, SequencesExt

CONSTANTS Texts,    \* the lines, told apart by file, number, text and thread
          Quiet,    \* those below the channel's level
          Farewell, \* the line ~Logger writes
          MaxLines, MaxLog \* bounds: lines written, and ticks of half a second

VARIABLES clock,
          pending, sem, \* _pending and _sem
          batch,   \* the tmp of flushAll
          writer,  \* the log thread
          closing, \* the thread in ~Logger
          last,    \* _last_log
          printed, \* what the channel has written
          logged   \* all lines, as they were queued

logVars == <<clock, pending, sem, batch, writer, closing, last, printed, logged>>

Nothing == [text |-> Farewell, at |-> 0, repeat |-> 0, none |-> TRUE]
Line(c) == [text |-> c, at |-> clock, repeat |-> 0, none |-> FALSE]

Init == /\ clock = 0 /\ pending = <<>> /\ sem = 0 /\ batch = <<>> /\ writer = "waits"
        /\ closing = "no" /\ last = Nothing /\ printed = <<>> /\ logged = <<>>

Tick == /\ clock < MaxLog /\ clock' = clock + 1
        /\ UNCHANGED <<pending, sem, batch, writer, closing, last, printed, logged>>

\* Some thread logs; the lock is held around the queue, not around the post.
Write(c) == /\ Len(logged) < MaxLines /\ closing = "no"
            /\ pending' = Append(pending, Line(c)) /\ sem' = sem + 1
            /\ logged' = Append(logged, c)
            /\ UNCHANGED <<clock, batch, writer, closing, last, printed>>

-----------------------------------------------------------------------------
\* writeChannels_l: a channel prints what is not below its level.
Prints(line) == IF line.text \in Quiet THEN <<>>
                ELSE <<[text |-> line.text, times |-> IF line.repeat > 1 THEN line.repeat ELSE 1]>>

Same(line) == ~last.none /\ line.text = last.text

\* mutant: the count is dropped when another line comes
WriteChannelsDrops(line) ==
    \/ /\ Same(line) /\ line.at <= last.at + 1
       /\ last' = [last EXCEPT !.repeat = @ + 1] /\ UNCHANGED printed
    \/ /\ Same(line) => line.at > last.at + 1
       /\ printed' = printed \o Prints([line EXCEPT !.repeat = IF Same(line) THEN last.repeat + 1 ELSE 0])
       /\ last' = line

\* A repeated line is counted, and printed with its count when the last printed
\* one is old; another line first prints the count that is open.
WriteChannels(line) ==
    \/ /\ Same(line) /\ line.at <= last.at + 1
       /\ last' = [last EXCEPT !.repeat = @ + 1] /\ UNCHANGED printed
    \/ /\ Same(line) /\ line.at > last.at + 1
       /\ printed' = printed \o Prints([line EXCEPT !.repeat = last.repeat + 1])
       /\ last' = line
    \/ /\ ~Same(line)
       /\ printed' = printed \o (IF last.repeat > 0 THEN Prints(last) ELSE <<>>) \o Prints(line)
       /\ last' = line

-----------------------------------------------------------------------------
\* The log thread

\* flushAll takes the queue in one step.
FlushAll == batch' = pending /\ pending' = <<>>

Wake == /\ writer = "waits" /\ sem > 0 /\ sem' = sem - 1
        /\ FlushAll /\ writer' = "flushes"
        /\ UNCHANGED <<clock, closing, last, printed, logged>>

WriteOne == /\ batch # <<>>
            /\ WriteChannels(Head(batch)) /\ batch' = Tail(batch)
            /\ UNCHANGED <<clock, pending, sem, writer, closing, logged>>

\* The exit flag is tested between two flushes.
Again == /\ writer = "flushes" /\ batch = <<>>
         /\ writer' = IF closing = "no" THEN "waits" ELSE "ended"
         /\ UNCHANGED <<clock, pending, sem, batch, closing, last, printed, logged>>

-----------------------------------------------------------------------------
\* ~AsyncLogWriter and ~Logger; the last reference is dropped when nobody logs.
Close == /\ closing = "no" /\ closing' = "joins" /\ sem' = sem + 1
         /\ UNCHANGED <<clock, pending, batch, writer, last, printed, logged>>

Joined == /\ closing = "joins" /\ writer = "ended"
          /\ FlushAll /\ closing' = "flushes"
          /\ UNCHANGED <<clock, sem, writer, last, printed, logged>>

SayFarewell == /\ closing = "flushes" /\ batch = <<>> /\ closing' = "done"
               /\ WriteChannels(Line(Farewell)) /\ logged' = Append(logged, Farewell)
               /\ UNCHANGED <<clock, pending, sem, batch, writer>>

Next == \/ Tick \/ \E c \in Texts : Write(c)
        \/ Wake \/ WriteOne \/ Again \/ Close \/ Joined \/ SayFarewell

Spec == Init /\ [][Next]_logVars

-----------------------------------------------------------------------------
Shown == FlattenSeq([i \in 1..Len(printed) |-> [k \in 1..printed[i].times |-> printed[i].text]])
Lines(q) == [i \in 1..Len(q) |-> q[i].text]
Loud(s) == SelectSeq(s, LAMBDA c : c \notin Quiet)

\* What the channel shows, each line as often as it says, then the count that is
\* open, the batch and the queue are all the lines in the order they were queued;
\* after the destructors all of them are shown.
LogRight ==
    /\ Shown \o Loud([k \in 1..last.repeat |-> last.text] \o Lines(batch) \o Lines(pending)) = Loud(logged)
    /\ closing = "done" => Shown = Loud(logged)
=============================================================================
