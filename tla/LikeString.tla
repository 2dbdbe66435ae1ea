----------------------------- MODULE LikeString -----------------------------
(***************************************************************************)
(* BufferLikeString: a string that erases at its ends by counting, so that *)
(* the erased characters stay in the std::string below it until something  *)
(* moves them.  text is what a std::string would hold after the same calls.*)
(***************************************************************************)
EXTENDS Naturals, Sequences, SequencesExt

CONSTANTS Chars, Nul,
          MaxStr \* bound: characters in _str

VARIABLES text, str,
          head, tail, \* _erase_head and _erase_tail
          odd         \* the calls a std::string would answer differently

likeVars == <<text, str, head, tail, odd>>

Init == text = <<>> /\ str = <<>> /\ head = 0 /\ tail = 0 /\ odd = {}

Size == Len(str) - tail - head
Content == SubSeq(str, head + 1, head + Size)

\* Writing to s[i]; the terminator of the std::string itself stays.
Put(s, i, c) == IF i + 1 \in DOMAIN s THEN [s EXCEPT ![i + 1] = c] ELSE s
Spliced(s, i, new) == SubSeq(s, 1, i) \o new \o SubSeq(s, i + 1, Len(s))
Cut(s, i, n) == SubSeq(s, 1, i) \o SubSeq(s, i + n + 1, Len(s))
Fits == Len(str') <= MaxStr
Words == {<<c>> : c \in Chars} \cup {<<c, d>> : c, d \in Chars}

-----------------------------------------------------------------------------
\* erase

EraseFront(n) == /\ n <= Size
                 /\ head' = head + n
                 /\ str' = Put(str, head + Size, Nul)
                 /\ text' = Cut(text, 0, n)
                 /\ UNCHANGED <<tail, odd>>

EraseAll == /\ head' = 0 /\ tail' = Len(str) /\ str' = Put(str, 0, Nul) /\ text' = <<>>
            /\ UNCHANGED odd

EraseTail(pos) == /\ pos > 0 /\ pos < Size
                  /\ tail' = tail + Size - pos
                  /\ str' = Put(str, head + pos, Nul)
                  /\ text' = SubSeq(text, 1, pos)
                  /\ UNCHANGED <<head, odd>>

EraseMiddle(pos, n) == /\ pos > 0 /\ pos + n < Size
                       /\ str' = Cut(str, head + pos, n)
                       /\ text' = Cut(text, pos, n)
                       /\ UNCHANGED <<head, tail, odd>>

-----------------------------------------------------------------------------
\* append and the others

\* The erased front is moved out when it is more than half of the capacity, and
\* that is at least the length.
Moves == {FALSE} \cup {head > 0 /\ head > Len(str) \div 2}

\* mutant: the new characters come behind the erased ones
AppendBehind(s) == \E move \in Moves :
    /\ str' = (IF move THEN Cut(str, 0, head) ELSE str) \o s
    /\ head' = IF move THEN 0 ELSE head
    /\ Fits /\ text' = text \o s
    /\ UNCHANGED <<tail, odd>>

AppendStr(s) == \E move \in Moves :
    /\ head' = IF move THEN 0 ELSE head
    /\ str' = Spliced(IF move THEN Cut(str, 0, head) ELSE str, head' + Size, s)
    /\ Fits /\ text' = text \o s
    /\ UNCHANGED <<tail, odd>>

\* An erased character behind the end gives its place.
PushBack(c) == /\ IF tail = 0 THEN str' = Append(str, c) /\ UNCHANGED tail
                  ELSE /\ str' = Put(Put(str, head + Size, c), head + Size + 1, Nul)
                       /\ tail' = tail - 1
               /\ Fits /\ text' = Append(text, c)
               /\ UNCHANGED <<head, odd>>

Insert(pos, s) == /\ pos <= Size /\ str' = Spliced(str, head + pos, s)
                  /\ Fits /\ text' = Spliced(text, pos, s)
                  /\ UNCHANGED <<head, tail, odd>>

\* assign from a part of itself only counts; no terminator is written.
AssignInside(pos, n) == /\ n > 0 /\ pos + n <= Size
                        /\ head' = head + pos /\ tail' = Len(str) - head - pos - n
                        /\ text' = SubSeq(text, pos + 1, pos + n)
                        /\ odd' = odd \cup {"inside"}
                        /\ UNCHANGED str

AssignStr(s) == str' = s /\ head' = 0 /\ tail' = 0 /\ text' = s /\ UNCHANGED odd

\* What was erased comes back.
Resize(n, c) ==
    LET sized(s) == IF n <= Len(s) THEN SubSeq(s, 1, n)
                    ELSE s \o [i \in 1..(n - Len(s)) |-> c]
    IN  /\ str' = sized(str) /\ head' = 0 /\ tail' = 0
        /\ Fits /\ text' = sized(text)
        /\ odd' = IF head + tail = 0 THEN odd ELSE odd \cup {"resize"}

Clear == str' = <<>> /\ head' = 0 /\ tail' = 0 /\ text' = <<>> /\ UNCHANGED odd

Next == \/ \E s \in Words : AppendStr(s) \/ AssignStr(s) \/ \E pos \in 0..Size : Insert(pos, s)
        \/ \E c \in Chars : PushBack(c) \/ \E n \in 0..MaxStr : Resize(n, c)
        \/ \E pos \in 0..Size :
              \/ EraseFront(pos) \/ EraseTail(pos)
              \/ \E n \in 1..MaxStr : EraseMiddle(pos, n) \/ AssignInside(pos, n)
        \/ EraseAll \/ Clear

Spec == Init /\ [][Next]_likeVars

-----------------------------------------------------------------------------
\* The characters are those a std::string would hold, until it is resized with
\* erased characters at an end; they end with a zero unless they were assigned
\* from a part of themselves.
LikeStringRight ==
    /\ "resize" \notin odd => Content = text
    /\ (odd = {} /\ head + Size + 1 \in DOMAIN str) => str[head + Size + 1] = Nul
=============================================================================
