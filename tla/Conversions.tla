---------------------------- MODULE Conversions ----------------------------
(***************************************************************************)
(* Conversions of zltoolkit/Util that keep no state: base64, the date of a *)
(* time, splitting a text, and ini files.  Bytes and characters are        *)
(* numbers below 256.  A behaviour is one call.                            *)
(***************************************************************************)
EXTENDS Integers, Sequences, SequencesExt, FiniteSets, FiniteSetsExt, TLC

CONSTANTS Bytes, Chars64, MaxText, \* what is encoded, what is decoded, and how long
          Zones,   \* possible values of timezone: seconds west of Greenwich
          Days,    \* since 1970
          Seconds, \* of a day
          Pieces, MaxPieces, \* of an ini file
          Delims, MaxSplit,  \* delimiters, and the length of a text that is split
          Arguments, \* of an SQL statement
          ExeDir, Currents, PathPieces, MaxPath \* directories and the pieces of a path

VARIABLE call \* what was called, on what, and the result

Init == call = [what |-> "none"]

Called(what, in, out) ==
    call.what = "none" /\ call' = [what |-> what, in |-> in, out |-> out]

Texts(S, max) == UNION {[1..n -> S] : n \in 0..max}

-----------------------------------------------------------------------------
\* base64.cpp

Pad == 61 \* '='

\* b64: A to Z, a to z, 0 to 9, + and /
Letter(v) == CASE v < 26 -> 65 + v
               [] v \in 26..51 -> 97 + v - 26
               [] v \in 52..61 -> 48 + v - 52
               [] v = 62 -> 43
               [] v = 63 -> 47

\* map2, which is indexed by the character minus 43
Value(c) == CASE c \in 65..90 -> c - 65
              [] c \in 97..122 -> c - 97 + 26
              [] c \in 48..57 -> c - 48 + 52
              [] c = 43 -> 62
              [] c = 47 -> 63
              [] OTHER -> 255

\* i_bits and v hold the last bytes; of their 32 bits these matter.
Bits(n) == n % 2^16
Shift(n, k) == n \div 2^k

\* The characters that the inner loop of av_base64_encode_l writes when it has so
\* many bits in i_shift, and the i_shift it leaves.
Emitted(bits, shift, last) ==
    LET Char(s) == Letter(Shift(bits * 64, s) % 64)
    IN  CASE shift = 8 /\ ~last -> [dst |-> <<Char(8)>>, shift |-> 2]
          [] shift = 8 /\ last -> [dst |-> <<Char(8), Char(2)>>, shift |-> -4]
          [] shift = 10 /\ ~last -> [dst |-> <<Char(10)>>, shift |-> 4]
          [] shift = 10 /\ last -> [dst |-> <<Char(10), Char(4)>>, shift |-> -2]
          [] shift = 12 -> [dst |-> <<Char(12), Char(6)>>, shift |-> 0]

Encode(in) ==
    LET Byte(acc, i) ==
            LET bits == Bits(acc.bits * 256 + in[i])
                out  == Emitted(bits, acc.shift + 8, i = Len(in))
            IN  [bits |-> bits, shift |-> out.shift, dst |-> acc.dst \o out.dst]
        all == FoldLeft(Byte, [bits |-> 0, shift |-> 0, dst |-> <<>>],
                        [i \in 1..Len(in) |-> i]).dst
    IN  all \o [i \in 1..((3 * Len(all)) % 4) |-> Pad]

\* The text ends at a NUL or a '='.
Stop(in) == CHOOSE n \in 0..Len(in) :
               /\ \A i \in 1..n : in[i] \notin {0, Pad}
               /\ n = Len(in) \/ in[n + 1] \in {0, Pad}

\* mutant: the first character of four gives a byte as well
DecodeAll(in) ==
    LET Char(acc, i) ==
            LET v == Bits(acc.v * 64 + Value(in[i]))
                k == (i - 1) % 4
            IN  [v |-> v, dst |-> Append(acc.dst, Shift(v, 6 - 2 * k) % 256)]
    IN  IF \E i \in 1..Stop(in) : Value(in[i]) = 255 THEN <<>>
        ELSE FoldLeft(Char, [v |-> 0, dst |-> <<>>], [i \in 1..Stop(in) |-> i]).dst

Decode(in) ==
    LET Char(acc, i) ==
            LET v == Bits(acc.v * 64 + Value(in[i]))
                k == (i - 1) % 4
            IN  [v |-> v,
                 dst |-> IF k = 0 THEN acc.dst
                         ELSE Append(acc.dst, Shift(v, 6 - 2 * k) % 256)]
    IN  IF \E i \in 1..Stop(in) : Value(in[i]) = 255 THEN <<>>
        ELSE FoldLeft(Char, [v |-> 0, dst |-> <<>>], [i \in 1..Stop(in) |-> i]).dst

EncodeBase64 == \E in \in Texts(Bytes, MaxText) : Called("encode", in, Encode(in))
DecodeBase64 == \E in \in Texts(Chars64, MaxText) : Called("decode", in, Decode(in))

-----------------------------------------------------------------------------
\* local_time.cpp

SecsDay == 3600 * 24

\* mutant: every fourth year
IsLeapYearJulian(year) == year % 4 = 0

IsLeapYear(year) == year % 4 = 0 /\ (year % 100 # 0 \/ year % 400 = 0)
YearDays(year) == 365 + (IF IsLeapYear(year) THEN 1 ELSE 0)
MonthDays(year) ==
    <<31, IF IsLeapYear(year) THEN 29 ELSE 28, 31, 30, 31, 30, 31, 31, 30, 31, 30, 31>>

\* How far the subtractions of a loop go: past every length that is not more than
\* the days that are left.
YearOf[year \in Nat, days \in Int] ==
    IF YearDays(year) > days THEN [year |-> year, days |-> days]
    ELSE YearOf[year + 1, days - YearDays(year)]
MonthOf(mdays, yday) ==
    LET From[mon \in 0..11, days \in Int] ==
            IF days < mdays[mon + 1] THEN [mon |-> mon, days |-> days]
            ELSE From[mon + 1, days - mdays[mon + 1]]
    IN  From[0, yday]

\* What local_time_init read when the program began: nobody reads it again.
LocalTimeInit == Zones \X BOOLEAN

\* The time in seconds, as days and the seconds of a day: the zone is taken off, the
\* daylight saving put on.
Adjusted(day, second, zone, active) ==
    LET s == second - zone + (IF active THEN 3600 ELSE 0)
    IN  [days |-> day + s \div SecsDay, secs |-> s % SecsDay]

\* C divides towards zero: before 1970 the seconds are negative.
InC(t) == IF t.days < 0 /\ t.secs # 0 THEN [days |-> t.days + 1, secs |-> t.secs - SecsDay]
          ELSE t
Quotient(a, b) == IF a < 0 THEN -((-a) \div b) ELSE a \div b
Rest(a, b) == a - b * Quotient(a, b)

Tm(t, zone, active) ==
    LET year  == YearOf[1970, t.days]
        month == MonthOf(MonthDays(year.year), year.days)
    IN  [hour |-> Quotient(t.secs, 3600), min |-> Quotient(Rest(t.secs, 3600), 60),
         sec |-> Rest(Rest(t.secs, 3600), 60),
         wday |-> Rest(t.days + 4, 7), yday |-> year.days,
         year |-> year.year - 1900, mon |-> month.mon, mday |-> month.days + 1,
         isdst |-> active, gmtoff |-> -zone]

NoLocksLocaltime == \E day \in Days, second \in Seconds, init \in LocalTimeInit :
    LET local == Adjusted(day, second, init[1], init[2])
    IN  Called("date", local, Tm(InC(local), init[1], init[2]))

-----------------------------------------------------------------------------
\* util.cpp: split, with a delimiter of any length, and trim

Question == 63

At(text, delim, i) == i + Len(delim) - 1 <= Len(text) /\ SubSeq(text, i, i + Len(delim) - 1) = delim
Find(text, delim, from) ==
    LET at == {i \in from..Len(text) : At(text, delim, i)} IN IF at = {} THEN 0 ELSE Min(at)

Split(text, delim) ==
    LET From[last \in Nat] ==
            LET index == Find(text, delim, last)
                part  == SubSeq(text, last, index - 1)
            IN  IF index = 0
                THEN IF text = <<>> \/ last <= Len(text) THEN <<SubSeq(text, last, Len(text))>>
                     ELSE <<>>
                ELSE (IF part = <<>> THEN <<>> ELSE <<part>>) \o From[index + Len(delim)]
    IN  From[1]

SplitText == \E delim \in Delims : \E text \in Texts(UNION {Range(d) : d \in Delims}, MaxSplit) :
    Called("split", [text |-> text, delim |-> delim], Split(text, delim))

\* The first occurrence of part from a place on gives way to by; next is where the
\* search goes on, 0 if there was none.
Substitute(text, part, by, from) ==
    LET pos == Find(text, part, from)
    IN  IF pos = 0 THEN [text |-> text, next |-> 0]
        ELSE [text |-> SubSeq(text, 1, pos - 1) \o by \o SubSeq(text, pos + Len(part), Len(text)),
              next |-> pos + Len(by)]

Replace(text, old, new) ==
    LET From[t \in Seq(Nat), from \in Nat] ==
            LET s == Substitute(t, old, new, from)
            IN  IF s.next = 0 THEN t ELSE From[s.text, s.next]
    IN  IF old = <<>> \/ old = new THEN text ELSE From[text, 1]

ReplaceText == \E old, new \in Delims : \E text \in Texts(UNION {Range(d) : d \in Delims}, MaxSplit) :
    Called("replace", [text |-> text, old |-> old, new |-> new], Replace(text, old, new))

Blanks == {9, 10, 13, 32}
Trim(text) ==
    LET kept == {i \in 1..Len(text) : text[i] \notin Blanks}
    IN  IF kept = {} THEN <<>> ELSE SubSeq(text, Min(kept), Max(kept))

-----------------------------------------------------------------------------
\* SqlPool.h: each argument of a SqlStream takes the place of the next '?'.

SqlStream(sql, arguments) ==
    FoldLeft(LAMBDA acc, str :
                 LET s == Substitute(acc.text, <<Question>>, str, acc.next)
                 IN  IF s.next = 0 THEN acc ELSE s,
             [text |-> sql, next |-> 1], arguments).text

MakeStatement == \E sql \in Texts({Question, 97}, MaxSplit), arguments \in Texts(Arguments, 2) :
    Called("sql", [sql |-> sql, arguments |-> arguments], SqlStream(sql, arguments))

-----------------------------------------------------------------------------
\* File.cpp: absolutePath

Slash == 47  Dot == 46

ParentDir(path) ==
    LET dir == IF path # <<>> /\ Last(path) = Slash THEN Front(path) ELSE path
        pos == {i \in 1..Len(dir) : dir[i] = Slash}
    IN  IF pos = {} THEN dir ELSE SubSeq(dir, 1, Max(pos))

\* mutant: the root may be left by one step
OutsideLate(root, at) == Len(at) < Len(root)

\* A step to the parent would lead out of root.
Outside(root, at) == Len(at) <= Len(root)

\* The directories of path, one after the other, beginning in root; root itself is the
\* answer when path leads out of it and may not.
Walk(root, path, canAccessParent) ==
    LET Dir(acc, dir) ==
            IF acc.out \/ dir \in {<<>>, <<Dot>>} THEN acc
            ELSE IF dir # <<Dot, Dot>> THEN [acc EXCEPT !.at = @ \o dir \o <<Slash>>]
            ELSE IF ~canAccessParent /\ Outside(root, acc.at)
                 THEN [out |-> TRUE, at |-> root]
            ELSE [acc EXCEPT !.at = ParentDir(@)]
        end == FoldLeft(Dir, [out |-> FALSE, at |-> root], Split(path, <<Slash>>))
    IN  IF ~end.out /\ Last(path) # Slash /\ end.at # <<>> /\ Last(end.at) = Slash
        THEN Front(end.at) ELSE end.at

Rooted(dir) == IF dir # <<>> /\ Last(dir) = Slash THEN dir ELSE Append(dir, Slash)

AbsolutePath(path, current, canAccessParent) ==
    LET dir == IF current = <<>> THEN ExeDir
               ELSE IF Head(current) = Dot THEN Walk(ExeDir, current, TRUE) ELSE current
    IN  IF path = <<>> THEN dir ELSE Walk(Rooted(dir), path, canAccessParent)

FindPath == \E pieces \in Texts(PathPieces, MaxPath), current \in Currents, parent \in BOOLEAN :
    LET path == FlattenSeq(pieces)
    IN  Called("path", [path |-> path, current |-> current, parent |-> parent],
               AbsolutePath(path, current, parent))

-----------------------------------------------------------------------------
\* mini.h: an ini file is a function from keys, section.name, to values.

NL == 10  Semicolon == 59  Hash == 35  Equals == 61  Open == 91  Close == 93

\* tokenize: the lines that are not empty
Tokenize(text) == SelectSeq(Split(text, <<NL>>), LAMBDA line : line # <<>>)

Upto(text, i) == SubSeq(text, 1, i - 1)
Behind(text, i) == SubSeq(text, i + 1, Len(text))

Parse(text) ==
    LET Line(acc, raw) ==
            LET line   == Trim(raw)
                at     == Find(line, <<Equals>>, 1)
                symbol == Trim(acc.tag \o <<Dot>> \o IF at = 0 THEN line ELSE Upto(line, at))
                value  == IF at = 0 THEN <<>> ELSE Trim(Behind(line, at))
            IN  IF line = <<>> \/ Head(line) \in {Semicolon, Hash} THEN acc
                ELSE IF Len(line) >= 3 /\ Head(line) = Open /\ Last(line) = Close
                     THEN [acc EXCEPT !.tag = Trim(SubSeq(line, 2, Len(line) - 1))]
                     ELSE [acc EXCEPT !.ini = (symbol :> value) @@ @]
    IN  FoldLeft(Line, [ini |-> <<>>, tag |-> <<>>], Tokenize(text)).ini

\* The order of a std::map.
Before(a, b) == a # b /\ LET i == CHOOSE i \in 1..(Len(a) + 1) :
                                     /\ Upto(a, i) = Upto(b, i) /\ Len(b) >= i - 1
                                     /\ i > Len(a) \/ i > Len(b) \/ a[i] # b[i]
                         IN  i > Len(a) \/ (i <= Len(b) /\ a[i] < b[i])

\* mutant: the section goes up to the last dot
CutLast(key) ==
    LET pos == {i \in 1..Len(key) : key[i] = Dot}
    IN  IF pos = {} THEN <<<<>>, key>> ELSE <<Upto(key, Max(pos)), Behind(key, Max(pos))>>

Cut(key) ==
    LET pos == Find(key, <<Dot>>, 1)
    IN  IF pos = 0 THEN <<<<>>, key>> ELSE <<Upto(key, pos), Behind(key, pos)>>

\* The header and the footer are comments.
Dump(ini) ==
    LET Crlf == <<13, NL>>
        Entry(acc, key) ==
            LET kv   == Cut(key)
                line == kv[2] \o <<Equals>> \o ini[key] \o Crlf
                head == IF acc.tag = kv[1] THEN <<>>
                        ELSE Crlf \o <<Open>> \o kv[1] \o <<Close>> \o Crlf
            IN  IF kv[1] = <<>> THEN [acc EXCEPT !.front = @ \o line]
                ELSE [acc EXCEPT !.output = @ \o head \o line, !.tag = kv[1]]
        all == FoldLeft(Entry, [front |-> <<Semicolon>> \o Crlf, output |-> <<>>, tag |-> <<>>],
                        SetToSortSeq(DOMAIN ini, Before))
    IN  all.front \o all.output \o Crlf \o <<Semicolon>> \o Crlf

ParseIni == \E pieces \in Texts(Pieces, MaxPieces) :
    LET text == FlattenSeq(pieces) IN Called("ini", text, Parse(text))

-----------------------------------------------------------------------------
Next == EncodeBase64 \/ DecodeBase64 \/ NoLocksLocaltime \/ SplitText \/ ReplaceText \/ MakeStatement
        \/ FindPath \/ ParseIni

Spec == Init /\ [][Next]_call

-----------------------------------------------------------------------------
\* What base64 is: the bits of the bytes, six by six.
BitOf(text, width, b) ==
    LET i == b \div width
    IN  IF i < Len(text) THEN (text[i + 1] \div 2^(width - 1 - (b % width))) % 2 ELSE 0
Sextets(text) == [i \in 1..Len(text) |-> Value(text[i])]

\* Encoding gives the bits of the text and pads them to four characters, and what
\* was encoded decodes to itself.  A text with another character decodes to nothing,
\* any other to the whole bytes that its characters hold.
CodecRight ==
    /\ call.what = "encode" =>
          LET plain == call.in
              coded == call.out
              n == (Len(plain) * 8 + 5) \div 6 IN
          /\ Len(coded) = 4 * ((Len(plain) + 2) \div 3)
          /\ \A i \in 1..Len(coded) : (coded[i] = Pad) <=> (i > n)
          /\ \A b \in 0..(6 * n - 1) : BitOf(Sextets(coded), 6, b) = BitOf(plain, 8, b)
          /\ Decode(coded) = plain
    /\ call.what = "decode" =>
          LET text  == SubSeq(call.in, 1, Stop(call.in))
              plain == call.out IN
          IF \E i \in 1..Len(text) : Value(text[i]) = 255 THEN plain = <<>>
          ELSE /\ Len(plain) = (Len(text) * 6) \div 8
               /\ \A b \in 0..(8 * Len(plain) - 1) :
                     BitOf(plain, 8, b) = BitOf(Sextets(text), 6, b)

\* The days from 1970 to the first of January of a year, with a leap day every four
\* years but for three centuries of four.
DaysTo(year) == LET y == year - 1 IN
    (year - 1970) * 365 + (y \div 4 - 492) - (y \div 100 - 19) + (y \div 400 - 4)
LeapDay(year) == DaysTo(year + 1) - DaysTo(year) - 365
DaysBefore == <<0, 31, 59, 90, 120, 151, 181, 212, 243, 273, 304, 334, 365>>

\* From 1970 on the answer is a date of the calendar, and the date of that very second
\* in the time zone, with the daylight saving there was when the program began.
DateRight ==
    LET tm    == call.out
        local == call.in
        year  == tm.year + 1900
        To(mon) == DaysBefore[mon + 1] + (IF mon >= 2 THEN LeapDay(year) ELSE 0)
    IN  call.what = "date" /\ local.days >= 0 =>
            /\ tm.mon \in 0..11 /\ tm.min \in 0..59 /\ tm.sec \in 0..59
            /\ tm.mday >= 1 /\ To(tm.mon) + tm.mday <= To(tm.mon + 1)
            /\ tm.yday = To(tm.mon) + tm.mday - 1
            /\ DaysTo(year) + tm.yday = local.days
            /\ tm.hour * 3600 + tm.min * 60 + tm.sec = local.secs
            /\ tm.wday = (local.days + 4) % 7

\* A part of a text that was split holds no delimiter and only an empty text has an
\* empty part.
SplitRight ==
    call.what = "split" => \A i \in 1..Len(call.out) :
        /\ Find(call.out[i], call.in.delim, 1) = 0
        /\ call.in.text # <<>> => call.out[i] # <<>>

\* What was put in for something else is left as it is, even if it holds what is
\* searched for: the k-th placeholder of a statement gives way to the k-th argument,
\* and a text in which old was replaced is as long as that makes it.
ReplaceRight ==
    /\ call.what = "replace" =>
          LET at == {i \in 1..Len(call.in.text) : At(call.in.text, call.in.old, i)}
              apart == {s \in SUBSET at : \A i, j \in s : i < j => i + Len(call.in.old) <= j}
              most == Max({Cardinality(s) : s \in apart})
          IN  Len(call.out) = Len(call.in.text) + most * (Len(call.in.new) - Len(call.in.old))
    /\ call.what = "sql" =>
          LET sql == call.in.sql
              Rank(i) == Cardinality({j \in 1..i : sql[j] = Question})
              Is(i) == IF sql[i] = Question /\ Rank(i) <= Len(call.in.arguments)
                       THEN call.in.arguments[Rank(i)] ELSE <<sql[i]>>
          IN  call.out = FlattenSeq([i \in 1..Len(sql) |-> Is(i)])

\* Where a path leads: up to the parent or down; above the top there is nothing.
Steps(from, path) ==
    FoldLeft(LAMBDA acc, dir :
                 CASE dir = <<Dot>> -> acc
                   [] dir = <<Dot, Dot>> -> IF acc.at = <<>> THEN [acc EXCEPT !.above = TRUE]
                                            ELSE [acc EXCEPT !.at = Front(@)]
                   [] OTHER -> [acc EXCEPT !.at = Append(@, dir)],
             [at |-> from, above |-> FALSE],
             SelectSeq(Split(path, <<Slash>>), LAMBDA dir : dir # <<>>))

\* Unless it may leave the current directory, an absolute path is in it, however often
\* it goes up and down; else it leads where its parts lead, if not above the top.  No
\* part is '.' or '..'.
PathRight ==
    call.what = "path" =>
        LET root  == Steps(<<>>, AbsolutePath(<<>>, call.in.current, TRUE))
            parts == SelectSeq(Split(call.out, <<Slash>>), LAMBDA dir : dir # <<>>)
            leads == Steps(root.at, call.in.path)
        IN  /\ \A i \in 1..Len(parts) : parts[i] \notin {<<Dot>>, <<Dot, Dot>>}
            /\ IF call.in.parent THEN leads.above \/ parts = leads.at
               ELSE IsPrefix(root.at, parts)

\* A dot between brackets may be one in the name of a section.
DottedSection(text) == \E i \in 1..Len(text) :
    text[i] = Dot /\ Open \in Range(Upto(text, i)) /\ Close \in Range(Behind(text, i))

\* What was read from an ini file is read again from what is written of it, whatever
\* is in the file, unless a section has a dot in its name.
IniRight ==
    call.what = "ini" => DottedSection(call.in) \/ Parse(Dump(call.out)) = call.out

\* Each conversion gives what it stands for.
ConversionsRight == CodecRight /\ DateRight /\ SplitRight /\ ReplaceRight /\ PathRight /\ IniRight
=============================================================================
