--------------------------------- MODULE Toolkit ---------------------------------
(***************************************************************************)
(* Instances of the utilities of zltoolkit for TLC.  They share no state,  *)
(* so that one run checks them side by side: a behaviour exercises the one *)
(* that part names, and the variables of the others mean nothing.          *)
(***************************************************************************)
EXTENDS Integers, Sequences, FiniteSets, TLC, Sharing

CONSTANTS p1, r1, r2, t1, t2, x1, x2, l1, q1, f1 \* members of the sets of the parts

\* The names on certificates and those asked for: none, a.c, *.c, *.a.c; b.a.c, a.cc.c, b.
MCCertNames == {<<>>, <<97, 46, 99>>, <<42, 46, 99>>, <<42, 46, 97, 46, 99>>}
MCHosts == {<<>>, <<97, 46, 99>>, <<98, 46, 97, 46, 99>>, <<97, 46, 99, 99, 46, 99>>, <<98>>}

VARIABLES stream, master, ring, ringTasks, reader, total, messages, asked,
          text, str, head, tail, odd,
          memory, capacity, size, bare,
          kind, sizes, vec, off, remain, pkts, wire, told,
          clock, pending, sem, batch, writer, closing, last, printed, logged,
          ticks, begun, record, sleeping, lastSleep, lastWake, worked, position,
          flights, secure, box, net,
          algorithm, buffer, count, blocks, finalized, digest, fed, digested,
          conversion

Ring == INSTANCE RingBuffer WITH Pollers <- {p1}, Readers <- {r1, r2},
            MaxSize <- 2, MaxGops <- 2, MaxWrites <- 3, MaxTasks <- 2
Text == INSTANCE LikeString WITH Chars <- {x1, x2}, Nul <- f1, MaxStr <- 4
Raw == INSTANCE BufferRaw WITH MaxCapacity <- 9
List == INSTANCE SendList WITH MaxPackets <- 3, MaxBytes <- 2, IovMax <- 2
Log == INSTANCE AsyncLog WITH Texts <- {l1, q1}, Quiet <- {q1}, Farewell <- f1,
            MaxLines <- 4, MaxLog <- 2
Load == INSTANCE LoadCounter WITH Threads <- 1..2, MaxSize <- 2, MaxSpan <- 2, MaxTicks <- 3
Tls == INSTANCE SslBox WITH MaxSends <- 3
Digest == INSTANCE Digests WITH Block <- 8, LengthBytes <- 2, WordBits <- 7,
            MaxPiece <- 17, MaxFed <- 34
Convert == INSTANCE Conversions WITH Bytes <- {0, 1, 150, 255},
            Chars64 <- {43, 44, 61, 65, 122, 0}, MaxText <- 4, Zones <- {0, 28800},
            Seconds <- {0, 86399, 40000},
            Days <- {0, 1} \cup 787..791 \cup 11014..11018 \cup 11321..11324
                    \cup 47539..47543 \cup 47845..47848,
            Pieces <- {<<97>>, <<46>>, <<61>>, <<59>>, <<32>>, <<10>>, <<91, 97, 93, 10>>},
            MaxPieces <- 4, Delims <- {<<47>>, <<47, 47>>, <<47, 46>>}, MaxSplit <- 5,
            Arguments <- {<<>>, <<97>>, <<63, 98>>}, ExeDir <- <<47, 98, 47>>,
            Currents <- {<<>>, <<47>>, <<47, 97>>, <<46, 47, 97>>, <<46, 46>>},
            PathPieces <- {<<97>>, <<47>>, <<46>>, <<47, 46, 46>>}, MaxPath <- 4,
            call <- conversion

ringV == <<stream, master, ring, ringTasks, reader, total, messages, asked>>
textV == <<text, str, head, tail, odd>>
rawV == <<memory, capacity, size, bare>>
listV == <<kind, sizes, vec, off, remain, pkts, wire, told>>
logV == <<clock, pending, sem, batch, writer, closing, last, printed, logged>>
loadV == <<ticks, begun, record, sleeping, lastSleep, lastWake, worked, position>>
tlsV == <<flights, secure, box, net>>
digestV == <<algorithm, buffer, count, blocks, finalized, digest, fed, digested>>
convertV == <<conversion>>
all == <<sharingV, ringV, textV, rawV, listV, logV, loadV, tlsV, digestV, convertV>>

NoRing == stream = "-" /\ master = "-" /\ ring = "-" /\ ringTasks = "-" /\
          reader = "-" /\ total = "-" /\ messages = "-" /\ asked = "-"
NoText == text = "-" /\ str = "-" /\ head = "-" /\ tail = "-" /\ odd = "-"
NoRaw == memory = "-" /\ capacity = "-" /\ size = "-" /\ bare = "-"
NoList == kind = "-" /\ sizes = "-" /\ vec = "-" /\ off = "-" /\ remain = "-" /\
          pkts = "-" /\ wire = "-" /\ told = "-"
NoLog == clock = "-" /\ pending = "-" /\ sem = "-" /\ batch = "-" /\
         writer = "-" /\ closing = "-" /\ last = "-" /\ printed = "-" /\
         logged = "-"
NoLoad == ticks = "-" /\ begun = "-" /\ record = "-" /\ sleeping = "-" /\
          lastSleep = "-" /\ lastWake = "-" /\ worked = "-" /\ position = "-"
NoTls == flights = "-" /\ secure = "-" /\ box = "-" /\ net = "-"
NoDigest == algorithm = "-" /\ buffer = "-" /\ count = "-" /\ blocks = "-" /\
            finalized = "-" /\ digest = "-" /\ fed = "-" /\ digested = "-"
NoConvert == conversion = "-"

Init == /\ part \in {"pool", "notice", "udp", "read", "util", "adapters", "sql",
                     "slices", "stamp", "certs", "files", "ring",
                     "text", "raw", "list", "log", "load", "tls",
                     "digest", "convert"}
        /\ SharingInit
        /\ IF part = "ring" THEN Ring!Init ELSE NoRing
        /\ IF part = "text" THEN Text!Init ELSE NoText
        /\ IF part = "raw" THEN Raw!Init ELSE NoRaw
        /\ IF part = "list" THEN List!Init ELSE NoList
        /\ IF part = "log" THEN Log!Init ELSE NoLog
        /\ IF part = "load" THEN Load!Init ELSE NoLoad
        /\ IF part = "tls" THEN Tls!Init ELSE NoTls
        /\ IF part = "digest" THEN Digest!Init ELSE NoDigest
        /\ IF part = "convert" THEN Convert!Init ELSE NoConvert

SharingOnly == UNCHANGED <<ringV, textV, rawV, listV, logV, loadV, tlsV, digestV, convertV>>
RingOnly == part = "ring" /\ UNCHANGED <<sharingV, textV, rawV, listV, logV, loadV,
                tlsV, digestV, convertV>>
TextOnly == part = "text" /\ UNCHANGED <<sharingV, ringV, rawV, listV, logV, loadV,
                tlsV, digestV, convertV>>
RawOnly == part = "raw" /\ UNCHANGED <<sharingV, ringV, textV, listV, logV, loadV,
                tlsV, digestV, convertV>>
ListOnly == part = "list" /\ UNCHANGED <<sharingV, ringV, textV, rawV, logV, loadV,
                tlsV, digestV, convertV>>
LogOnly == part = "log" /\ UNCHANGED <<sharingV, ringV, textV, rawV, listV, loadV,
                tlsV, digestV, convertV>>
LoadOnly == part = "load" /\ UNCHANGED <<sharingV, ringV, textV, rawV, listV, logV,
                tlsV, digestV, convertV>>
TlsOnly == part = "tls" /\ UNCHANGED <<sharingV, ringV, textV, rawV, listV, logV,
                loadV, digestV, convertV>>
DigestOnly == part = "digest" /\ UNCHANGED <<sharingV, ringV, textV, rawV, listV, logV,
                loadV, tlsV, convertV>>
ConvertOnly == part = "convert" /\ UNCHANGED <<sharingV, ringV, textV, rawV, listV, logV,
                loadV, tlsV, digestV>>

Next == \/ SharingOnly /\ SharingNext
        \/ RingOnly /\ Ring!Next
        \/ TextOnly /\ Text!Next
        \/ RawOnly /\ Raw!Next
        \/ ListOnly /\ List!Next
        \/ LogOnly /\ Log!Next
        \/ LoadOnly /\ Load!Next
        \/ TlsOnly /\ Tls!Next
        \/ DigestOnly /\ Digest!Next
        \/ ConvertOnly /\ Convert!Next

Spec == Init /\ [][Next]_all

\* Threads, readers or pollers, and objects, peers or characters can be told apart by
\* their names alone.
Symmetry == Permutations({t1, t2}) \cup Permutations({r1, r2}) \cup Permutations({x1, x2})

\* The storage keeps its limits and begins at a key frame, no reader has a gap or an item
\* twice, readers are counted, a message keeps its place among the items, and a question is
\* answered once.
RingRight == part = "ring" => Ring!RingRight

\* A string is what it was told to be, a buffer keeps its size within its memory, and a
\* packet is told to be sent once all its bytes were.
BuffersRight ==
    /\ [](part = "text" => Text!LikeStringRight)
    /\ [](part = "raw" => Raw!SizeFits)
    /\ [][part = "raw" => Raw!AssignFits]_rawV
    /\ [](part = "list" => List!SendRight)

\* What is logged is printed, text goes through a TLS box in order and once, digests and
\* conversions give what they stand for, a load is one of the window, and making, deleting
\* and scanning of directories leave what they say.
CodecsRight ==
    /\ part = "log" => Log!LogRight
    /\ part = "tls" => Tls!SslRight
    /\ part = "digest" => Digest!DigestRight
    /\ part = "convert" => Convert!ConversionsRight
    /\ part = "load" => Load!LoadRight
    /\ part = "files" => Disk!AnswersRight
=============================================================================
