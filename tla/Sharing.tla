--------------------------------- MODULE Sharing ---------------------------------
(***************************************************************************)
(* Utilities of zltoolkit side by side: what several threads share (pools, *)
(* listeners, UDP sessions, the two ends of a socket, directories), and    *)
(* what is kept (statements, log files, clocks, certificates).  They share *)
(* nothing with each other: a behaviour exercises the one that part names, *)
(* and the variables of the others mean nothing.                           *)
(***************************************************************************)
EXTENDS Integers, FiniteSets, Sequences

CONSTANTS PoolThreads, Objects, PoolSize,         \* of ResourcePool
          NoticeThreads, Tags, MaxDispatchers,    \* of NoticeCenter
          UdpPollers, Peers, MaxDatagrams, MaxQueue, MaxSessions, \* of UdpServer
          ReadPoller, ReadCallers, MaxArrivals, MaxCalls,         \* of SocketRead
          UtilThreads, Fds, Expire, MaxLag, SupportV6,            \* of SockUtil
          Names, Default, Docker, Loopback, Wildcard, Addresses, Private, Masks,
          MaxAdapters, MaxChanges,                \* of NetAdapters
          Statements, TryCnt, MaxAttempts,        \* of SqlPool
          Base, MaxCount, MaxDays, DayTicks, LogTicks, Lag, \* of FileLog
          Milli, Limit, MaxReal, MaxSet,          \* of StampThread
          CertNames, Hosts, MaxLoads,             \* of SslContexts
          FileThreads, DirNames, FileNames, Hidden, MaxDepth, MaxFileCalls \* of Files

\* "made" marks a read that has its session already (UdpServer): no peer is called so.
ASSUME SharingAssumption == PoolSize \in Nat /\ MaxDispatchers \in Nat /\ "made" \notin Peers
ASSUME UtilAssumption == IsFiniteSet(UtilThreads) /\ Fds \subseteq Nat /\ Expire \in Nat /\ MaxLag \in Nat
ASSUME AdaptersAssumption == Addresses \subseteq Nat
ASSUME SqlAssumption == TryCnt \in Int
ASSUME FileLogAssumption == /\ Base \in Nat \ {0} /\ DayTicks \in Nat \ {0}
                            /\ MaxCount \in Nat /\ MaxDays \in Nat /\ Lag \in Nat
ASSUME StampAssumption == Milli \in Nat \ {0} /\ Limit \in Nat \ {0} /\ MaxReal \in Nat
ASSUME CertsAssumption == CertNames \subseteq Seq(Nat) /\ Hosts \subseteq Seq(Nat)
ASSUME FilesAssumption == MaxDepth \in Nat

VARIABLES part,
          objs, busy, call, held, unborn, quit, owned,
          center, made, listeners, op, added, undisturbed,
          sessionMap, sessions, sender, queued, reading, erasures, up,
          sort, once, inbox, fin, arrived, watched, reads, ready, recving,
          holder, emitted, place, flags, jobs, got, errs, late, history, calls,
          cache, use, files, given,
          adapters, asking, answers, changes, sameAll,
          unasked, queue, failed, confirmed, abandoned, attempts, server, spare,
          now, started, logDir, known, index, lastDay, lastCheck, path,
          canWrite, gone, lateLine,
          real, system, lastSeen, microsecond, stored, doing, awake, wrong,
          sets, highest,
          emptyCtx, ctxs, wildcards, defaultVhost, loads, found,
          disk, at, answer, lost, fileCalls

Pool == INSTANCE ResourcePool
Notice == INSTANCE NoticeCenter
Udp == INSTANCE UdpServer
Read == INSTANCE SocketRead WITH held <- holder
Util == INSTANCE SockUtil
Adapters == INSTANCE NetAdapters
Sql == INSTANCE SqlPool
Slices == INSTANCE FileLog WITH disk <- logDir, files <- known, late <- lateLine
Stamp == INSTANCE StampThread
Certs == INSTANCE SslContexts
Disk == INSTANCE Files WITH MaxCalls <- MaxFileCalls, calls <- fileCalls

poolV == <<objs, busy, call, held, unborn, quit, owned>>
noticeV == <<center, made, listeners, op, added, undisturbed>>
udpV == <<sessionMap, sessions, sender, queued, reading, erasures, up>>
readV == <<sort, once, inbox, fin, arrived, watched, reads, ready, recving, holder,
          emitted, place, flags, jobs, got, errs, late, history, calls>>
utilV == <<cache, use, files, given>>
adaptersV == <<adapters, asking, answers, changes, sameAll>>
sqlV == <<unasked, queue, failed, confirmed, abandoned, attempts, server, spare>>
slicesV == <<now, started, logDir, known, index, lastDay, lastCheck, path, canWrite,
            gone, lateLine>>
stampV == <<real, system, lastSeen, microsecond, stored, doing, awake, wrong, sets,
           highest>>
certsV == <<emptyCtx, ctxs, wildcards, defaultVhost, loads, found>>
filesV == <<disk, at, answer, lost, fileCalls>>
sharingV == <<part, poolV, noticeV, udpV, readV, utilV, adaptersV,
             sqlV, slicesV, stampV, certsV, filesV>>

NoPool == objs = "-" /\ busy = "-" /\ call = "-" /\ held = "-" /\ unborn = "-"
          /\ quit = "-" /\ owned = "-"
NoNotice == center = "-" /\ made = "-" /\ listeners = "-" /\ op = "-" /\
            added = "-" /\ undisturbed = "-"
NoUdp == sessionMap = "-" /\ sessions = "-" /\ sender = "-" /\ queued = "-" /\
         reading = "-" /\ erasures = "-" /\ up = "-"
NoRead == sort = "-" /\ once = "-" /\ inbox = "-" /\ fin = "-" /\ arrived = "-"
          /\ watched = "-" /\ reads = "-" /\ ready = "-" /\ recving = "-" /\
          holder = "-" /\ emitted = "-" /\ place = "-" /\ flags = "-" /\
          jobs = "-" /\ got = "-" /\ errs = "-" /\ late = "-" /\ history = "-"
          /\ calls = "-"
NoUtil == cache = "-" /\ use = "-" /\ files = "-" /\ given = "-"
NoAdapters == adapters = "-" /\ asking = "-" /\ answers = "-" /\ changes = "-" /\
              sameAll = "-"
NoSql == unasked = "-" /\ queue = "-" /\ failed = "-" /\ confirmed = "-" /\
         abandoned = "-" /\ attempts = "-" /\ server = "-" /\ spare = "-"
NoSlices == now = "-" /\ started = "-" /\ logDir = "-" /\ known = "-" /\
            index = "-" /\ lastDay = "-" /\ lastCheck = "-" /\ path = "-" /\
            canWrite = "-" /\ gone = "-" /\ lateLine = "-"
NoStamp == real = "-" /\ system = "-" /\ lastSeen = "-" /\ microsecond = "-" /\
           stored = "-" /\ doing = "-" /\ awake = "-" /\ wrong = "-" /\
           sets = "-" /\ highest = "-"
NoCerts == emptyCtx = "-" /\ ctxs = "-" /\ wildcards = "-" /\ defaultVhost = "-"
           /\ loads = "-" /\ found = "-"
NoDisk == disk = "-" /\ at = "-" /\ answer = "-" /\ lost = "-" /\
          fileCalls = "-"

SharingInit == /\ IF part = "pool" THEN Pool!Init ELSE NoPool
               /\ IF part = "notice" THEN Notice!Init ELSE NoNotice
               /\ IF part = "udp" THEN Udp!Init ELSE NoUdp
               /\ IF part = "read" THEN Read!Init ELSE NoRead
               /\ IF part = "util" THEN Util!Init ELSE NoUtil
               /\ IF part = "adapters" THEN Adapters!Init ELSE NoAdapters
               /\ IF part = "sql" THEN Sql!Init ELSE NoSql
               /\ IF part = "slices" THEN Slices!Init ELSE NoSlices
               /\ IF part = "stamp" THEN Stamp!Init ELSE NoStamp
               /\ IF part = "certs" THEN Certs!Init ELSE NoCerts
               /\ IF part = "files" THEN Disk!Init ELSE NoDisk

SharingNext == \/ part = "pool" /\ Pool!Next
                  /\ UNCHANGED <<part, noticeV, udpV, readV, utilV, adaptersV,
                                 sqlV, slicesV, stampV, certsV, filesV>>
               \/ part = "notice" /\ Notice!Next
                  /\ UNCHANGED <<part, poolV, udpV, readV, utilV, adaptersV,
                                 sqlV, slicesV, stampV, certsV, filesV>>
               \/ part = "udp" /\ Udp!Next
                  /\ UNCHANGED <<part, poolV, noticeV, readV, utilV, adaptersV,
                                 sqlV, slicesV, stampV, certsV, filesV>>
               \/ part = "read" /\ Read!Next
                  /\ UNCHANGED <<part, poolV, noticeV, udpV, utilV, adaptersV,
                                 sqlV, slicesV, stampV, certsV, filesV>>
               \/ part = "util" /\ Util!Next
                  /\ UNCHANGED <<part, poolV, noticeV, udpV, readV, adaptersV,
                                 sqlV, slicesV, stampV, certsV, filesV>>
               \/ part = "adapters" /\ Adapters!Next
                  /\ UNCHANGED <<part, poolV, noticeV, udpV, readV, utilV,
                                 sqlV, slicesV, stampV, certsV, filesV>>
               \/ part = "sql" /\ Sql!Next
                  /\ UNCHANGED <<part, poolV, noticeV, udpV, readV, utilV,
                                 adaptersV, slicesV, stampV, certsV, filesV>>
               \/ part = "slices" /\ Slices!Next
                  /\ UNCHANGED <<part, poolV, noticeV, udpV, readV, utilV,
                                 adaptersV, sqlV, stampV, certsV, filesV>>
               \/ part = "stamp" /\ Stamp!Next
                  /\ UNCHANGED <<part, poolV, noticeV, udpV, readV, utilV,
                                 adaptersV, sqlV, slicesV, certsV, filesV>>
               \/ part = "certs" /\ Certs!Next
                  /\ UNCHANGED <<part, poolV, noticeV, udpV, readV, utilV,
                                 adaptersV, sqlV, slicesV, stampV, filesV>>
               \/ part = "files" /\ Disk!Next
                  /\ UNCHANGED <<part, poolV, noticeV, udpV, readV, utilV,
                                 adaptersV, sqlV, slicesV, stampV, certsV>>

SharingSpec == SharingInit /\ [][SharingNext]_sharingV

\* A pooled object is in one place and its vector in the hands of one thread; an
\* undisturbed listener is found by every later emit.
SharingRight ==
    /\ part = "pool" => Pool!PoolRight
    /\ part = "notice" => Notice!NotLost

\* A UDP session is in the map or was told, once, that it ended, and a datagram is taken
\* once.
UdpRight == part = "udp" => Udp!UdpRight

\* What arrives is read, an error is told once on the poller, the calls that make
\* descriptors leak none, and addresses are those of an adapter there was.
SocketsRight ==
    /\ part = "read" => Read!ReadRight
    /\ part = "util" => Util!UtilRight
    /\ part = "adapters" => Adapters!AdaptersRight

\* No statement is dropped before its attempts, the log files that go are the oldest, the
\* elapsed time never goes back, a handshake is given the certificate that covers its host,
\* and no file is removed unasked.
RecordsRight ==
    /\ part = "sql" => Sql!StatementKept
    /\ part = "slices" => Slices!FileLogRight
    /\ part = "stamp" => Stamp!StampRight
    /\ part = "certs" => Certs!ContextsRight
    /\ part = "files" => Disk!NoFileLost

\* A datagram that came to the socket of another session goes to its sender's session.
OwnPeer == part = "udp" => Udp!OwnPeer

\* A statement is tried no more often than asyncQuery was told.
TriesBounded == part = "sql" => Sql!TriesBounded
=============================================================================
