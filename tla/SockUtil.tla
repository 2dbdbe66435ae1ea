------------------------------ MODULE SockUtil ------------------------------
(***************************************************************************)
(* SockUtil: the cache of host names, and the calls that make, bind and    *)
(* connect a descriptor, on any thread and with every system call failing  *)
(* where it may.  Ages are counted from now, so that time has no bound.    *)
(* One host stands for all; of an address only the family matters, of a    *)
(* local address also whether it is a certain one.                         *)
(***************************************************************************)
EXTENDS Naturals, Sequences, FiniteSets

CONSTANTS UtilThreads,
          Fds,       \* the descriptors the process may have, numbers
          Expire,    \* expire_sec
          MaxLag,    \* bound: seconds between an answer and its storing
          SupportV6  \* support_ipv6()

VARIABLES cache, \* the host's DnsItem: the answers, their age and the item's
          use,   \* per thread: its call
          files, \* the open descriptors
          given  \* those that were returned and are not closed

utilVars == <<cache, use, files, given>>

Answers == {<<4>>, <<6>>, <<6, 4>>}
Locals == {[v |-> 4, any |-> FALSE], [v |-> 6, any |-> FALSE], [v |-> 6, any |-> TRUE]}
NoItem == [answers |-> <<>>]
Idle == [at |-> "idle"]

Init == /\ cache = NoItem /\ use = [t \in UtilThreads |-> Idle]
        /\ files = {} /\ given = {}

Go(t, record) == use' = [use EXCEPT ![t] = record]
Goto(t, place) == Go(t, [use[t] EXCEPT !.at = place])

-----------------------------------------------------------------------------
\* getDomainIP.

\* getPerferredAddress: the first IPv4 address, or else the first of all.
Preferred(answers) == IF \E i \in DOMAIN answers : answers[i] = 4 THEN 4 ELSE answers[1]

\* listen and bindUdpSock take the family of the local address.
LocalFamily(local) == IF SupportV6 THEN local.v ELSE 4

Begin(t, kind, local) ==
    /\ use[t] = Idle
    /\ \/ /\ kind = "connect"
          /\ Go(t, [at |-> "lookup", kind |-> kind, local |-> local])
       \/ Go(t, [at |-> "socket", kind |-> kind, local |-> local, age |-> 0,
                 fam |-> IF kind = "connect" THEN 4 ELSE LocalFamily(local)])
    /\ UNCHANGED <<cache, files, given>>

Found(t, answers, age) ==
    Go(t, [at |-> "socket", kind |-> "connect", local |-> use[t].local, age |-> age,
           fam |-> Preferred(answers)])

\* mutant: a hit keeps the item alive
GetCacheRefreshes(t) ==
    /\ use[t].at = "lookup"
    /\ IF cache = NoItem \/ cache.item > Expire
       THEN cache' = NoItem /\ Goto(t, "ask")
       ELSE cache' = [cache EXCEPT !.item = 0] /\ Found(t, cache.answers, cache.age)
    /\ UNCHANGED <<files, given>>

GetCacheDomainIP(t) ==
    /\ use[t].at = "lookup"
    /\ LET expired == cache # NoItem /\ cache.item > Expire
       IN  /\ cache' = IF expired THEN NoItem ELSE cache
           /\ IF cache = NoItem \/ expired THEN Goto(t, "ask")
              ELSE Found(t, cache.answers, cache.age)
    /\ UNCHANGED <<files, given>>

\* The name server answers, or the call ends with -1.
GetSystemDomainIP(t) ==
    /\ use[t].at = "ask"
    /\ \/ Go(t, Idle)
       \/ \E answers \in Answers :
             Go(t, [at |-> "store", local |-> use[t].local, answers |-> answers, age |-> 0])
    /\ UNCHANGED <<cache, files, given>>

SetCacheDomainIP(t) ==
    /\ use[t].at = "store"
    /\ cache' = [answers |-> use[t].answers, age |-> use[t].age, item |-> 0]
    /\ Found(t, use[t].answers, use[t].age)
    /\ UNCHANGED <<files, given>>

\* A second passes.
Older(n) == IF n > Expire + MaxLag THEN n ELSE n + 1
Tick == /\ \A t \in UtilThreads : use[t].at = "store" => use[t].age < MaxLag
        /\ cache' = IF cache = NoItem THEN cache
                    ELSE [cache EXCEPT !.age = Older(@), !.item = Older(@)]
        /\ use' = [t \in UtilThreads |->
               IF use[t].at = "store" THEN [use[t] EXCEPT !.age = @ + 1] ELSE use[t]]
        /\ UNCHANGED <<files, given>>

-----------------------------------------------------------------------------
\* connect, listen, bindUdpSock, and getting the mask of an interface.

Close(fd) == files' = files \ {fd}
Fails(t) == Close(use[t].fd) /\ Go(t, Idle) /\ UNCHANGED given

Lowest(S) == CHOOSE n \in S : \A m \in S : n <= m

\* The lowest number that is free, if the process may have one more.
CreateFd(t) ==
    /\ use[t].at = "socket"
    /\ \/ Go(t, Idle) /\ UNCHANGED files
       \/ /\ Fds \ files # {}
          /\ LET fd == Lowest(Fds \ files)
             IN  /\ files' = files \cup {fd}
                 /\ Go(t, [at |-> IF use[t].kind = "mask" THEN "ioctl" ELSE "bind", fd |-> fd,
                           kind |-> use[t].kind, local |-> use[t].local, fam |-> use[t].fam])
    /\ UNCHANGED <<cache, given>>

\* An address of the other family is replaced by any.
BindSock(local, fam) == IF local.v = fam /\ ~local.any THEN "local" ELSE "any"

Binds(t) == /\ Go(t, [at |-> "last", fd |-> use[t].fd, kind |-> use[t].kind,
                      local |-> use[t].local, fam |-> use[t].fam,
                      to |-> BindSock(use[t].local, use[t].fam)])
            /\ UNCHANGED <<files, given>>

\* mutant: the descriptor is forgotten when its address is taken
BindLeaks(t) == /\ use[t].at = "bind"
                /\ \/ Go(t, Idle) /\ UNCHANGED <<files, given>>
                   \/ Binds(t)
                /\ UNCHANGED cache

Bind(t) == use[t].at = "bind" /\ (Fails(t) \/ Binds(t)) /\ UNCHANGED cache

\* connect and listen may fail; a UDP descriptor is done.
Last(t) == /\ use[t].at = "last"
           /\ \/ use[t].kind # "udp" /\ Fails(t)
              \/ given' = given \cup {use[t].fd} /\ Go(t, Idle) /\ UNCHANGED files
           /\ UNCHANGED cache

\* get_ifr_mask and get_ifr_brdaddr close theirs whatever the answer.
Ioctl(t) == use[t].at = "ioctl" /\ Fails(t) /\ UNCHANGED cache

UserCloses(fd) == /\ fd \in given /\ given' = given \ {fd} /\ Close(fd)
                  /\ UNCHANGED <<cache, use>>

Next == \/ \E t \in UtilThreads :
              \/ GetCacheDomainIP(t) \/ GetSystemDomainIP(t) \/ SetCacheDomainIP(t)
              \/ CreateFd(t) \/ Bind(t) \/ Last(t) \/ Ioctl(t)
              \/ \E kind \in {"connect", "listen", "udp", "mask"}, local \in Locals :
                    Begin(t, kind, local)
        \/ \E fd \in Fds : UserCloses(fd)
        \/ Tick

Spec == Init /\ [][Next]_utilVars

-----------------------------------------------------------------------------
\* Whoever resolved and stored the name, and in whatever order, the address used
\* is one the name server gave at most Expire seconds ago, and what a lookup took
\* between its answer and storing it.
Fresh == \A t \in UtilThreads : use[t].at = "socket" => use[t].age <= Expire + MaxLag

\* The descriptors that calls work on, each its own; nobody else has one but the
\* users: none is left open by a call that failed, and none is closed twice.
Working == {t \in UtilThreads : use[t].at \in {"bind", "last", "ioctl"}}
NoLeak == /\ files = given \cup {use[t].fd : t \in Working}
          /\ Cardinality(files) = Cardinality(given) + Cardinality(Working)

\* A descriptor is bound to the local address asked for, unless that is of
\* another family than what it connects to, or than the host has.
Bound == \A t \in Working : use[t].at = "last" /\ use[t].to = "any" =>
    use[t].local.any \/ use[t].local.v # use[t].fam

UtilRight == Fresh /\ NoLeak /\ Bound
=============================================================================
