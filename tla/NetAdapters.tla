---------------------------- MODULE NetAdapters ----------------------------
(***************************************************************************)
(* What SockUtil says about the network adapters of a device.  They come   *)
(* and go between the system calls of one question.  An address is a       *)
(* number, a mask the size of the networks it stands for.                  *)
(***************************************************************************)
EXTENDS Naturals, Sequences

CONSTANTS Names,   \* of adapters
          Default, \* "en0", what get_ifr_name answers for an address of no adapter
          Docker,  \* names that contain "docker"
          Loopback, Wildcard, \* 127.0.0.1 and 0.0.0.0
          Addresses, Private, \* all, and those of 172.16/12 and 192.168/16
          Masks,
          MaxAdapters, MaxChanges \* bounds

VARIABLES adapters, \* what SIOCGIFCONF lists
          asking,   \* the question and what is known so far
          answers,  \* the last answer
          changes, sameAll

adapterVars == <<adapters, asking, answers, changes, sameAll>>

Lists == {a \in UNION {[1..n -> [name : Names, ip : Addresses, mask : Masks]] :
                          n \in 0..MaxAdapters} : \A i, j \in DOMAIN a : a[i].name = a[j].name => i = j}

Nothing == [what |-> "none"]
Init == /\ adapters \in Lists /\ asking = Nothing /\ answers = Nothing
        /\ changes = 0 /\ sameAll = TRUE

\* for_each_netAdapter_posix: the system calls may fail.
Seen == {adapters, <<>>}
Where(seen, Test(_)) == {i \in 1..Len(seen) : Test(seen[i])}
First(seen, Test(_)) ==
    LET I == Where(seen, Test) IN IF I = {} THEN 0 ELSE CHOOSE i \in I : \A j \in I : i <= j
Final(seen, Test(_)) ==
    LET I == Where(seen, Test) IN IF I = {} THEN 0 ELSE CHOOSE i \in I : \A j \in I : j <= i

\* bound: one question, they are independent
Idle == asking = Nothing /\ answers = Nothing

Answer(a) == answers' = a /\ asking' = Nothing /\ UNCHANGED <<adapters, changes, sameAll>>

-----------------------------------------------------------------------------
\* check_ip: an address counts unless it is of the device itself; a private one
\* ends the search, another is overwritten by the next.
Counts(a) == a.name \notin Docker /\ a.ip \notin {Loopback, Wildcard}

\* mutant: the first address is taken, private or not
LocalIpFirst(seen) ==
    IF First(seen, Counts) = 0 THEN Loopback ELSE seen[First(seen, Counts)].ip

LocalIp(seen) ==
    LET private == First(seen, LAMBDA a : Counts(a) /\ a.ip \in Private)
        last    == Final(seen, Counts)
    IN  CASE private > 0 -> seen[private].ip
          [] private = 0 /\ last > 0 -> seen[last].ip
          [] OTHER -> Loopback

GetLocalIp == /\ Idle
              /\ \E seen \in Seen :
                    Answer([what |-> "local", ip |-> LocalIp(seen), all |-> seen = adapters])

\* getInterfaceList
GetInterfaceList ==
    /\ Idle
    /\ \E seen \in Seen :
          Answer([what |-> "list", list |-> [i \in 1..Len(seen) |-> <<seen[i].name, seen[i].ip>>]])

GetIfrIp(name) ==
    /\ Idle
    /\ \E seen \in Seen :
          LET i == First(seen, LAMBDA a : a.name = name)
          IN  Answer([what |-> "ip", of |-> name, ips |-> IF i = 0 THEN {} ELSE {seen[i].ip}])

\* in_same_lan: the adapter of an address, then the mask of that adapter.
GetIfrName(my, dst) ==
    /\ Idle
    /\ \E seen \in Seen :
          LET i == First(seen, LAMBDA a : a.ip = my)
          IN  /\ asking' = [what |-> "lan", my |-> my, dst |-> dst,
                            name |-> IF i = 0 THEN Default ELSE seen[i].name]
              /\ sameAll' = (seen = adapters)
    /\ UNCHANGED <<adapters, answers, changes>>

\* SIOCGIFNETMASK; without a mask inet_addr gives INADDR_NONE, all bits.
InSameLan ==
    /\ asking.what = "lan"
    /\ LET of    == {i \in 1..Len(adapters) : adapters[i].name = asking.name}
           sizes == IF of = {} THEN {1} ELSE {1} \cup {adapters[i].mask : i \in of}
       IN  \E size \in sizes :
              Answer([what |-> "lan", my |-> asking.my, dst |-> asking.dst,
                      all |-> sameAll /\ (of = {} \/ size # 1),
                      same |-> asking.my \div size = asking.dst \div size])

\* An adapter goes, or gets another address or mask, in the middle of a question.
Change == /\ changes < MaxChanges /\ changes' = changes + 1
          /\ asking # Nothing
          /\ \E i \in 1..Len(adapters), ip \in Addresses, mask \in Masks :
                adapters' \in {SubSeq(adapters, 1, i - 1) \o SubSeq(adapters, i + 1, Len(adapters)),
                               [adapters EXCEPT ![i].ip = ip, ![i].mask = mask]} \ {adapters}
          /\ sameAll' = FALSE
          /\ UNCHANGED <<asking, answers>>

Next == \/ GetLocalIp \/ GetInterfaceList \/ InSameLan \/ Change
        \/ \E name \in Names : GetIfrIp(name)
        \/ \E my, dst \in Addresses : GetIfrName(my, dst)

Spec == Init /\ [][Next]_adapterVars

-----------------------------------------------------------------------------
OfDevice == {adapters[i].ip : i \in {j \in 1..Len(adapters) : Counts(adapters[j])}}

\* The local address is one of the device, private when there is one, and never the
\* one of a container's bridge.  Addresses are said to be in one network only if a
\* mask of the device puts them there or they are equal, and two that share the
\* network of the asking adapter are found, if no call failed and nothing changed.
AdaptersRight ==
    /\ answers.what = "local" =>
          /\ answers.ip \in OfDevice \cup {Loopback}
          /\ answers.all /\ OfDevice # {} => answers.ip \in OfDevice
          /\ answers.all /\ OfDevice \cap Private # {} => answers.ip \in Private
    /\ answers.what = "lan" =>
          LET Near(a) == answers.my \div a.mask = answers.dst \div a.mask
              mine    == {a \in {adapters[i] : i \in 1..Len(adapters)} : a.ip = answers.my}
          IN  /\ answers.same => \/ answers.my = answers.dst
                                 \/ \E i \in 1..Len(adapters) : Near(adapters[i])
              /\ answers.all /\ mine # {} /\ (\A a \in mine : Near(a)) => answers.same
=============================================================================
