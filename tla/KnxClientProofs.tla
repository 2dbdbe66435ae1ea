---------------------------- MODULE KnxClientProofs ----------------------------
(* Proofs about KnxClient: for every set of gateways and channels, every   *)
(* fate of a datagram and every speed of the answers, the client's state   *)
(* keeps its type, and its remote address belongs to one gateway.          *)
EXTENDS KnxClient, TLAPS

(* What M makes is a datagram.                                             *)
LEMMA MType ==
    ASSUME NEW type \in Requests \cup Received("control") \cup Received("tunnel"),
           NEW g \in Gateways, NEW c \in Channels \cup {0}
    PROVE  M(type, g, c) \in Msg /\ M(type, g, c).type = type
           /\ M(type, g, c).gw = g
  BY DEF M, Msg

(* What Put adds to the datagrams under way: copies of those sent.         *)
LEMMA PutAdds ==
    ASSUME NEW base \in SUBSET Msg, NEW ms \in SUBSET Msg, clean \in BOOLEAN, Put(base, ms)
    PROVE  /\ net' \subseteq Msg /\ clean' \in BOOLEAN
           /\ \A m \in net' : m \in base
                  \/ \E o \in ms : m.type = o.type /\ m.gw = o.gw /\ m.chan = o.chan
<1>1. PICK f \in [ms -> Fates] : /\ net' = base \cup Copies(ms, f)
                                 /\ clean' = (clean /\ \A m \in ms : f[m] = 1)
  BY DEF Put
<1>2. ASSUME NEW m \in Copies(ms, f)
      PROVE  /\ m \in Msg
             /\ \E o \in ms : m.type = o.type /\ m.gw = o.gw /\ m.chan = o.chan
  <2>1. PICK o \in ms : \E i \in 1 .. f[o] : m = [o EXCEPT !.copy = i]
    BY <1>2 DEF Copies
  <2>2. PICK i \in 1 .. f[o] : m = [o EXCEPT !.copy = i]
    BY <2>1
  <2>3. i \in Nat
    BY <1>1, KnxAssumption
  <2> QED
    BY <2>1, <2>2, <2>3 DEF Msg
<1> QED
  BY <1>1, <1>2

(* The initial states satisfy the invariant.                               *)
LEMMA InitInv == Init => IInv
<1> SUFFICES ASSUME Init PROVE IInv
  OBVIOUS
<1>1. TypeOK
  BY DEF Init, TypeOK, Hosts, Unsent
<1>2. AddressPair
  BY DEF Init, AddressPair
<1>3. Storing
  BY DEF Init, Storing, Threads, Idle
<1> QED
  BY <1>1, <1>2, <1>3 DEF IInv

(* A step of the main thread or of a gateway leaves the client's state and *)
(* its threads alone, and a new search response comes from a gateway that  *)
(* answered.                                                               *)
LEMMA FrameStep ==
    ASSUME IInv, TypeOK', UNCHANGED <<client, thr>>,
           answered \subseteq answered',
           \A m \in net' : m \in net
                  \/ (m.type = "searchRes" => m.gw \in answered')
    PROVE  IInv'
<1>1. AddressPair'
  BY DEF IInv, AddressPair, client
<1>2. Storing'
  BY DEF IInv, Storing, client
<1> QED
  BY <1>1, <1>2 DEF IInv

LEMMA InitSockPreserves ==
    ASSUME IInv, InitSock
    PROVE  IInv'
<1>1. TypeOK'
  BY DEF InitSock, IInv, TypeOK, args, client, gws, log
<1> QED
  BY <1>1, FrameStep DEF InitSock, gws

(* The four requests: knx_send adds requests to the network or nothing.    *)
LEMMA SendAdds ==
    ASSUME TypeOK, NEW up \in BOOLEAN, NEW ms \in SUBSET Msg,
           \A m \in ms : m.type \in Requests, KnxSend(up, ms)
    PROVE  /\ net' \subseteq Msg /\ clean' \in BOOLEAN
           /\ \A m \in net' : m \in net \/ m.type # "searchRes"
<1>1. net \in SUBSET Msg /\ clean \in BOOLEAN
  BY DEF TypeOK
<1>2. CASE up
  BY <1>1, <1>2, PutAdds DEF KnxSend, Requests
<1>3. CASE ~up
  BY <1>1, <1>3 DEF KnxSend
<1> QED
  BY <1>2, <1>3

LEMMA AtType ==
    ASSUME NEW ip, NEW port, NEW type \in Requests,
           NEW c \in Channels \cup {0}
    PROVE  /\ At(ip, port, type, c) \in SUBSET Msg
           /\ \A m \in At(ip, port, type, c) : m.type \in Requests
<1>1. \A g \in Gateways : M(type, g, c) \in Msg /\ M(type, g, c).type = type
  BY MType
<1> QED
  BY <1>1 DEF At

LEMMA SearchPreserves ==
    ASSUME IInv, Search
    PROVE  IInv'
<1> DEFINE ms == {M("searchReq", g, 0) : g \in Gateways}
<1>1. ms \in SUBSET Msg /\ \A m \in ms : m.type \in Requests
  BY MType DEF Requests
<1>2. /\ net' \subseteq Msg /\ clean' \in BOOLEAN
      /\ \A m \in net' : m \in net \/ m.type # "searchRes"
  BY <1>1, SendAdds DEF Search, IInv, TypeOK
<1>3. TypeOK'
  BY <1>2 DEF Search, IInv, TypeOK, args, client, socks, gws, log
<1> QED
  BY <1>2, <1>3, FrameStep DEF Search, gws

LEMMA DescriptionPreserves ==
    ASSUME IInv, Description
    PROVE  IInv'
<1> DEFINE ms == {M("descrReq", Router, 0)}
<1>1. ms \in SUBSET Msg /\ \A m \in ms : m.type \in Requests
  BY MType, KnxAssumption DEF Requests
<1>2. /\ net' \subseteq Msg /\ clean' \in BOOLEAN
      /\ \A m \in net' : m \in net \/ m.type # "searchRes"
  BY <1>1, SendAdds DEF Description, IInv, TypeOK
<1>3. TypeOK'
  BY <1>2 DEF Description, IInv, TypeOK, args, client, socks, gws, log
<1> QED
  BY <1>2, <1>3, FrameStep DEF Description, gws

(* The steps that only read g_knxClient.                                   *)
LEMMA ReadPreserves ==
    ASSUME IInv, ConnectPort \/ LightChannel \/ LightPort
    PROVE  IInv'
<1>1. TypeOK'
  BY DEF ConnectPort, LightChannel, LightPort, IInv, TypeOK, client,
         socks, gws, log
<1>2. UNCHANGED <<client, thr, net, answered>>
  BY DEF ConnectPort, LightChannel, LightPort, gws
<1> QED
  BY <1>1, <1>2, FrameStep

LEMMA ConnectSendPreserves ==
    ASSUME IInv, ConnectSend
    PROVE  IInv'
<1> DEFINE ms == At(remoteIp, argPort, "connReq", 0)
<1>1. ms \in SUBSET Msg /\ \A m \in ms : m.type \in Requests
  BY AtType DEF Requests
<1>2. /\ net' \subseteq Msg /\ clean' \in BOOLEAN
      /\ \A m \in net' : m \in net \/ m.type # "searchRes"
  BY <1>1, SendAdds DEF ConnectSend, IInv, TypeOK
<1>3. TypeOK'
  BY <1>2 DEF ConnectSend, IInv, TypeOK, args, client, socks, gws
<1> QED
  BY <1>2, <1>3, FrameStep DEF ConnectSend, gws

LEMMA LightSendPreserves ==
    ASSUME IInv, LightSend
    PROVE  IInv'
<1> DEFINE ms == At(remoteIp, argPort, "tunReq", argChid)
<1>1. ms \in SUBSET Msg /\ \A m \in ms : m.type \in Requests
  BY AtType DEF Requests, IInv, TypeOK
<1>2. /\ net' \subseteq Msg /\ clean' \in BOOLEAN
      /\ \A m \in net' : m \in net \/ m.type # "searchRes"
  BY <1>1, SendAdds DEF LightSend, IInv, TypeOK
<1>3. TypeOK'
  BY <1>2 DEF LightSend, IInv, TypeOK, args, client, socks, gws
<1> QED
  BY <1>2, <1>3, FrameStep DEF LightSend, gws

(* A capture thread takes a datagram.  The tunnel socket gets nothing that *)
(* is stored.                                                              *)
LEMMA CapturePreserves ==
    ASSUME IInv, NEW t \in Threads, Capture(t)
    PROVE  IInv'
<1> DEFINE next(m) == CASE m.type = "searchRes" -> [pc |-> "port", msg |-> m]
                        [] m.type = "connRes" -> [pc |-> "chid", msg |-> m]
                        [] OTHER -> Idle
<1>1. PICK m \in net : /\ m.type \in Received(t)
                       /\ net' = net \ {m} /\ clean' = clean
                       /\ thr' = [thr EXCEPT ![t] = next(m)]
  BY DEF Capture
<1>2. /\ m \in Msg
      /\ UNCHANGED <<main, args, client, socks, gws, log>>
      /\ thr[t] = Idle /\ "control" \in Threads /\ "tunnel" \in Threads
  BY <1>1 DEF Capture, IInv, TypeOK, Threads
<1>3. next(m) \in {Idle} \cup [pc : {"port", "tear", "ip", "chid"}, msg : Msg]
  BY <1>2
<1>4. /\ thr' \in [Threads -> {Idle} \cup
                    [pc : {"port", "tear", "ip", "chid"}, msg : Msg]]
      /\ thr'[t] = next(m)
      /\ \A u \in Threads \ {t} : thr'[u] = thr[u]
  BY <1>1, <1>3 DEF IInv, TypeOK
<1>5. TypeOK'
  BY <1>1, <1>2, <1>4 DEF IInv, TypeOK, args, client, socks, gws, log
<1>6. AddressPair'
  <2>1. \A u \in Threads : thr[u].pc \in {"tear", "ip"} =>
           thr'[u].pc \in {"tear", "ip"}
    BY <1>2, <1>4 DEF Idle
  <2> QED
    BY <1>2, <2>1 DEF IInv, AddressPair, client, gws
<1>7. Storing'
  <2>1. CASE t = "tunnel"
    <3>1. next(m) = Idle
      BY <1>1, <2>1 DEF Received
    <3>2. thr' = thr
      BY <1>1, <1>2, <3>1 DEF IInv, TypeOK
    <3> QED
      BY <1>1, <1>2, <3>2 DEF IInv, Storing, client, gws
  <2>2. CASE t = "control"
    <3>1. thr'["tunnel"] = Idle /\ thr'["control"] = next(m)
      BY <1>2, <1>4, <2>2 DEF IInv, Storing
    <3>2. next(m).pc \notin {"tear", "ip"}
      BY DEF Idle
    <3>3. next(m).pc = "port" => m.type = "searchRes" /\ next(m).msg = m
      BY DEF Idle
    <3>4. next(m).pc = "port" => next(m).msg.gw \in answered
      BY <1>1, <3>3 DEF IInv, Storing
    <3> HIDE DEF next
    <3> QED
      BY <1>1, <1>2, <3>1, <3>2, <3>4 DEF IInv, Storing, client, gws
  <2> QED
    BY <2>1, <2>2 DEF Threads
<1> QED
  BY <1>5, <1>6, <1>7 DEF IInv

(* The stores of a response into g_knxClient are made by the control       *)
(* thread.                                                                 *)
LEMMA StorePreserves ==
    ASSUME IInv, NEW t \in Threads,
           WritePort(t) \/ TearIp(t) \/ WriteIp(t) \/ WriteChid(t)
    PROVE  IInv'
<1> DEFINE r == thr[t]
<1>1. r.pc \in {"port", "tear", "ip", "chid"}
  BY DEF WritePort, TearIp, WriteIp, WriteChid
<1>2. t = "control" /\ Threads = {"control", "tunnel"}
  BY <1>1 DEF IInv, Storing, Idle, Threads
<1>3. r \in [pc : {"port", "tear", "ip", "chid"}, msg : Msg]
  BY <1>1 DEF IInv, TypeOK, Idle
<1>4. r.msg.gw \in Gateways /\ r.msg.chan \in Channels \cup {0}
  BY <1>3 DEF Msg
<1>5. UNCHANGED <<main, args, socks, net, clean, gws, log>>
  BY DEF WritePort, TearIp, WriteIp, WriteChid
<1>6. thr["tunnel"] = Idle /\ Idle.pc = "select"
  BY DEF IInv, Storing, Idle
<1>7. CASE WritePort(t)
  <2>1. /\ thr' = [thr EXCEPT ![t].pc = "tear"]
        /\ remotePort' = r.msg.gw
        /\ UNCHANGED <<remoteIp, chid>>
        /\ r.pc = "port"
    BY <1>7 DEF WritePort
  <2>2. /\ thr'[t] = [r EXCEPT !.pc = "tear"] /\ thr'["tunnel"] = Idle
        /\ [r EXCEPT !.pc = "tear"]
             \in [pc : {"port", "tear", "ip", "chid"}, msg : Msg]
        /\ thr'[t].pc = "tear" /\ thr'[t].msg = r.msg
    BY <1>2, <1>3, <1>6, <2>1 DEF IInv, TypeOK
  <2>3. TypeOK'
    BY <1>2, <1>4, <1>5, <2>1, <2>2
    DEF IInv, TypeOK, args, socks, gws, log, Hosts
  <2>4. AddressPair'
    BY <2>2 DEF AddressPair
  <2>5. remoteIp \in answered \cup {NoHost}
    BY <1>2, <1>6, <2>1 DEF IInv, AddressPair
  <2>6. Storing'
    BY <1>2, <1>5, <2>1, <2>2, <2>5 DEF IInv, Storing, gws
  <2> QED
    BY <2>3, <2>4, <2>6 DEF IInv
<1>8. CASE TearIp(t)
  <2>1. /\ thr' = [thr EXCEPT ![t].pc = "ip"]
        /\ remoteIp' = IF remoteIp = r.msg.gw THEN remoteIp ELSE Torn
        /\ UNCHANGED <<remotePort, chid>>
        /\ r.pc = "tear"
    BY <1>8 DEF TearIp
  <2>2. /\ thr'[t] = [r EXCEPT !.pc = "ip"] /\ thr'["tunnel"] = Idle
        /\ [r EXCEPT !.pc = "ip"]
             \in [pc : {"port", "tear", "ip", "chid"}, msg : Msg]
        /\ thr'[t].pc = "ip" /\ thr'[t].msg = r.msg
    BY <1>2, <1>3, <1>6, <2>1 DEF IInv, TypeOK
  <2>3. TypeOK'
    BY <1>2, <1>4, <1>5, <2>1, <2>2
    DEF IInv, TypeOK, args, socks, gws, log, Hosts
  <2>4. AddressPair'
    BY <2>2 DEF AddressPair
  <2>5. Storing'
    BY <1>2, <1>5, <2>1, <2>2 DEF IInv, Storing, gws
  <2> QED
    BY <2>3, <2>4, <2>5 DEF IInv
<1>9. CASE WriteIp(t)
  <2>1. /\ thr' = [thr EXCEPT ![t] = Idle]
        /\ remoteIp' = r.msg.gw
        /\ UNCHANGED <<remotePort, chid>>
        /\ r.pc = "ip"
    BY <1>9 DEF WriteIp
  <2>2. thr'[t] = Idle /\ thr'["tunnel"] = Idle
    BY <1>2, <1>6, <2>1 DEF IInv, TypeOK
  <2>3. TypeOK'
    BY <1>2, <1>4, <1>5, <2>1, <2>2
    DEF IInv, TypeOK, args, socks, gws, log, Hosts
  <2>4. remotePort = r.msg.gw /\ r.msg.gw \in answered
    BY <1>2, <2>1 DEF IInv, Storing
  <2>5. AddressPair'
    BY <1>5, <2>1, <2>4 DEF AddressPair, gws
  <2>6. Storing'
    BY <1>2, <1>5, <1>6, <2>2 DEF IInv, Storing, gws
  <2> QED
    BY <2>3, <2>5, <2>6 DEF IInv
<1>10. CASE WriteChid(t)
  <2>1. /\ thr' = [thr EXCEPT ![t] = Idle]
        /\ chid' = r.msg.chan
        /\ UNCHANGED <<remoteIp, remotePort>>
        /\ r.pc = "chid"
    BY <1>10 DEF WriteChid
  <2>2. thr'[t] = Idle /\ thr'["tunnel"] = Idle
    BY <1>2, <1>6, <2>1 DEF IInv, TypeOK
  <2>3. TypeOK'
    BY <1>2, <1>4, <1>5, <2>1, <2>2
    DEF IInv, TypeOK, args, socks, gws, log, Hosts
  <2>4. AddressPair'
    BY <1>2, <1>5, <1>6, <2>1 DEF IInv, AddressPair, gws
  <2>5. Storing'
    BY <1>2, <1>5, <1>6, <2>2 DEF IInv, Storing, gws
  <2> QED
    BY <2>3, <2>4, <2>5 DEF IInv
<1> QED
  BY <1>7, <1>8, <1>9, <1>10

(* A gateway takes a datagram and answers with one of its own, and only    *)
(* one that answered the search sends a search response.                   *)
LEMMA ReplyAdds ==
    ASSUME TypeOK, NEW m \in net, NEW type \in Received("control") \cup {"tunAck"},
           NEW c \in Channels \cup {0}, Put(net \ {m}, {M(type, m.gw, c)})
    PROVE  /\ net' \subseteq Msg /\ clean' \in BOOLEAN
           /\ \A o \in net' : o \in net \/ (o.type = type /\ o.gw = m.gw)
<1>1. m.gw \in Gateways /\ net \ {m} \in SUBSET Msg /\ clean \in BOOLEAN
  BY DEF TypeOK, Msg
<1>2. /\ M(type, m.gw, c) \in Msg
      /\ M(type, m.gw, c).type = type /\ M(type, m.gw, c).gw = m.gw
  BY <1>1, MType DEF Received
<1> QED
  BY <1>1, <1>2, PutAdds

LEMMA GwSearchPreserves ==
    ASSUME IInv, NEW m \in net, GwSearch(m)
    PROVE  IInv'
<1>1. m.gw \in Gateways
  BY DEF IInv, TypeOK, Msg
<1>2. /\ net' \subseteq Msg /\ clean' \in BOOLEAN
      /\ \A o \in net' : o \in net \/ (o.type = "searchRes" /\ o.gw = m.gw)
  BY ReplyAdds DEF GwSearch, IInv, Received
<1>3. TypeOK'
  BY <1>1, <1>2 DEF GwSearch, IInv, TypeOK, args, client, socks, log
<1>4. m.gw \in answered' /\ answered \subseteq answered'
  BY DEF GwSearch
<1> QED
  BY <1>2, <1>3, <1>4, FrameStep DEF GwSearch

LEMMA GwDescriptionPreserves ==
    ASSUME IInv, NEW m \in net, GwDescription(m)
    PROVE  IInv'
<1>1. /\ net' \subseteq Msg /\ clean' \in BOOLEAN
      /\ \A o \in net' : o \in net \/ (o.type = "descrRes" /\ o.gw = m.gw)
  BY ReplyAdds DEF GwDescription, IInv, Received
<1>2. TypeOK'
  BY <1>1 DEF GwDescription, IInv, TypeOK, args, client, socks, log, gws
<1> QED
  BY <1>1, <1>2, FrameStep DEF GwDescription, gws

LEMMA GwConnectPreserves ==
    ASSUME IInv, NEW m \in net, GwConnect(m)
    PROVE  IInv'
<1>1. m.gw \in Gateways
  BY DEF IInv, TypeOK, Msg
<1>2. PICK c \in Channels \cup {0} : Put(net \ {m}, {M("connRes", m.gw, c)})
  BY DEF GwConnect
<1>3. /\ net' \subseteq Msg /\ clean' \in BOOLEAN
      /\ \A o \in net' : o \in net \/ (o.type = "connRes" /\ o.gw = m.gw)
  BY <1>2, ReplyAdds DEF IInv, Received
<1>4. /\ chan' \in [Gateways -> [Channels -> {"closed", "fresh", "used"}]]
      /\ granted' \in [Gateways -> SUBSET Channels]
  <2>1. CASE \E d \in Channels :
                /\ chan' = [chan EXCEPT ![m.gw][d] = "fresh"]
                /\ granted' = [granted EXCEPT ![m.gw] = @ \cup {d}]
    <3>1. PICK d \in Channels :
                /\ chan' = [chan EXCEPT ![m.gw][d] = "fresh"]
                /\ granted' = [granted EXCEPT ![m.gw] = @ \cup {d}]
      BY <2>1
    <3>2. granted[m.gw] \cup {d} \in SUBSET Channels
      BY <1>1 DEF IInv, TypeOK
    <3> QED
      BY <1>1, <3>1, <3>2 DEF IInv, TypeOK
  <2>2. CASE UNCHANGED <<chan, granted>>
    BY <2>2 DEF IInv, TypeOK
  <2> QED
    BY <2>1, <2>2 DEF GwConnect
<1>5. TypeOK'
  BY <1>3, <1>4 DEF GwConnect, IInv, TypeOK, args, client, socks, log
<1> QED
  BY <1>3, <1>5, FrameStep DEF GwConnect

LEMMA GwTunnelPreserves ==
    ASSUME IInv, NEW m \in net, GwTunnel(m)
    PROVE  IInv'
<1>1. m.gw \in Gateways /\ m.chan \in Channels \cup {0}
  BY DEF IInv, TypeOK, Msg
<1>2. /\ net' \subseteq Msg /\ clean' \in BOOLEAN
      /\ \A o \in net' : o \in net \/ (o.type = "tunAck" /\ o.gw = m.gw)
  <2>1. CASE net' = net \ {m} /\ clean' = clean
    BY <2>1 DEF IInv, TypeOK
  <2>2. CASE Put(net \ {m}, {M("tunAck", m.gw, m.chan)})
    BY <1>1, <2>2, ReplyAdds DEF IInv
  <2> QED
    BY <2>1, <2>2 DEF GwTunnel
<1>3. /\ chan' \in [Gateways -> [Channels -> {"closed", "fresh", "used"}]]
      /\ lit' \subseteq Gateways
  BY <1>1 DEF GwTunnel, IInv, TypeOK
<1>4. TypeOK'
  BY <1>2, <1>3 DEF GwTunnel, IInv, TypeOK, args, client, socks, log
<1> QED
  BY <1>2, <1>4, FrameStep DEF GwTunnel

LEMMA GwExpirePreserves ==
    ASSUME IInv, NEW g \in Gateways, NEW c \in Channels, GwExpire(g, c)
    PROVE  IInv'
<1>1. TypeOK'
  BY DEF GwExpire, IInv, TypeOK, args, client, socks, log
<1> QED
  BY <1>1, FrameStep DEF GwExpire

LEMMA NextInv == IInv /\ [Next]_vars => IInv'
<1> SUFFICES ASSUME IInv, [Next]_vars PROVE IInv'
  OBVIOUS
<1>1. CASE MainStep
  BY <1>1, InitSockPreserves, SearchPreserves, DescriptionPreserves,
     ReadPreserves, ConnectSendPreserves, LightSendPreserves DEF MainStep
<1>2. ASSUME NEW t \in Threads, ThreadStep(t) PROVE IInv'
  BY <1>2, CapturePreserves, StorePreserves DEF ThreadStep
<1>3. CASE GwStep
  BY <1>3, GwSearchPreserves, GwDescriptionPreserves, GwConnectPreserves,
     GwTunnelPreserves DEF GwStep
<1>4. ASSUME NEW g \in Gateways, NEW c \in Channels, GwExpire(g, c)
      PROVE  IInv'
  BY <1>4, GwExpirePreserves
<1>5. CASE UNCHANGED vars
  <2>1. TypeOK'
    BY <1>5 DEF vars, args, client, socks, gws, log, IInv, TypeOK
  <2> QED
    BY <1>5, <2>1, FrameStep DEF vars, gws
<1> QED
  BY <1>1, <1>2, <1>3, <1>4, <1>5 DEF Next

(* IInv is an invariant of the client, at every speed of the answers.      *)
THEOREM IInvHolds == Spec => []IInv
  BY InitInv, NextInv, PTL DEF Spec

(* Every variable keeps its type.                                          *)
THEOREM TypeOKHolds == Spec => []TypeOK
<1>1. IInv => TypeOK
  BY DEF IInv
<1> QED
  BY <1>1, IInvHolds, PTL

(* While no response is being stored the remote address and port are those *)
(* of one gateway, which answered the search.                              *)
THEOREM AddressPairHolds == Spec => []AddressPair
<1>1. IInv => AddressPair
  BY DEF IInv
<1> QED
  BY <1>1, IInvHolds, PTL


-----------------------------------------------------------------------------
(* When the answers come in time, knxTest keeps to one gateway.  Until it   *)
(* sends the connection request nobody has granted it a channel, and the    *)
(* address it takes is stored whole; from then on the address stays, all    *)
(* datagrams are exchanged with that gateway, and every channel under way   *)
(* is 0 or one it granted.                                                  *)
Early == main \in {"init", "search", "descr", "connect", "connectSend"}

OwnChannel(c) == c = 0 \/ (remoteIp \in Gateways /\ c \in granted[remoteIp])

EarlyInv == Early =>
    /\ connTo = Unsent /\ lightTo = Unsent /\ chid = 0 /\ lit = {}
    /\ \A g \in Gateways : granted[g] = {}
    /\ thr["control"].pc # "chid"
    /\ \A m \in net : m.type \in {"searchReq", "descrReq", "searchRes", "descrRes"}
    /\ main = "connectSend" =>
          net = {} /\ thr["control"] = Idle /\ argPort = remotePort

LateInv == ~Early =>
    /\ connTo = [ip |-> remoteIp, port |-> remoteIp, chan |-> 0]
    /\ remotePort = remoteIp
    /\ \A g \in Gateways : granted[g] # {} => g = remoteIp
    /\ OwnChannel(chid)
    /\ thr["control"].pc \in {"select", "chid"}
    /\ thr["control"].pc = "chid" => OwnChannel(thr["control"].msg.chan)
    /\ \A m \in net : /\ m.type \in {"connReq", "connRes", "tunReq", "tunAck"}
                      /\ m.gw = remoteIp /\ OwnChannel(m.chan)
    /\ main # "done" => lightTo = Unsent
    /\ main # "light" => OwnChannel(argChid)
    /\ main = "lightSend" => argPort = remotePort
    /\ main = "done" =>
          lightTo = [ip |-> remoteIp, port |-> remoteIp, chan |-> argChid]
    /\ \A g \in lit : granted[g] # {}

SessionInv == EarlyInv /\ LateInv

LEMMA InitSession == Init => SessionInv
<1> SUFFICES ASSUME Init PROVE SessionInv
  OBVIOUS
<1>1. Early /\ main # "connectSend"
  BY DEF Init, Early
<1>2. EarlyInv
  BY <1>1 DEF Init, EarlyInv, Threads, Idle
<1> QED
  BY <1>1, <1>2 DEF SessionInv, LateInv

(* What a reply adds, with its channel.                                    *)
LEMMA ReplyIs ==
    ASSUME TypeOK, NEW m \in net, NEW type \in Received("control") \cup {"tunAck"},
           NEW c \in Channels \cup {0}, Put(net \ {m}, {M(type, m.gw, c)})
    PROVE  \A o \in net' : o \in net \/ (o.type = type /\ o.gw = m.gw /\ o.chan = c)
<1>1. m.gw \in Gateways /\ net \ {m} \in SUBSET Msg /\ clean \in BOOLEAN
  BY DEF TypeOK, Msg
<1>2. /\ M(type, m.gw, c) \in Msg /\ M(type, m.gw, c).chan = c
      /\ M(type, m.gw, c).type = type /\ M(type, m.gw, c).gw = m.gw
  BY <1>1, MType DEF Received, M
<1> QED
  BY <1>1, <1>2, PutAdds

(* What a request adds.                                                    *)
LEMMA SendIs ==
    ASSUME TypeOK, NEW up \in BOOLEAN, NEW ms \in SUBSET Msg, KnxSend(up, ms)
    PROVE  \A m \in net' : m \in net
              \/ \E o \in ms : m.type = o.type /\ m.gw = o.gw /\ m.chan = o.chan
<1>1. net \in SUBSET Msg /\ clean \in BOOLEAN
  BY DEF TypeOK
<1>2. CASE up
  BY <1>1, <1>2, PutAdds DEF KnxSend
<1>3. CASE ~up
  BY <1>3 DEF KnxSend
<1> QED
  BY <1>2, <1>3

LEMMA AtIs ==
    ASSUME NEW ip, NEW port, NEW type \in Requests, NEW c \in Channels \cup {0}
    PROVE  \A m \in At(ip, port, type, c) : m.type = type /\ m.gw = ip /\ m.chan = c
  BY DEF At, M

(* The steps before the connection request.                                *)
LEMMA EarlyStep ==
    ASSUME Timely = TRUE, IInv, SessionInv,
           InitSock \/ Search \/ Description \/ ConnectPort
    PROVE  SessionInv'
<1>1. /\ Early /\ Early' /\ main # "connectSend" /\ EarlyInv
      /\ UNCHANGED <<remotePort, chid, granted, lit, thr, connTo, lightTo>>
  BY DEF InitSock, Search, Description, ConnectPort, Early, SessionInv, client,
         gws, log
<1>2. CASE InitSock
  BY <1>1, <1>2 DEF InitSock, SessionInv, EarlyInv, LateInv
<1>3. CASE Search
  <2> DEFINE ms == {M("searchReq", g, 0) : g \in Gateways}
  <2>1. ms \in SUBSET Msg /\ \A m \in ms : m.type = "searchReq"
    BY MType DEF Requests
  <2>2. KnxSend(controlUp, ms) /\ controlUp \in BOOLEAN /\ main' = "descr"
    BY <1>3 DEF Search, IInv, TypeOK
  <2> HIDE DEF ms
  <2>3. \A m \in net' : m \in net \/ m.type = "searchReq"
    BY <2>1, <2>2, SendIs DEF IInv
  <2> QED
    BY <1>1, <2>2, <2>3 DEF SessionInv, EarlyInv, LateInv
<1>4. CASE Description
  <2> DEFINE ms == {M("descrReq", Router, 0)}
  <2>1. ms \in SUBSET Msg /\ \A m \in ms : m.type = "descrReq"
    BY MType, KnxAssumption DEF Requests
  <2>2. KnxSend(controlUp, ms) /\ controlUp \in BOOLEAN /\ main' = "connect"
    BY <1>4 DEF Description, IInv, TypeOK
  <2> HIDE DEF ms
  <2>3. \A m \in net' : m \in net \/ m.type = "descrReq"
    BY <2>1, <2>2, SendIs DEF IInv
  <2> QED
    BY <1>1, <2>2, <2>3 DEF SessionInv, EarlyInv, LateInv
<1>5. CASE ConnectPort
  <2>1. /\ net = {} /\ net' = net /\ thr["control"] = Idle /\ argPort' = remotePort
        /\ main' = "connectSend"
    BY <1>5 DEF ConnectPort, Slept, Threads
  <2> QED
    BY <1>1, <2>1 DEF SessionInv, EarlyInv, LateInv
<1> QED
  BY <1>2, <1>3, <1>4, <1>5

(* The connection request: the address is whole, and fixed from here on.   *)
LEMMA ConnectStep ==
    ASSUME IInv, SessionInv, ConnectSend
    PROVE  /\ SessionInv'
           /\ connTo = Unsent /\ remoteIp \in answered \cup {NoHost}
           /\ connTo' = [ip |-> remoteIp, port |-> remoteIp, chan |-> 0]
           /\ \A g \in Gateways : granted[g] = {}
<1>1. /\ Early /\ main = "connectSend" /\ EarlyInv
      /\ main' = "light" /\ ~Early'
      /\ UNCHANGED <<argPort, argChid, remoteIp, remotePort, chid, thr, answered,
                     granted, lit, lightTo>>
  BY DEF ConnectSend, SessionInv, Early, args, client, gws
<1>2. /\ connTo = Unsent /\ lightTo = Unsent /\ chid = 0 /\ lit = {} /\ net = {}
      /\ \A g \in Gateways : granted[g] = {}
      /\ thr["control"] = Idle /\ argPort = remotePort
  BY <1>1 DEF EarlyInv
<1>3. \A t \in Threads : thr[t].pc \notin {"tear", "ip"}
  BY <1>2 DEF IInv, Storing, Threads, Idle
<1>4. remoteIp = remotePort /\ remoteIp \in answered \cup {NoHost}
  BY <1>3 DEF IInv, AddressPair
<1>5. connTo' = [ip |-> remoteIp, port |-> remoteIp, chan |-> 0]
  BY <1>2, <1>4 DEF ConnectSend
<1>6. \A m \in net' : m.type = "connReq" /\ m.gw = remoteIp /\ m.chan = 0
  <2> DEFINE ms == At(remoteIp, argPort, "connReq", 0)
  <2>1. ms \in SUBSET Msg
    BY AtType DEF Requests
  <2>2. \A m \in ms : m.type = "connReq" /\ m.gw = remoteIp /\ m.chan = 0
    BY AtIs DEF Requests
  <2>3. KnxSend(controlUp, ms) /\ controlUp \in BOOLEAN
    BY DEF ConnectSend, IInv, TypeOK
  <2> HIDE DEF ms
  <2> QED
    BY <1>2, <2>1, <2>2, <2>3, SendIs DEF IInv
<1>7. LateInv'
  BY <1>1, <1>2, <1>4, <1>5, <1>6 DEF LateInv, OwnChannel, Idle
<1> QED
  BY <1>1, <1>2, <1>4, <1>5, <1>7 DEF SessionInv, EarlyInv

(* The light command, with what g_knxClient holds.                         *)
LEMMA LightStep ==
    ASSUME IInv, SessionInv, LightChannel \/ LightPort \/ LightSend
    PROVE  SessionInv'
<1>1. /\ ~Early /\ ~Early' /\ LateInv
      /\ UNCHANGED <<remoteIp, remotePort, chid, granted, lit, thr, connTo>>
  BY DEF LightChannel, LightPort, LightSend, Early, SessionInv, client, gws, log
<1>2. CASE LightChannel
  <2>1. /\ main' = "lightPort" /\ main = "light" /\ argChid' = chid
        /\ UNCHANGED <<net, lightTo>>
    BY <1>2 DEF LightChannel, log
  <2> QED
    BY <1>1, <2>1 DEF SessionInv, EarlyInv, LateInv, OwnChannel
<1>3. CASE LightPort
  <2>1. /\ main' = "lightSend" /\ main = "lightPort" /\ argPort' = remotePort
        /\ UNCHANGED <<net, lightTo, argChid>>
    BY <1>3 DEF LightPort, log
  <2> QED
    BY <1>1, <2>1 DEF SessionInv, EarlyInv, LateInv, OwnChannel
<1>4. CASE LightSend
  <2> DEFINE ms == At(remoteIp, argPort, "tunReq", argChid)
  <2>1. /\ main' = "done" /\ main = "lightSend" /\ argChid' = argChid
        /\ lightTo' = [ip |-> remoteIp, port |-> argPort, chan |-> argChid]
        /\ KnxSend(tunnelUp, ms) /\ tunnelUp \in BOOLEAN
        /\ argChid \in Channels \cup {0}
    BY <1>4 DEF LightSend, args, IInv, TypeOK
  <2>2. ms \in SUBSET Msg
    BY <2>1, AtType DEF Requests
  <2>3. \A m \in ms : m.type = "tunReq" /\ m.gw = remoteIp /\ m.chan = argChid
    BY <2>1, AtIs DEF Requests
  <2> HIDE DEF ms
  <2>4. \A m \in net' : m \in net \/
            (m.type = "tunReq" /\ m.gw = remoteIp /\ m.chan = argChid)
    BY <2>1, <2>2, <2>3, SendIs DEF IInv
  <2>5. argPort = remoteIp /\ OwnChannel(argChid)
    BY <1>1, <2>1 DEF LateInv
  <2> QED
    BY <1>1, <2>1, <2>4, <2>5 DEF SessionInv, EarlyInv, LateInv, OwnChannel
<1> QED
  BY <1>2, <1>3, <1>4

(* The capture threads: the channel that is stored is the gateway's.       *)
LEMMA ThreadSession ==
    ASSUME IInv, SessionInv, NEW t \in Threads, ThreadStep(t)
    PROVE  SessionInv'
<1>0. /\ "control" \in Threads /\ "tunnel" \in Threads /\ thr["tunnel"] = Idle
      /\ UNCHANGED <<main, argPort, argChid, granted, lit, connTo, lightTo>>
      /\ Idle.pc = "select" /\ t \in {"control", "tunnel"}
  BY DEF ThreadStep, Capture, WritePort, TearIp, WriteIp, WriteChid, Threads,
         IInv, Storing, gws, log, args, Idle
<1>1. CASE Capture(t)
  <2> DEFINE next(m) == CASE m.type = "searchRes" -> [pc |-> "port", msg |-> m]
                          [] m.type = "connRes" -> [pc |-> "chid", msg |-> m]
                          [] OTHER -> Idle
  <2>1. PICK m \in net : net' = net \ {m} /\ thr' = [thr EXCEPT ![t] = next(m)]
                         /\ m.type \in Received(t)
    BY <1>1 DEF Capture
  <2>2. UNCHANGED <<remoteIp, remotePort, chid>>
    BY <1>1 DEF Capture, client
  <2>3. thr'["control"] = IF t = "control" THEN next(m) ELSE thr["control"]
    BY <1>0, <2>1 DEF IInv, TypeOK
  <2>4. /\ next(m).pc = "chid" => m.type = "connRes" /\ next(m).msg = m
        /\ m.type # "searchRes" => next(m).pc \in {"select", "chid"}
    BY DEF Idle
  <2> HIDE DEF next
  <2>5. EarlyInv'
    <3>1. SUFFICES ASSUME Early PROVE EarlyInv'
      BY <1>0 DEF EarlyInv, Early
    <3>2. m.type # "connRes" /\ net # {}
      BY <3>1 DEF SessionInv, EarlyInv
    <3> QED
      BY <1>0, <2>1, <2>2, <2>3, <2>4, <3>1, <3>2 DEF SessionInv, EarlyInv, Early
  <2>6. LateInv'
    <3>1. SUFFICES ASSUME ~Early PROVE LateInv'
      BY <1>0 DEF LateInv, Early
    <3>2. m.type # "searchRes" /\ OwnChannel(m.chan)
      BY <3>1 DEF SessionInv, LateInv
    <3> QED
      BY <1>0, <2>1, <2>2, <2>3, <2>4, <3>1, <3>2
      DEF SessionInv, LateInv, Early, OwnChannel
  <2> QED
    BY <2>5, <2>6 DEF SessionInv
<1>2. CASE WritePort(t) \/ TearIp(t) \/ WriteIp(t)
  <2>1. /\ t = "control" /\ thr["control"].pc \in {"port", "tear", "ip"}
        /\ UNCHANGED <<net, chid>>
    BY <1>0, <1>2 DEF WritePort, TearIp, WriteIp
  <2>2. thr'["control"].pc # "chid"
    BY <1>0, <1>2, <2>1 DEF WritePort, TearIp, WriteIp, IInv, TypeOK
  <2>3. Early /\ main # "connectSend"
    BY <1>0, <2>1 DEF SessionInv, LateInv, EarlyInv
  <2> QED
    BY <1>0, <2>1, <2>2, <2>3 DEF SessionInv, EarlyInv, LateInv, Early
<1>3. CASE WriteChid(t)
  <2>1. /\ t = "control" /\ thr["control"].pc = "chid"
        /\ UNCHANGED <<net, remoteIp, remotePort>> /\ chid' = thr["control"].msg.chan
    BY <1>0, <1>3 DEF WriteChid
  <2>2. thr'["control"] = Idle
    BY <1>0, <1>3, <2>1 DEF WriteChid, IInv, TypeOK
  <2>3. ~Early
    BY <2>1 DEF SessionInv, EarlyInv
  <2> QED
    BY <1>0, <2>1, <2>2, <2>3 DEF SessionInv, EarlyInv, LateInv, Early, OwnChannel
<1> QED
  BY <1>1, <1>2, <1>3 DEF ThreadStep

(* The gateways.                                                           *)
LEMMA GwSession ==
    ASSUME IInv, SessionInv, GwStep
    PROVE  SessionInv'
<1>0. UNCHANGED <<main, argPort, argChid, remoteIp, remotePort, chid, thr, connTo, lightTo>>
  BY DEF GwStep, GwSearch, GwDescription, GwConnect, GwTunnel, args, client, log
<1>1. ASSUME NEW m \in net, GwSearch(m) \/ GwDescription(m) PROVE SessionInv'
  <2>1. PICK type \in {"searchRes", "descrRes"} : Put(net \ {m}, {M(type, m.gw, 0)})
    BY <1>1 DEF GwSearch, GwDescription
  <2>2. \A o \in net' : o \in net \/ o.type = type
    BY <2>1, ReplyIs DEF IInv, Received
  <2>3. UNCHANGED <<granted, lit>> /\ m.type \in {"searchReq", "descrReq"}
    BY <1>1 DEF GwSearch, GwDescription, gws
  <2>4. Early /\ main # "connectSend"
    BY <1>1, <2>3 DEF SessionInv, EarlyInv, LateInv
  <2> QED
    BY <1>0, <2>1, <2>2, <2>3, <2>4 DEF SessionInv, EarlyInv, LateInv, Early
<1>2. ASSUME NEW m \in net, GwConnect(m) PROVE SessionInv'
  <2>1. m.gw \in Gateways /\ granted[m.gw] \subseteq Channels
    BY DEF IInv, TypeOK, Msg
  <2>2. PICK c \in Channels \cup {0} :
           /\ Put(net \ {m}, {M("connRes", m.gw, c)})
           /\ \/ c # 0 /\ granted' = [granted EXCEPT ![m.gw] = @ \cup {c}]
              \/ c = 0 /\ granted' = granted
    BY <1>2, KnxAssumption DEF GwConnect
  <2>3. \A o \in net' : o \in net \/ (o.type = "connRes" /\ o.gw = m.gw /\ o.chan = c)
    BY <2>2, ReplyIs DEF IInv, Received
  <2>4. /\ \A g \in Gateways : granted[g] \subseteq granted'[g]
        /\ \A g \in Gateways : g # m.gw => granted'[g] = granted[g]
        /\ c = 0 \/ c \in granted'[m.gw]
    BY <2>1, <2>2 DEF IInv, TypeOK
  <2>5. m.type = "connReq" /\ lit' = lit
    BY <1>2 DEF GwConnect
  <2>6. ~Early /\ m.gw = remoteIp
    BY <2>5 DEF SessionInv, EarlyInv, LateInv
  <2>7. \A d : OwnChannel(d) => OwnChannel(d)'
    BY <1>0, <2>4 DEF OwnChannel
  <2>8. OwnChannel(c)'
    BY <1>0, <2>1, <2>4, <2>6 DEF OwnChannel
  <2>9. \A o \in net' : /\ o.type \in {"connReq", "connRes", "tunReq", "tunAck"}
                        /\ o.gw = remoteIp
                        /\ o.chan = 0 \/ (remoteIp \in Gateways /\ o.chan \in granted'[remoteIp])
    BY <1>0, <2>1, <2>3, <2>4, <2>6 DEF SessionInv, LateInv, OwnChannel
  <2>10. lit \subseteq Gateways
    BY DEF IInv, TypeOK
  <2>11. LateInv'
    BY <1>0, <2>4, <2>5, <2>6, <2>9, <2>10
    DEF SessionInv, LateInv, Early, OwnChannel
  <2> QED
    BY <1>0, <2>6, <2>11 DEF SessionInv, EarlyInv, Early
<1>3. ASSUME NEW m \in net, GwTunnel(m) PROVE SessionInv'
  <2>1. m.gw \in Gateways /\ m.chan \in Channels \cup {0}
    BY DEF IInv, TypeOK, Msg
  <2>2. \A o \in net' : o \in net \/ (o.type = "tunAck" /\ o.gw = m.gw /\ o.chan = m.chan)
    <3>1. CASE net' = net \ {m}
      BY <3>1
    <3>2. CASE Put(net \ {m}, {M("tunAck", m.gw, m.chan)})
      <4> DEFINE r == M("tunAck", m.gw, m.chan)
      <4>1. r \in Msg /\ r.type = "tunAck" /\ r.gw = m.gw /\ r.chan = m.chan
        BY <2>1, MType DEF Received, M
      <4>2. net \ {m} \in SUBSET Msg /\ clean \in BOOLEAN
        BY DEF IInv, TypeOK
      <4> HIDE DEF r
      <4>3. Put(net \ {m}, {r})
        BY <3>2 DEF r
      <4> QED
        BY <4>1, <4>2, <4>3, PutAdds
    <3> QED
      BY <1>3, <3>1, <3>2 DEF GwTunnel
  <2>3. /\ m.type = "tunReq" /\ granted' = granted
        /\ lit' = lit \/ (m.chan # 0 /\ lit' = lit \cup {m.gw})
    BY <1>3 DEF GwTunnel
  <2>4. ~Early /\ m.gw = remoteIp /\ OwnChannel(m.chan)
    BY <2>3 DEF SessionInv, EarlyInv, LateInv
  <2>5. \A g \in lit' : granted'[g] # {}
    BY <2>1, <2>3, <2>4 DEF SessionInv, LateInv, OwnChannel
  <2>6. LateInv'
    BY <1>0, <2>2, <2>3, <2>4, <2>5 DEF SessionInv, LateInv, Early, OwnChannel
  <2> QED
    BY <1>0, <2>4, <2>6 DEF SessionInv, EarlyInv, Early
<1> QED
  BY <1>1, <1>2, <1>3 DEF GwStep

LEMMA NextSession ==
    ASSUME Timely = TRUE
    PROVE  IInv /\ SessionInv /\ [Next]_vars => SessionInv'
<1> SUFFICES ASSUME IInv, SessionInv, [Next]_vars PROVE SessionInv'
  OBVIOUS
<1>1. CASE MainStep
  BY <1>1, EarlyStep, ConnectStep, LightStep DEF MainStep
<1>2. ASSUME NEW t \in Threads, ThreadStep(t) PROVE SessionInv'
  BY <1>2, ThreadSession
<1>3. CASE GwStep
  BY <1>3, GwSession
<1>4. CASE UNCHANGED vars \/ \E g \in Gateways, c \in Channels : GwExpire(g, c)
  <2>1. UNCHANGED <<main, argPort, argChid, remoteIp, remotePort, chid, thr, net,
                    granted, lit, connTo, lightTo>>
    BY <1>4 DEF vars, GwExpire, args, client, gws, log
  <2> QED
    BY <2>1 DEF SessionInv, EarlyInv, LateInv, Early, OwnChannel
<1> QED
  BY <1>1, <1>2, <1>3, <1>4 DEF Next

LEMMA SessionHolds ==
    ASSUME Timely = TRUE
    PROVE  Spec => [](IInv /\ SessionInv)
<1>1. Init => IInv /\ SessionInv
  BY InitInv, InitSession
<1>2. IInv /\ SessionInv /\ [Next]_vars => (IInv /\ SessionInv)'
  BY NextInv, NextSession
<1> QED
  BY <1>1, <1>2, PTL DEF Spec

(* With answers in time, and whatever is lost, doubled or refused, no      *)
(* gateway switches its lamp for a client it granted no channel.           *)
THEOREM OwnChannelOnlyHolds ==
    ASSUME Timely = TRUE
    PROVE  Spec => []OwnChannelOnly
<1>1. IInv /\ SessionInv => OwnChannelOnly
  BY DEF SessionInv, EarlyInv, LateInv, OwnChannelOnly
<1> QED
  BY <1>1, SessionHolds, PTL

(* A step of the client, its threads, the datagrams and the gateways is    *)
(* one of the session or none.                                             *)
LEMMA SessionStep ==
    ASSUME Timely = TRUE, IInv, SessionInv, [Next]_vars
    PROVE  [Session!Next]_(Session!vars)
<1> DEFINE target == IF connTo.ip = connTo.port THEN connTo.ip ELSE Torn
           grants == IF connTo.ip = connTo.port /\ connTo.ip \in Gateways
                     THEN granted[connTo.ip] ELSE {}
           channel == IF lightTo = Unsent THEN None
                      ELSE IF [lightTo EXCEPT !.chan = 0] = connTo THEN lightTo.chan
                      ELSE Torn
<1>a. None \notin Gateways \cup {NoHost, Torn} \cup Nat /\ Unsent.ip = None /\ Unsent.port = None
  BY KnxAssumption DEF Unsent
<1>1. CASE ConnectSend
  <2>1. /\ connTo = Unsent /\ remoteIp \in answered \cup {NoHost}
        /\ connTo' = [ip |-> remoteIp, port |-> remoteIp, chan |-> 0]
        /\ \A g \in Gateways : granted[g] = {}
    BY <1>1, ConnectStep
  <2>2. UNCHANGED <<answered, granted, lightTo>> /\ lightTo = Unsent
    BY <1>1 DEF ConnectSend, gws, SessionInv, EarlyInv, Early
  <2>3. target = None /\ target' \in answered \cup {NoHost}
    BY <1>a, <2>1
  <2>4. grants' = grants /\ channel' = channel
    BY <1>a, <2>1, <2>2
  <2> QED
    BY <2>2, <2>3, <2>4 DEF Session!Next, Session!Choose
<1>2. CASE LightSend
  <2>1. /\ ~Early /\ LateInv /\ main = "lightSend"
        /\ lightTo' = [ip |-> remoteIp, port |-> argPort, chan |-> argChid]
        /\ UNCHANGED <<answered, granted, connTo>>
        /\ argChid \in Channels \cup {0} /\ remoteIp \in Hosts \cup {Torn}
    BY <1>2 DEF LightSend, Early, SessionInv, gws, IInv, TypeOK
  <2>2. /\ connTo = [ip |-> remoteIp, port |-> remoteIp, chan |-> 0]
        /\ argPort = remoteIp /\ OwnChannel(argChid) /\ lightTo = Unsent
    BY <2>1 DEF LateInv
  <2>3. target = remoteIp /\ target # None /\ target' = target
    BY <1>a, <2>1, <2>2 DEF Hosts
  <2>4. grants' = grants /\ argChid \in grants \cup {0}
    BY <2>1, <2>2 DEF OwnChannel
  <2>5. channel = None
    BY <2>2
  <2>6. channel' = argChid
    BY <1>a, <2>1, <2>2, <2>3 DEF Unsent
  <2> QED
    BY <2>1, <2>3, <2>4, <2>5, <2>6 DEF Session!Next, Session!Command
<1>3. ASSUME NEW m \in net, GwSearch(m) PROVE Session!Next
  <2>1. /\ answered' = answered \cup {m.gw} /\ m.gw \in Gateways
        /\ UNCHANGED <<granted, connTo, lightTo>>
    BY <1>3 DEF GwSearch, log, IInv, TypeOK, Msg
  <2> QED
    BY <2>1 DEF Session!Next, Session!Offer
<1>4. ASSUME NEW m \in net, GwConnect(m) PROVE [Session!Next]_(Session!vars)
  <2>1. /\ m.gw \in Gateways /\ m.type = "connReq"
        /\ UNCHANGED <<answered, connTo, lightTo>>
    BY <1>4 DEF GwConnect, log, IInv, TypeOK, Msg
  <2>2. connTo = [ip |-> m.gw, port |-> m.gw, chan |-> 0]
    BY <2>1 DEF SessionInv, EarlyInv, LateInv
  <2>3. \/ granted' = granted
        \/ \E c \in Channels : granted' = [granted EXCEPT ![m.gw] = @ \cup {c}]
    BY <1>4 DEF GwConnect
  <2>4. CASE granted' = granted
    BY <2>1, <2>4 DEF Session!vars
  <2>5. ASSUME NEW c \in Channels, granted' = [granted EXCEPT ![m.gw] = @ \cup {c}]
        PROVE  Session!Next
    <3>1. granted'[m.gw] = granted[m.gw] \cup {c}
      BY <2>1, <2>5 DEF IInv, TypeOK
    <3>2. grants' = grants \cup {c} /\ target = m.gw /\ UNCHANGED <<target, channel>>
      BY <2>1, <2>2, <3>1
    <3> QED
      BY <2>1, <3>2 DEF Session!Next, Session!Grant
  <2> QED
    BY <2>3, <2>4, <2>5
<1>5. CASE UNCHANGED <<answered, granted, connTo, lightTo>>
  BY <1>5 DEF Session!vars
<1>6. \/ ConnectSend \/ LightSend \/ \E m \in net : GwSearch(m) \/ GwConnect(m)
      \/ UNCHANGED <<answered, granted, connTo, lightTo>>
  BY DEF Next, MainStep, InitSock, Search, Description, ConnectPort, LightChannel,
         LightPort, ThreadStep, Capture, WritePort, TearIp, WriteIp, WriteChid,
         GwStep, GwDescription, GwTunnel, GwExpire, vars, gws, log
<1> QED
  BY <1>1, <1>2, <1>3, <1>4, <1>5, <1>6

LEMMA SessionBegins == Init => Session!Init
  BY DEF Init, Session!Init, Unsent

(* knxTest implements the session of KnxSession when the answers come in   *)
(* time, for every number of gateways and channels and every fate of the   *)
(* datagrams: the lamp command goes to the gateway that was asked for the  *)
(* connection, on a channel it granted or on none.                         *)
THEOREM ImplementsSessionHolds ==
    ASSUME Timely = TRUE
    PROVE  Spec => ImplementsSession
<1>1. IInv /\ SessionInv /\ [Next]_vars => [Session!Next]_(Session!vars)
  BY SessionStep
<1> QED
  BY <1>1, SessionHolds, SessionBegins, PTL DEF Spec, ImplementsSession, Session!Spec
=============================================================================
