------------------------------- MODULE KnxClient -------------------------------
(***************************************************************************)
(* The KNXnet/IP tunnelling client of knx/KNXWrapper.cpp: the main thread  *)
(* of knxTest, its two capture threads, the datagrams, and the gateways.   *)
(*                                                                         *)
(* knxTest sends a request, sleeps, and sends the next one with whatever   *)
(* the capture threads have put into g_knxClient by then; no step looks at *)
(* whether an answer came.  g_knxClient is written and read without a lock *)
(* so each of its fields is read and written in a step of its own, and the *)
(* string remote_ip can be read half written.                              *)
(*                                                                         *)
(* An address is named by the gateway it belongs to: remote_ip = g is the  *)
(* address of g's control endpoint, remote_port = g its port.  The keep-   *)
(* alive thread of the source is never started and is not modelled.        *)
(***************************************************************************)
EXTENDS Naturals, FiniteSets

CONSTANTS Gateways,   \* the gateways in reach of the multicast
          Router,     \* the gateway at the fixed address KNX_NET_IP_ROUTER
          Channels,   \* channel numbers; 0 is none
          Fates,      \* how many copies of a datagram arrive
          Timely,     \* whether all answers arrive during the next sleep
          SockFails,  \* whether binding a socket may fail
          NoHost,     \* the address "", port 0 of a zeroed g_knxClient
          Torn,       \* a half written remote_ip
          None        \* no request sent, no datagram taken

ASSUME KnxAssumption ==
    /\ IsFiniteSet(Gateways) /\ Router \in Gateways
    /\ Channels \subseteq Nat \ {0}
    /\ Fates \subseteq Nat /\ Fates # {}
    /\ Timely \in BOOLEAN /\ SockFails \in BOOLEAN
    /\ NoHost \notin Gateways /\ Torn \notin Gateways \cup {NoHost}
    /\ None \notin Gateways \cup {NoHost, Torn} \cup Nat

VARIABLES main,                      \* where knxTest is
          argPort, argChid,          \* arguments it has read
          remoteIp, remotePort, chid, \* g_knxClient
          controlUp, tunnelUp,       \* the sockets are bound
          thr,                       \* the capture threads
          net,                       \* datagrams under way
          clean,                     \* each datagram sent arrived just once
          answered,                  \* gateways that saw the search
          chan,                      \* the gateways' channels
          granted,                   \* channels granted to this client
          lit,                       \* gateways that switched their lamp
          connTo, lightTo            \* where the two requests went

client == <<remoteIp, remotePort, chid>>
args == <<argPort, argChid>>
socks == <<controlUp, tunnelUp>>
gws == <<answered, chan, granted, lit>>
log == <<connTo, lightTo>>
vars == <<main, args, client, socks, thr, net, clean, gws, log>>

Threads == {"control", "tunnel"}
Hosts == Gateways \cup {NoHost}
Unsent == [ip |-> None, port |-> None, chan |-> 0]

(* A datagram: what it is, the gateway it goes to or comes from, and the   *)
(* channel it names.  copy tells the copies of a duplicated one apart.     *)
Requests == {"searchReq", "descrReq", "connReq", "tunReq"}
Received(t) == IF t = "control" THEN {"searchRes", "descrRes", "connRes"}
                                ELSE {"tunAck"}
Msg == [type : Requests \cup Received("control") \cup Received("tunnel"),
        gw : Gateways, chan : Channels \cup {0}, copy : Nat]
M(type, g, c) == [type |-> type, gw |-> g, chan |-> c, copy |-> 0]

(* UDP: each datagram sent arrives as often as its fate says, in any order *)
Copies(ms, f) == UNION {{[m EXCEPT !.copy = i] : i \in 1 .. f[m]} : m \in ms}
Put(base, ms) == \E f \in [ms -> Fates] :
    /\ net' = base \cup Copies(ms, f)
    /\ clean' = (clean /\ \A m \in ms : f[m] = 1)

(* knx_send; a socket that was not bound sends nothing.                    *)
KnxSend(up, ms) == IF up THEN Put(net, ms) ELSE net' = net /\ clean' = FALSE

(* The datagrams a request to the address <<ip, port>> amounts to.         *)
At(ip, port, type, c) == IF ip = port /\ ip \in Gateways
                         THEN {M(type, ip, c)} ELSE {}

Idle == [pc |-> "select", msg |-> None]

-----------------------------------------------------------------------------
Init ==
    /\ main = "init"
    /\ argPort = NoHost /\ argChid = 0
    /\ remoteIp = NoHost /\ remotePort = NoHost /\ chid = 0
    /\ controlUp = FALSE /\ tunnelUp = FALSE
    /\ thr = [t \in Threads |-> Idle]
    /\ net = {} /\ clean = TRUE
    /\ answered = {}
    /\ chan \in [Gateways -> [Channels -> {"closed", "fresh", "used"}]]
    /\ granted = [g \in Gateways |-> {}]
    /\ lit = {}
    /\ connTo = Unsent /\ lightTo = Unsent

(* knx_init_sock and the start of the threads.  A failed bind of the       *)
(* control socket returns before the tunnel socket is made; knxTest does   *)
(* not look at the result.                                                 *)
InitSock ==
    /\ main = "init"
    /\ main' = "search"
    /\ controlUp' \in {TRUE} \cup (IF SockFails THEN {FALSE} ELSE {})
    /\ tunnelUp' \in {controlUp'} \cup (IF SockFails THEN {FALSE} ELSE {})
    /\ UNCHANGED <<args, client, thr, net, clean, gws, log>>

(* KNXCSearchRQ, to the multicast address.                                 *)
Search ==
    /\ main = "search"
    /\ main' = "descr"
    /\ KnxSend(controlUp, {M("searchReq", g, 0) : g \in Gateways})
    /\ UNCHANGED <<args, client, socks, thr, gws, log>>

(* KNXCDescription, to a fixed address.                                    *)
Description ==
    /\ main = "descr"
    /\ main' = "connect"
    /\ KnxSend(controlUp, {M("descrReq", Router, 0)})
    /\ UNCHANGED <<args, client, socks, thr, gws, log>>

(* Mutant: knxTest does not sleep between its requests.                    *)
NoSleep == TRUE

(* sleep(5), sleep(3): the answers that come in time have been handled.    *)
Slept == Timely => net = {} /\ \A t \in Threads : thr[t] = Idle

(* KNXCConnectRQ: the port is read for the call of knx_send, the address   *)
(* inside it.                                                              *)
ConnectPort ==
    /\ main = "connect"
    /\ Slept
    /\ main' = "connectSend"
    /\ argPort' = remotePort
    /\ UNCHANGED <<argChid, client, socks, thr, net, clean, gws, log>>

ConnectSend ==
    /\ main = "connectSend"
    /\ main' = "light"
    /\ connTo' = [ip |-> remoteIp, port |-> argPort, chan |-> 0]
    /\ KnxSend(controlUp, At(remoteIp, argPort, "connReq", 0))
    /\ UNCHANGED <<args, client, socks, thr, gws, lightTo>>

(* Mutant: the request is built before the sleep, with channel 0.          *)
LightChannelEarly ==
    /\ main = "light"
    /\ Slept
    /\ main' = "lightPort"
    /\ argChid' = 0
    /\ UNCHANGED <<argPort, client, socks, thr, net, clean, gws, log>>

(* Mutant: the channel of the recorded packet is not replaced.             *)
LightChannelRecorded ==
    /\ main = "light"
    /\ Slept
    /\ main' = "lightPort"
    /\ argChid' \in Channels
    /\ UNCHANGED <<argPort, client, socks, thr, net, clean, gws, log>>

(* KNXCTunnelRQ_OpenLight: the channel goes into the request first.        *)
LightChannel ==
    /\ main = "light"
    /\ Slept
    /\ main' = "lightPort"
    /\ argChid' = chid
    /\ UNCHANGED <<argPort, client, socks, thr, net, clean, gws, log>>

LightPort ==
    /\ main = "lightPort"
    /\ main' = "lightSend"
    /\ argPort' = remotePort
    /\ UNCHANGED <<argChid, client, socks, thr, net, clean, gws, log>>

LightSend ==
    /\ main = "lightSend"
    /\ main' = "done"
    /\ lightTo' = [ip |-> remoteIp, port |-> argPort, chan |-> argChid]
    /\ KnxSend(tunnelUp, At(remoteIp, argPort, "tunReq", argChid))
    /\ UNCHANGED <<args, client, socks, thr, gws, connTo>>

-----------------------------------------------------------------------------
(* The capture threads: select, recvfrom and knx_packet_parse.  A search   *)
(* response is known by its service number, which knx_parse leaves in the  *)
(* packet although it reports an unknown service; neither a sender nor the *)
(* status of a connection response is looked at.                           *)
Capture(t) ==
    /\ thr[t] = Idle
    /\ IF t = "control" THEN controlUp ELSE tunnelUp
    /\ \E m \in net :
          /\ m.type \in Received(t)
          /\ net' = net \ {m}
          /\ clean' = clean
          /\ thr' = [thr EXCEPT ![t] =
                CASE m.type = "searchRes" -> [pc |-> "port", msg |-> m]
                  [] m.type = "connRes" -> [pc |-> "chid", msg |-> m]
                  [] OTHER -> Idle]
    /\ UNCHANGED <<main, args, client, socks, gws, log>>

(* Mutant: the address is not stored (a response taken for a repetition).  *)
WritePortOnly(t) ==
    /\ thr[t].pc = "port"
    /\ remotePort' = thr[t].msg.gw
    /\ thr' = [thr EXCEPT ![t] = Idle]
    /\ UNCHANGED <<main, args, remoteIp, chid, socks, net, clean, gws, log>>

WritePort(t) ==
    /\ thr[t].pc = "port"
    /\ remotePort' = thr[t].msg.gw
    /\ thr' = [thr EXCEPT ![t].pc = "tear"]
    /\ UNCHANGED <<main, args, remoteIp, chid, socks, net, clean, gws, log>>

(* snprintf into remote_ip, byte by byte.                                  *)
TearIp(t) ==
    /\ thr[t].pc = "tear"
    /\ remoteIp' = IF remoteIp = thr[t].msg.gw THEN remoteIp ELSE Torn
    /\ thr' = [thr EXCEPT ![t].pc = "ip"]
    /\ UNCHANGED <<main, args, remotePort, chid, socks, net, clean, gws, log>>

WriteIp(t) ==
    /\ thr[t].pc = "ip"
    /\ remoteIp' = thr[t].msg.gw
    /\ thr' = [thr EXCEPT ![t] = Idle]
    /\ UNCHANGED <<main, args, remotePort, chid, socks, net, clean, gws, log>>

WriteChid(t) ==
    /\ thr[t].pc = "chid"
    /\ chid' = thr[t].msg.chan
    /\ thr' = [thr EXCEPT ![t] = Idle]
    /\ UNCHANGED <<main, args, remoteIp, remotePort, socks, net, clean, gws, log>>

-----------------------------------------------------------------------------
(* The gateways (external).                                                *)

GwSearch(m) ==
    /\ m.type = "searchReq"
    /\ answered' = answered \cup {m.gw}
    /\ Put(net \ {m}, {M("searchRes", m.gw, 0)})
    /\ UNCHANGED <<main, args, client, socks, thr, chan, granted, lit, log>>

GwDescription(m) ==
    /\ m.type = "descrReq"
    /\ Put(net \ {m}, {M("descrRes", m.gw, 0)})
    /\ UNCHANGED <<main, args, client, socks, thr, gws, log>>

(* A connection request is granted a free channel, or refused: a response  *)
(* with an error status and channel 0.                                     *)
GwConnect(m) ==
    /\ m.type = "connReq"
    /\ \/ \E c \in Channels :
             /\ chan[m.gw][c] = "closed"
             /\ chan' = [chan EXCEPT ![m.gw][c] = "fresh"]
             /\ granted' = [granted EXCEPT ![m.gw] = @ \cup {c}]
             /\ Put(net \ {m}, {M("connRes", m.gw, c)})
       \/ /\ \A c \in Channels : chan[m.gw][c] # "closed"
          /\ Put(net \ {m}, {M("connRes", m.gw, 0)})
          /\ UNCHANGED <<chan, granted>>
    /\ UNCHANGED <<main, args, client, socks, thr, answered, lit, log>>

(* A tunnelling request with sequence number 0 is carried out on an open   *)
(* channel that has seen none yet, whoever opened it; a repetition is only *)
(* acknowledged, and a request for a closed channel discarded.             *)
GwTunnel(m) ==
    LET state == IF m.chan = 0 THEN "closed" ELSE chan[m.gw][m.chan] IN
    /\ m.type = "tunReq"
    /\ IF state = "fresh"
       THEN /\ chan' = [chan EXCEPT ![m.gw][m.chan] = "used"]
            /\ lit' = lit \cup {m.gw}
       ELSE UNCHANGED <<chan, lit>>
    /\ IF state = "closed" THEN net' = net \ {m} /\ clean' = clean
       ELSE Put(net \ {m}, {M("tunAck", m.gw, m.chan)})
    /\ UNCHANGED <<main, args, client, socks, thr, answered, granted, log>>

(* A gateway closes a channel that stayed silent: 120 s, which is more     *)
(* than the 11 s of sleeps in knxTest.                                     *)
GwExpire(g, c) ==
    /\ Timely => main = "done" /\ net = {}
    /\ chan[g][c] # "closed"
    /\ chan' = [chan EXCEPT ![g][c] = "closed"]
    /\ UNCHANGED <<main, args, client, socks, thr, net, clean, answered,
                   granted, lit, log>>

-----------------------------------------------------------------------------
MainStep == InitSock \/ Search \/ Description \/ ConnectPort \/ ConnectSend
            \/ LightChannel \/ LightPort \/ LightSend
ThreadStep(t) == Capture(t) \/ WritePort(t) \/ TearIp(t) \/ WriteIp(t)
                 \/ WriteChid(t)
GwStep == \E m \in net : GwSearch(m) \/ GwDescription(m) \/ GwConnect(m)
                         \/ GwTunnel(m)

Next ==
    \/ MainStep
    \/ \E t \in Threads : ThreadStep(t)
    \/ GwStep
    \/ \E g \in Gateways, c \in Channels : GwExpire(g, c)

Spec == Init /\ [][Next]_vars

(* As long as a thread of the client or a gateway can go on, one does.     *)
FairSpec == Spec /\ WF_vars(MainStep \/ GwStep \/ \E t \in Threads : ThreadStep(t))

-----------------------------------------------------------------------------
(* Each variable has its type.                                             *)
TypeOK ==
    /\ main \in {"init", "search", "descr", "connect", "connectSend", "light",
                 "lightPort", "lightSend", "done"}
    /\ argPort \in Hosts /\ argChid \in Channels \cup {0}
    /\ remoteIp \in Hosts \cup {Torn} /\ remotePort \in Hosts
    /\ chid \in Channels \cup {0}
    /\ controlUp \in BOOLEAN /\ tunnelUp \in BOOLEAN
    /\ thr \in [Threads -> {Idle} \cup
                 [pc : {"port", "tear", "ip", "chid"}, msg : Msg]]
    /\ net \subseteq Msg /\ clean \in BOOLEAN
    /\ answered \subseteq Gateways
    /\ chan \in [Gateways -> [Channels -> {"closed", "fresh", "used"}]]
    /\ granted \in [Gateways -> SUBSET Channels]
    /\ lit \subseteq Gateways
    /\ {connTo, lightTo} \subseteq
          {Unsent} \cup [ip : Hosts \cup {Torn}, port : Hosts,
                        chan : Channels \cup {0}]

(* While no response is being stored, remote_ip and remote_port belong to  *)
(* the same gateway and that gateway answered the search, although both    *)
(* are written without a lock and responses come late, twice and mixed.    *)
AddressPair ==
    (\A t \in Threads : thr[t].pc \notin {"tear", "ip"}) =>
        /\ remoteIp = remotePort
        /\ remoteIp \in answered \cup {NoHost}

(* What makes AddressPair inductive: only the control thread stores search *)
(* responses, one at a time, and they come from gateways that answered.    *)
Storing ==
    /\ thr["tunnel"] = Idle
    /\ \A m \in net : m.type = "searchRes" => m.gw \in answered
    /\ LET t == thr["control"] IN
       /\ t.pc \in {"port", "tear", "ip"} => t.msg.gw \in answered
       /\ t.pc \in {"tear", "ip"} => remotePort = t.msg.gw
       /\ t.pc = "tear" => remoteIp \in answered \cup {NoHost}

IInv == TypeOK /\ AddressPair /\ Storing

(* A gateway only switches its lamp for a client it granted a channel: the *)
(* command is never carried out over the channel of another client.        *)
OwnChannelOnly == \A g \in lit : granted[g] # {}

(* When answers come within the sleeps, and whatever is lost, repeated or  *)
(* refused, the client keeps to one gateway that offered itself and to a   *)
(* channel that gateway granted.                                           *)
Session == INSTANCE KnxSession WITH
    offers <- answered,
    target <- IF connTo.ip = connTo.port THEN connTo.ip ELSE Torn,
    grants <- IF connTo.ip = connTo.port /\ connTo.ip \in Gateways
              THEN granted[connTo.ip] ELSE {},
    channel <- IF lightTo = Unsent THEN None
               ELSE IF [lightTo EXCEPT !.chan = 0] = connTo THEN lightTo.chan
               ELSE Torn

(* knxTest implements the session above.                                   *)
ImplementsSession == Session!Spec

(* A client that was granted a channel in time switches the lamp of that   *)
(* gateway in the end, unless a datagram was lost or doubled.              *)
GrantedIsSwitched ==
    \A g \in Gateways : granted[g] # {} ~> g \in lit \/ ~clean

(* The claim of connres.h, status 0 is good: the lamp command is only sent *)
(* on a channel that a gateway granted.                                    *)
CommandNeedsGrant ==
    lightTo # Unsent =>
        lightTo.ip \in Gateways /\ lightTo.chan \in granted[lightTo.ip]
=============================================================================
