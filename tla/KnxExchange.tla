---------------------------- MODULE KnxExchange ----------------------------
(***************************************************************************)
(* One datagram after the other between the client of knx/KNXWrapper.cpp   *)
(* and a gateway, octet by octet: the requests the client generates from   *)
(* what it has stored, the recorded ones it repeats, packets a program     *)
(* generates with the frame library, and the gateway's answers; each is    *)
(* received as knx_packet_parse does.  KnxClient has the interleavings of  *)
(* the same client, with messages in place of octets.                      *)
(***************************************************************************)
EXTENDS Integers, Sequences, KnxFrames

CONSTANTS Endpoints,   \* host informations of gateways
          LocalHost,   \* LOCAL_IP and KNXC_PORT
          TunnelHost,  \* the same with the port of the tunnel socket
          Packets,     \* packets of library users: [service, payload]
          Values,      \* datapoint values: [type, value, size]
          ChannelIds,  \* channels a gateway grants
          Numbers,     \* arguments seq_num
          Leftovers,   \* what the receive buffer may hold after a datagram
          MaxServices  \* bound on the services of a described gateway

(* The values a datapoint type has; -67108864 to 67076096 hundredths are   *)
(* what the largest exponent leaves of a 16-bit float.                     *)
Floats == {x \in Int : -67108864 <= x /\ x <= 67076096}

DatapointValues ==
    [type : {"bool"}, value : 0 .. 1, size : {0}]
    \cup [type : {"cvalue"}, value : [control : 0 .. 1, value : 0 .. 1], size : {0}]
    \cup [type : {"cstep"}, value : [control : 0 .. 1, step : 0 .. 7], size : {0}]
    \cup {v \in [type : {"asis"}, value : Seq(Octet), size : {1, 2, 4}] :
            Len(v.value) = v.size}
    \cup [type : {"float16"}, value : Floats, size : {0}]
    \cup [type : {"time"}, size : {0}, value :
            [day : 0 .. 7, hour : 0 .. 23, minute : 0 .. 59, second : 0 .. 59]]
    \cup [type : {"date"}, size : {0}, value :
            [day : 0 .. 31, month : 0 .. 12, year : 0 .. 99]]

(* A described gateway has so few services that the octets made up for     *)
(* them are octets.                                                        *)
ASSUME ExchangeAssumption ==
    /\ ChannelIds \subseteq Octet \ {0} /\ Numbers \subseteq Nat
    /\ Endpoints \subseteq KnxHostInfos
    /\ {LocalHost, TunnelHost} \subseteq KnxHostInfos
    /\ LocalHost.protocol = 1 /\ TunnelHost.protocol = 1
    /\ \A p \in Packets : p.payload \in KnxPayloads(p.service)
    /\ Values \subseteq DatapointValues
    /\ Leftovers \subseteq Seq(Octet)
    /\ MaxServices \in 0 .. 77

VARIABLES remote,    \* g_knxClient.remote_ip and remote_port
          chid,      \* g_knxClient.remote_chid
          sent,      \* the packet under way, as its sender has it
          datagram,  \* its octets
          packet     \* packet_out, of the last call of knx_packet_parse

vars == <<remote, chid, sent, datagram, packet>>

None == [kind |-> "none"]
Blank == [ok |-> FALSE, service |-> 0, payload |-> <<>>]

(* A buffer of the given size that starts with what was written into it.   *)
Unwrittens(n) == [i \in 1 .. n |-> Unwritten]
Buffer(written, size) == written \o Unwrittens(size - Len(written))

-----------------------------------------------------------------------------
(* The recorded management requests: each is a datagram that was recorded  *)
(* on a network, in which the sender replaces the channel and the sequence *)
(* number.                                                                 *)
Zeros(n) == [i \in 1 .. n |-> 0]

(* A recorded tunnelling request: its declared length, the control fields  *)
(* and destination of its L_Data frame, and the data with their length.    *)
(* Octets 8 and 9 are those of the recording until they are replaced.      *)
Peer(length, control1, control2, destination, count, tpdu) ==
    <<6, 16, 4, 32, 0, length, 4, 21, 0, 0, 17, 0, control1, control2, 0, 0>>
        \o destination \o <<count>> \o tpdu

(* Mutant: the two octets are replaced the other way round.                *)
ReplacedSwapped(peer, channel, seq) ==
    [peer EXCEPT ![8] = seq % 256, ![9] = channel % 256]

Replaced(peer, channel, seq) ==
    [peer EXCEPT ![8] = channel % 256, ![9] = seq % 256]

(* Giving a device its individual address.                                 *)
KNXCTunnelRQ_IndAddrRead_step1 == Peer(21, 176, 224, <<0, 0>>, 1, <<1, 0>>)
KNXCTunnelRQ_IndAddrWrite ==
    Peer(23, 176, 224, <<0, 0>>, 3, <<0, 192, 17, 1>>)
KNXCTunnelRQ_IndAddrRead_step2 == Peer(21, 176, 224, <<0, 0>>, 1, <<1, 0>>)
KNXCTunnelRQ_IndAddrConnect == Peer(20, 176, 96, <<17, 1>>, 0, <<128>>)
KNXCTunnelRQ_IndAddrDevDescrRead == Peer(21, 176, 96, <<17, 1>>, 1, <<67, 0>>)
KNXCTunnelRQ_IndAddrPropValueRead ==
    Peer(25, 176, 96, <<17, 1>>, 5, <<71, 213, 0, 11, 16, 1>>)
KNXCTunnelRQ_IndAddrRestart == Peer(21, 176, 96, <<17, 1>>, 1, <<75, 128>>)
KNXCTunnelRQ_IndAddrDisconnect == Peer(20, 176, 96, <<17, 1>>, 0, <<129>>)

(* Writing to an authorised device.                                        *)
KNXCTunnelRQ_EditConnect == Peer(20, 176, 96, <<17, 1>>, 0, <<128>>)
KNXCTunnelRQ_EditAuthReq ==
    Peer(26, 176, 96, <<17, 1>>, 6, <<75, 209, 0, 255, 255, 255, 255>>)
KNXCTunnelRQ_EditPropValueWrite ==
    Peer(35, 176, 96, <<17, 1>>, 15, <<103, 215, 5, 5, 16, 1, 4>> \o Zeros(9))
KNXCTunnelRQ_EditMemWrite ==
    Peer(75, 48, 96, <<17, 1>>, 55,
         <<110, 180, 24, 229, 4, 20, 19, 10, 128>> \o Zeros(16) \o <<128>> \o Zeros(17)
           \o <<128, 0, 0, 0, 64, 52, 66, 32, 53, 65, 32, 54, 67>>)
KNXCTunnelRQ_EditRestart == Peer(21, 176, 96, <<17, 1>>, 1, <<91, 128>>)

(* A property of a device, switched on and off; the first request goes to  *)
(* the control endpoint.                                                   *)
KNXCTunnelRQ_Rs485DevConfigRq ==
    <<6, 16, 3, 16, 0, 17, 4, 96, 0, 0, 252, 0, 0, 1, 83, 16, 1>>
KNXCTunnelRQ_Rs485Connect == Peer(20, 176, 96, <<17, 1>>, 0, <<128>>)
KNXCTunnelRQ_Rs485DevDescrRead == Peer(21, 176, 96, <<17, 1>>, 1, <<67, 0>>)
KNXCTunnelRQ_Rs485PropValueRead ==
    Peer(25, 176, 96, <<17, 1>>, 5, <<71, 213, 0, 56, 16, 1>>)
KNXCTunnelRQ_Rs485PropValueWrite_open ==
    Peer(26, 176, 96, <<17, 1>>, 6, <<75, 215, 0, 54, 16, 1, 1>>)
KNXCTunnelRQ_Rs485PropValueWrite_close ==
    Peer(26, 176, 96, <<17, 1>>, 6, <<75, 215, 0, 54, 16, 1, 0>>)
KNXCTunnelRQ_Rs485PropValueRead_step2 ==
    Peer(25, 176, 96, <<17, 1>>, 5, <<79, 213, 0, 54, 16, 1>>)
KNXCTunnelRQ_Rs485Disconnect == Peer(20, 176, 96, <<17, 1>>, 0, <<129>>)

Recorded ==
    { KNXCTunnelRQ_IndAddrRead_step1, KNXCTunnelRQ_IndAddrWrite,
      KNXCTunnelRQ_IndAddrRead_step2, KNXCTunnelRQ_IndAddrConnect,
      KNXCTunnelRQ_IndAddrDevDescrRead, KNXCTunnelRQ_IndAddrPropValueRead,
      KNXCTunnelRQ_IndAddrRestart, KNXCTunnelRQ_IndAddrDisconnect,
      KNXCTunnelRQ_EditConnect, KNXCTunnelRQ_EditAuthReq,
      KNXCTunnelRQ_EditPropValueWrite, KNXCTunnelRQ_EditMemWrite,
      KNXCTunnelRQ_EditRestart,
      KNXCTunnelRQ_Rs485DevConfigRq, KNXCTunnelRQ_Rs485Connect,
      KNXCTunnelRQ_Rs485DevDescrRead, KNXCTunnelRQ_Rs485PropValueRead,
      KNXCTunnelRQ_Rs485PropValueWrite_open,
      KNXCTunnelRQ_Rs485PropValueWrite_close,
      KNXCTunnelRQ_Rs485PropValueRead_step2, KNXCTunnelRQ_Rs485Disconnect }

-----------------------------------------------------------------------------
(* The payloads of the client's own requests.                              *)

SearchPayload == [control |-> LocalHost]

ConnectPayload == [type |-> 4, layer |-> 2, control |-> LocalHost, tunnel |-> TunnelHost]

StatePayload == [channel |-> chid % 256, status |-> 0, host |-> LocalHost]

(* A request to write payload, with the fields left zero in the source.    *)
WriteRequest(source, destination, priority, apci, payload) ==
    [channel |-> chid % 256, seq |-> 0,
     data |-> [service |-> 17, addInfo |-> <<>>, ldata |->
        [control1 |-> [repeat |-> FALSE, systemBroadcast |-> FALSE, priority |-> priority,
                       requestAck |-> FALSE, error |-> FALSE],
         control2 |-> [addressType |-> 1, hops |-> 6],
         source |-> source, destination |-> destination,
         tpdu |-> [tpci |-> 0, seq |-> 0, apci |-> apci, payload |-> payload]]]]

OpenLightPayload == WriteRequest(65521, 2564, 3, 2, <<1>>)

AddrWritePayload == WriteRequest(4356, 0, 0, 3, <<0, 16>>)

-----------------------------------------------------------------------------
Init ==
    /\ remote = NoHost /\ chid = 0
    /\ sent = None /\ datagram = <<>>
    /\ packet = Blank

(* knx_generate into a buffer of knx_size.                                 *)
Generate(kind, service, payload, value) ==
    /\ sent = None
    /\ sent' = [kind |-> kind, service |-> service, payload |-> payload, value |-> value]
    /\ datagram' = Buffer(knx_generate(service, payload),
                          KNX_HEADER_SIZE + knx_payload_size(service, payload))
    /\ packet' = Blank
    /\ UNCHANGED <<remote, chid>>

Request(service, payload) == Generate("packet", service, payload, <<>>)

KNXCSearchRQ == Request(KNX_SEARCH_REQUEST, SearchPayload)
KNXCDescription == Request(KNX_DESCRIPTION_REQUEST, SearchPayload)
KNXCConnectRQ == Request(KNX_CONNECTION_REQUEST, ConnectPayload)
KNXCConStateRQ == Request(KNX_CONNECTION_STATE_REQUEST, StatePayload)
KNXCTunnelRQ_OpenLight == Request(KNX_TUNNEL_REQUEST, OpenLightPayload)
KNXCTunnelRQ_AddrWrite == Request(KNX_TUNNEL_REQUEST, AddrWritePayload)

LibraryPacket == \E p \in Packets : Request(p.service, p.payload)

(* A value in a tunnelling request.                                        *)
LibraryValue == \E v \in Values :
    Generate("value", KNX_TUNNEL_REQUEST,
             WriteRequest(0, 2564, 3, 2, knx_dpt_to_apdu(v.type, v.value, 0)), v)

(* A recorded request, which is copied and sent as long as it is.          *)
Replay == \E peer \in Recorded, seq \in Numbers :
    /\ sent = None
    /\ sent' = [kind |-> "recorded", peer |-> peer, channel |-> chid % 256, seq |-> seq % 256]
    /\ datagram' = Replaced(peer, chid, seq)
    /\ packet' = Blank
    /\ UNCHANGED <<remote, chid>>

-----------------------------------------------------------------------------
(* The gateway's own answers (external): a description is 54 octets on the *)
(* device and the list of n services, in pairs after two octets.           *)
Device == [i \in 1 .. 54 |-> CASE i = 1 -> 54 [] i = 2 -> 1 [] OTHER -> i + 30]
ServiceList(n) == <<2 * n + 2, 2>> \o [i \in 1 .. (2 * n) |-> 100 + i]

Answer(service, host, n, octets) ==
    /\ sent = None
    /\ sent' = [kind |-> "answer", service |-> service, host |-> host, services |-> n]
    /\ datagram' = knx_header_generate(service, Len(octets)) \o octets
    /\ packet' = Blank
    /\ UNCHANGED <<remote, chid>>

GwSearch == \E h \in Endpoints, n \in 0 .. MaxServices :
    Answer(KNX_SEARCH_RESPONSE, h, n,
           <<8, h.protocol>> \o h.address \o h.port \o Device \o ServiceList(n))

GwDescription == \E n \in 0 .. MaxServices :
    Answer(KNX_DESCRIPTION_RESPONSE, NoHost, n, Device \o ServiceList(n))

(* A connection is granted, or refused with channel 0 and a status.        *)
GwConnect == \E h \in Endpoints, c \in ChannelIds, status \in {0, 36} :
    Request(KNX_CONNECTION_RESPONSE,
            [channel |-> IF status = 0 THEN c ELSE 0, status |-> status, host |-> h,
             extended |-> <<4, 17, 250>>])

-----------------------------------------------------------------------------
(* knx_packet_parse.  The receive buffer is given to knx_parse as long as  *)
(* it is, with what it held behind the datagram.                           *)
Receive == \E left \in Leftovers :
    LET out == knx_parse(datagram \o left)
        host == knx_host_info_parse(From(datagram, KNX_HEADER_SIZE + 1)).value
    IN  /\ sent # None
        /\ packet' = out
        /\ remote' = IF out.service = KNX_SEARCH_RESPONSE THEN host ELSE remote
        /\ chid' = IF out.service # KNX_CONNECTION_RESPONSE THEN chid
                   ELSE IF out.payload = <<>> THEN 0 ELSE out.payload.channel
        /\ sent' = None /\ datagram' = <<>>

Next ==
    \/ KNXCSearchRQ \/ KNXCDescription \/ KNXCConnectRQ \/ KNXCConStateRQ
    \/ KNXCTunnelRQ_OpenLight \/ KNXCTunnelRQ_AddrWrite
    \/ LibraryPacket \/ LibraryValue \/ Replay
    \/ GwSearch \/ GwDescription \/ GwConnect
    \/ Receive

Spec == Init /\ [][Next]_vars

-----------------------------------------------------------------------------
(* Octets are octets, and what the client stores has its type.             *)
TypeOK ==
    /\ remote.protocol \in 0 .. 2
    /\ remote.address \in Seq(Octet) /\ Len(remote.address) = 4
    /\ remote.port \in Seq(Octet) /\ Len(remote.port) = 2
    /\ chid \in Octet
    /\ sent.kind \in {"none", "packet", "value", "recorded", "answer"}
    /\ datagram \in Seq(Octet \cup {Unwritten})
    /\ DOMAIN packet = {"ok", "service", "payload"}

-----------------------------------------------------------------------------
(* A packet as a receiver can know it: a refused connection has no host,   *)
(* and the first payload octet has the apci in its high bits.              *)
KnownTpdu(t) ==
    IF IsControl(t.tpci) THEN t
    ELSE [t EXCEPT !.payload[1] = (@ % 64) + 64 * (t.apci % 4)]

Known(service, p) ==
    CASE service = KNX_CONNECTION_RESPONSE ->
            IF p.status = 0 THEN p
            ELSE [channel |-> p.channel, status |-> p.status, host |-> NoHost,
                  extended |-> <<0, 0, 0>>]
      [] service \in {KNX_TUNNEL_REQUEST, KNX_ROUTING_INDICATION} ->
            [p EXCEPT !.data.ldata.tpdu = KnownTpdu(@)]
      [] OTHER -> p

(* Whatever lies behind it in the receive buffer, a packet is received as  *)
(* it was given to knx_generate: no field is lost, moved or made up, by    *)
(* any service that the library both generates and parses.                 *)
PacketReceives ==
    sent.kind \in {"packet", "value"} /\ sent' = None /\ sent.service # KNX_SEARCH_REQUEST =>
        packet' = [ok |-> TRUE, service |-> sent.service,
                   payload |-> Known(sent.service, sent.payload)]

RoundTrip == [][PacketReceives]_vars

(* knx_generate never writes past the size that knx_size asked the caller  *)
(* for, and the length in the header is the length sent.  One octet of it  *)
(* is left unwritten in a packet with an L_Data frame, and none in others. *)
(* What is written are octets.                                             *)
Fits ==
    /\ TypeOK
    /\ sent.kind \in {"packet", "value"} =>
          /\ Len(datagram) = KNX_HEADER_SIZE + knx_payload_size(sent.service, sent.payload)
          /\ From16(datagram, 5) = Len(datagram)
          /\ {i \in 1 .. Len(datagram) : datagram[i] = Unwritten} =
                IF sent.service \in {KNX_TUNNEL_REQUEST, KNX_ROUTING_INDICATION}
                THEN {Len(datagram)} ELSE {}

(* The recorded tunnelling requests are what the library takes for some on *)
(* the channel and with the number they are sent with, and what it would   *)
(* generate for them, except for the length in the header.                 *)
ReplayReceives ==
    sent.kind = "recorded" /\ sent' = None =>
        /\ packet'.service = From16(sent.peer, 3)
        /\ packet'.service = KNX_TUNNEL_REQUEST =>
            /\ packet'.ok
            /\ packet'.payload.channel = chid /\ packet'.payload.seq = sent.seq
            /\ From(knx_generate(KNX_TUNNEL_REQUEST, packet'.payload), 7) = From(datagram, 7)

Replayed == [][ReplayReceives]_vars

(* A 16-bit float is received within a hundredth or a thousandth of it,    *)
(* unless its mantissa is the least one.                                   *)
LeastMantissa(x) == \E e \in 0 .. 15 : x = -2048 * 2^e
Near(x, y) == LET d == IF x > y THEN x - y ELSE y - x
              IN  d <= 1 \/ d * 1000 <= (IF x < 0 THEN -x ELSE x)

(* A datapoint value arrives as it was sent, through the APDU, the frame   *)
(* and back; of a time of day all but the day of the week.                 *)
ReceivedValue(v, got) ==
    /\ got.ok
    /\ CASE v.type = "float16" -> LeastMantissa(v.value) \/ Near(v.value, got.value)
         [] v.type = "time"    -> got.value = [v.value EXCEPT !.day = 0]
         [] OTHER              -> got.value = v.value

ValueReceives ==
    sent.kind = "value" /\ sent' = None =>
        ReceivedValue(sent.value,
                      knx_dpt_from_apdu(packet'.payload.data.ldata.tpdu.payload,
                                        sent.value.type, sent.value.size))

ValueKept == [][ValueReceives]_vars

(* What the client stores follows the gateway: a search response leaves    *)
(* the address of its sender, although knx_parse reports an error for it,  *)
(* a connection response the channel, and nothing else changes either.     *)
ClientReceives ==
    sent' = None =>
        /\ remote' = IF sent.kind = "answer" /\ sent.service = KNX_SEARCH_RESPONSE
                     THEN sent.host ELSE remote
        /\ chid' = IF sent.kind = "packet" /\ sent.service = KNX_CONNECTION_RESPONSE
                   THEN sent.payload.channel ELSE chid

ClientFollows == [][ClientReceives]_vars

(* The services of a description response are those that the gateway       *)
(* listed, in its order, and never octets from behind the datagram; there  *)
(* is one more entry, which is not filled in.                              *)
ServicesReceive ==
    sent.kind = "answer" /\ sent.service = KNX_DESCRIPTION_RESPONSE /\ sent' = None =>
        /\ packet'.ok
        /\ packet'.payload.services =
              [i \in 1 .. sent.services |-> <<99 + 2 * i, 100 + 2 * i>>]
                  \o <<<<Unwritten, Unwritten>>>>

ServicesListed == [][ServicesReceive]_vars

(* Whatever is received, from the library, a gateway or a recording, is    *)
(* what was sent.                                                          *)
ReceivedAsSent == RoundTrip /\ Replayed /\ ServicesListed
=============================================================================
