----------------------------- MODULE KnxFrames -----------------------------
(***************************************************************************)
(* The KNXnet/IP frame library, knx/proto: for every service the octets    *)
(* that knx_generate writes for a packet, the size that knx_payload_size   *)
(* computes for it, and what knx_parse makes of octets.  A structure is a  *)
(* record, an address or a port its octets in network order.  An octet     *)
(* that is in the buffer and was not written is Unwritten.                 *)
(***************************************************************************)
EXTENDS Integers, Sequences, KnxData

Unwritten == -1
KNX_HEADER_SIZE == 6
KNX_HOST_INFO_SIZE == 8
KNX_CEMI_HEADER_SIZE == 2

(* knx_service                                                             *)
KNX_SEARCH_REQUEST == 513
KNX_SEARCH_RESPONSE == 514
KNX_DESCRIPTION_REQUEST == 515
KNX_DESCRIPTION_RESPONSE == 516
KNX_CONNECTION_REQUEST == 517
KNX_CONNECTION_RESPONSE == 518
KNX_CONNECTION_STATE_REQUEST == 519
KNX_CONNECTION_STATE_RESPONSE == 520
KNX_DISCONNECT_REQUEST == 521
KNX_DISCONNECT_RESPONSE == 522
KNX_DEVICE_CONFIGURATION_REQUEST == 784
KNX_TUNNEL_REQUEST == 1056
KNX_TUNNEL_RESPONSE == 1057
KNX_ROUTING_INDICATION == 1328

U16(n) == <<(n \div 256) % 256, n % 256>>
From16(q, i) == q[i] * 256 + q[i + 1]
From(q, n) == SubSeq(q, n, Len(q))
Flag(b) == IF b THEN 1 ELSE 0

(* What the fields of the structures hold, as far as a frame has room.     *)
Word == {n \in Nat : n < 256 * 256}
Octets(n) == {q \in Seq(Octet) : Len(q) = n}
OctetsFrom(n) == {q \in Seq(Octet) : n <= Len(q) /\ Len(q) <= 255}

-----------------------------------------------------------------------------
(* Host information.  NoHost is what a zeroed packet holds.                *)

KnxHostInfos == [protocol : {1, 2}, address : Octets(4), port : Octets(2)]

NoHost == [protocol |-> 0, address |-> <<0, 0, 0, 0>>, port |-> <<0, 0>>]

knx_host_info_generate(h) == <<KNX_HOST_INFO_SIZE, h.protocol>> \o h.address \o h.port

knx_host_info_parse(q) ==
    IF \/ Len(q) < KNX_HOST_INFO_SIZE \/ q[1] # KNX_HOST_INFO_SIZE
       \/ q[2] \notin {1, 2}
    THEN [ok |-> FALSE, value |-> NoHost]
    ELSE Valid([protocol |-> q[2], address |-> SubSeq(q, 3, 6), port |-> SubSeq(q, 7, 8)])

-----------------------------------------------------------------------------
(* Transport data unit: data with an APDU, or control (tpci 2 and 3).      *)

IsControl(tpci) == tpci \in {2, 3}

KnxTpdus ==
    [tpci : {2, 3}, seq : 0 .. 15, control : 0 .. 3]
    \cup [tpci : {0, 1}, seq : 0 .. 15, apci : 0 .. 15, payload : OctetsFrom(1)]

knx_tpdu_size(t) == IF IsControl(t.tpci) THEN 1
                    ELSE IF Len(t.payload) + 1 > 2 THEN Len(t.payload) + 1 ELSE 2

(* The two high bits of the first payload octet belong to the apci.        *)
knx_tpdu_generate(t) ==
    LET first == t.tpci * 64 + (t.seq % 16) * 4
    IN  IF IsControl(t.tpci) THEN <<first + (t.control % 4)>>
        ELSE <<first + (t.apci \div 4), (t.payload[1] % 64) + (t.apci % 4) * 64>>
             \o Tail(t.payload)

knx_tpdu_parse(q) ==
    LET tpci == q[1] \div 64
        seq == (q[1] \div 4) % 16
    IN  IF IsControl(tpci)
        THEN Valid([tpci |-> tpci, seq |-> seq, control |-> q[1] % 4])
        ELSE IF Len(q) < 2 THEN Invalid
        ELSE Valid([tpci |-> tpci, seq |-> seq,
                    apci |-> (q[1] % 4) * 4 + (q[2] \div 64), payload |-> Tail(q)])

-----------------------------------------------------------------------------
(* L_Data and the cEMI frame around it.                                    *)

Control1s == [repeat : BOOLEAN, systemBroadcast : BOOLEAN, priority : 0 .. 3,
              requestAck : BOOLEAN, error : BOOLEAN]
Control2s == [addressType : 0 .. 1, hops : 0 .. 7]
KnxLDatas == [control1 : Control1s, control2 : Control2s,
              source : Word, destination : Word, tpdu : KnxTpdus]

knx_ldata_generate(d) ==
    LET n == knx_tpdu_size(d.tpdu) IN
    IF n > 256 THEN <<>>
    ELSE << Flag(n <= 16) * 128 + Flag(~d.control1.repeat) * 32
              + Flag(~d.control1.systemBroadcast) * 16 + d.control1.priority * 4
              + Flag(d.control1.requestAck) * 2 + Flag(d.control1.error),
            d.control2.addressType * 128 + (d.control2.hops % 8) * 16 >>
         \o U16(d.source) \o U16(d.destination) \o <<n - 1>>
         \o knx_tpdu_generate(d.tpdu)

(* One octet more than knx_ldata_generate writes.                          *)
knx_ldata_size(d) == 8 + knx_tpdu_size(d.tpdu)

(* Mutant: the repeat flag, which is stored inverted, is taken as it is.   *)
Control1AsStored(b) ==
    [repeat |-> Bit(b, 5) = 1, systemBroadcast |-> Bit(b, 4) = 0,
     priority |-> (b \div 4) % 4, requestAck |-> Bit(b, 1) = 1, error |-> Bit(b, 0) = 1]

Control1(b) ==
    [repeat |-> Bit(b, 5) = 0, systemBroadcast |-> Bit(b, 4) = 0,
     priority |-> (b \div 4) % 4, requestAck |-> Bit(b, 1) = 1, error |-> Bit(b, 0) = 1]

knx_ldata_parse(q) ==
    IF Len(q) < 8 \/ q[2] % 16 # 0 \/ q[7] + 8 > Len(q) THEN Invalid
    ELSE LET tpdu == knx_tpdu_parse(SubSeq(q, 8, 8 + q[7])) IN
         IF ~tpdu.ok THEN Invalid
         ELSE Valid([control1 |-> Control1(q[1]),
                     control2 |-> [addressType |-> Bit(q[2], 7), hops |-> (q[2] \div 16) % 8],
                     source |-> From16(q, 3), destination |-> From16(q, 5),
                     tpdu |-> tpdu.value])

LData == {17, 41, 46}
KnxCemis == [service : LData, addInfo : OctetsFrom(0), ldata : KnxLDatas]

knx_cemi_generate(f) ==
    <<f.service, Len(f.addInfo)>> \o f.addInfo \o knx_ldata_generate(f.ldata)

(* Mutant: the additional information is not counted.                      *)
CemiSizeNoInfo(f) == KNX_CEMI_HEADER_SIZE + knx_ldata_size(f.ldata)

knx_cemi_size(f) == KNX_CEMI_HEADER_SIZE + Len(f.addInfo) + knx_ldata_size(f.ldata)

knx_cemi_parse(q) ==
    IF \/ Len(q) < KNX_CEMI_HEADER_SIZE
       \/ KNX_CEMI_HEADER_SIZE + q[2] > Len(q)
       \/ q[1] \notin LData
    THEN Invalid
    ELSE LET d == knx_ldata_parse(From(q, KNX_CEMI_HEADER_SIZE + q[2] + 1)) IN
         IF ~d.ok THEN Invalid
         ELSE Valid([service |-> q[1], addInfo |-> SubSeq(q, 3, 2 + q[2]),
                     ldata |-> d.value])

-----------------------------------------------------------------------------
(* The payloads.                                                           *)

knx_connection_request_generate(p) ==
    knx_host_info_generate(p.control) \o knx_host_info_generate(p.tunnel)
        \o <<4, p.type, p.layer, 0>>

(* Tunnelling is the only type and layer that is taken.                    *)
knx_connection_request_parse(q) ==
    IF Len(q) < 20 \/ q[17] # 4 \/ q[18] # 4 \/ q[19] # 2 THEN Invalid
    ELSE LET c == knx_host_info_parse(q)
             t == knx_host_info_parse(From(q, 9))
         IN  [ok |-> c.ok /\ t.ok, value |-> [type |-> q[18], layer |-> q[19],
                                             control |-> c.value, tunnel |-> t.value]]

knx_connection_response_size(p) == IF p.status = 0 THEN 14 ELSE 2

knx_connection_response_generate(p) ==
    <<p.channel, p.status>> \o
    (IF p.status = 0 THEN knx_host_info_generate(p.host) \o <<4>> \o p.extended ELSE <<>>)

(* Channel and status are stored before the host is looked at.             *)
knx_connection_response_parse(q) ==
    LET known(ok, host, extended) ==
            [ok |-> ok, value |-> [channel |-> q[1], status |-> q[2], host |-> host,
                                   extended |-> extended]]
        host == knx_host_info_parse(From(q, 3))
    IN  IF Len(q) < 2 THEN Invalid
        ELSE IF Len(q) < 14 THEN known(TRUE, NoHost, <<0, 0, 0>>)
        ELSE IF ~host.ok THEN known(FALSE, NoHost, <<0, 0, 0>>)
        ELSE known(TRUE, host.value, SubSeq(q, 12, 14))

(* Disconnect requests and responses are laid out as those of the state.   *)
knx_connection_state_request_generate(p) ==
    <<p.channel, p.status>> \o knx_host_info_generate(p.host)

knx_connection_state_request_parse(q) ==
    IF Len(q) < 10 THEN Invalid
    ELSE LET h == knx_host_info_parse(From(q, 3))
         IN  [ok |-> h.ok,
              value |-> [channel |-> q[1], status |-> q[2], host |-> h.value]]

knx_disconnect_request_generate(p) == knx_connection_state_request_generate(p)
knx_disconnect_request_parse(q) == knx_connection_state_request_parse(q)

knx_connection_state_response_generate(p) == <<p.channel, p.status>>

knx_connection_state_response_parse(q) ==
    IF Len(q) < 2 THEN Invalid ELSE Valid([channel |-> q[1], status |-> q[2]])

knx_disconnect_response_generate(p) == knx_connection_state_response_generate(p)
knx_disconnect_response_parse(q) == knx_connection_state_response_parse(q)

(* A search request is one too, but knx_parse does not know it.            *)
knx_description_request_generate(p) == knx_host_info_generate(p.control)

knx_description_request_parse(q) ==
    LET h == knx_host_info_parse(q) IN [ok |-> h.ok, value |-> [control |-> h.value]]

(* Mutant: the two octets before the list are taken for its first entry.   *)
ServicesFromCount(q, n) == [i \in 1 .. n |-> <<q[53 + 2 * i], q[54 + 2 * i]>>]

(* n entries are made and those that the packet holds are filled in.       *)
Services(q, n) ==
    [i \in 1 .. n |-> IF 56 + 2 * i <= Len(q) THEN <<q[55 + 2 * i], q[56 + 2 * i]>>
                                              ELSE <<Unwritten, Unwritten>>]

(* The count of services counts the two octets before them as one.         *)
knx_description_response_parse(q) ==
    IF \/ Len(q) < 56 \/ q[1] # 54 \/ q[2] # 1 \/ q[55] % 2 # 0 \/ q[56] # 2
    THEN Invalid
    ELSE Valid([medium |-> q[3], status |-> q[4], address |-> From16(q, 5),
                id |-> From16(q, 7), serial |-> SubSeq(q, 9, 14),
                multicast |-> SubSeq(q, 15, 18), mac |-> SubSeq(q, 19, 24),
                name |-> SubSeq(q, 25, 53), services |-> Services(q, q[55] \div 2)])

knx_tunnel_request_size(p) == 4 + knx_cemi_size(p.data)

knx_tunnel_request_generate(p) ==
    <<4, p.channel, p.seq, 0>> \o knx_cemi_generate(p.data)

knx_tunnel_request_parse(q) ==
    IF Len(q) < 4 \/ q[1] # 4 THEN Invalid
    ELSE LET f == knx_cemi_parse(From(q, 5)) IN
         IF ~f.ok THEN Invalid
         ELSE Valid([channel |-> q[2], seq |-> q[3], data |-> f.value])

knx_tunnel_response_generate(p) == <<4, p.channel, p.seq, p.status>>

knx_tunnel_response_parse(q) ==
    IF Len(q) < 4 \/ q[1] # 4 THEN Invalid
    ELSE Valid([channel |-> q[2], seq |-> q[3], status |-> q[4]])

knx_routing_indication_generate(p) == knx_cemi_generate(p.data)

knx_routing_indication_parse(q) ==
    LET f == knx_cemi_parse(q) IN
    IF f.ok THEN Valid([data |-> f.value]) ELSE Invalid

-----------------------------------------------------------------------------
(* Packets.                                                                *)

HostServices == {KNX_SEARCH_REQUEST, KNX_DESCRIPTION_REQUEST}
StatusHostServices == {KNX_CONNECTION_STATE_REQUEST, KNX_DISCONNECT_REQUEST}
StatusServices == {KNX_CONNECTION_STATE_RESPONSE, KNX_DISCONNECT_RESPONSE}

(* The payloads a service can be generated with.                           *)
KnxPayloads(service) ==
    CASE service \in HostServices         -> [control : KnxHostInfos]
      [] service = KNX_CONNECTION_REQUEST ->
            [type : {4}, layer : {2}, control : KnxHostInfos, tunnel : KnxHostInfos]
      [] service = KNX_CONNECTION_RESPONSE ->
            [channel : Octet, status : Octet, host : KnxHostInfos, extended : Octets(3)]
      [] service \in StatusHostServices   ->
            [channel : Octet, status : Octet, host : KnxHostInfos]
      [] service \in StatusServices       -> [channel : Octet, status : Octet]
      [] service = KNX_TUNNEL_REQUEST     ->
            [channel : Octet, seq : Octet, data : KnxCemis]
      [] service = KNX_TUNNEL_RESPONSE    ->
            [channel : Octet, seq : Octet, status : Octet]
      [] service = KNX_ROUTING_INDICATION -> [data : KnxCemis]
      [] OTHER                            -> {}

(* knx_header_generate; it refuses a length that does not fit its field.   *)
knx_header_generate(service, length) ==
    IF length > 65535 - KNX_HEADER_SIZE THEN <<>>
    ELSE <<KNX_HEADER_SIZE, 16>> \o U16(service) \o U16(length + KNX_HEADER_SIZE)

knx_payload_size(service, p) ==
    CASE service \in HostServices          -> KNX_HOST_INFO_SIZE
      [] service = KNX_CONNECTION_REQUEST  -> 4 + KNX_HOST_INFO_SIZE * 2
      [] service = KNX_CONNECTION_RESPONSE -> knx_connection_response_size(p)
      [] service \in StatusHostServices    -> 2 + KNX_HOST_INFO_SIZE
      [] service \in StatusServices        -> 2
      [] service = KNX_TUNNEL_REQUEST      -> knx_tunnel_request_size(p)
      [] service = KNX_TUNNEL_RESPONSE     -> 4
      [] service = KNX_ROUTING_INDICATION  -> knx_cemi_size(p.data)
      [] OTHER                             -> 0

PayloadGenerate(service, p) ==
    CASE service \in HostServices           -> knx_description_request_generate(p)
      [] service = KNX_CONNECTION_REQUEST   -> knx_connection_request_generate(p)
      [] service = KNX_CONNECTION_RESPONSE  -> knx_connection_response_generate(p)
      [] service = KNX_CONNECTION_STATE_REQUEST -> knx_connection_state_request_generate(p)
      [] service = KNX_CONNECTION_STATE_RESPONSE -> knx_connection_state_response_generate(p)
      [] service = KNX_DISCONNECT_REQUEST   -> knx_disconnect_request_generate(p)
      [] service = KNX_DISCONNECT_RESPONSE  -> knx_disconnect_response_generate(p)
      [] service = KNX_TUNNEL_REQUEST       -> knx_tunnel_request_generate(p)
      [] service = KNX_TUNNEL_RESPONSE      -> knx_tunnel_response_generate(p)
      [] service = KNX_ROUTING_INDICATION   -> knx_routing_indication_generate(p)
      [] OTHER                              -> <<>>

(* The octets written into the caller's buffer; none if it returns false.  *)
knx_generate(service, p) ==
    LET header == knx_header_generate(service, knx_payload_size(service, p))
    IN  IF header = <<>> THEN <<>> ELSE header \o PayloadGenerate(service, p)

PayloadParse(service, q) ==
    CASE service = KNX_DESCRIPTION_REQUEST  -> knx_description_request_parse(q)
      [] service = KNX_DESCRIPTION_RESPONSE -> knx_description_response_parse(q)
      [] service = KNX_CONNECTION_REQUEST   -> knx_connection_request_parse(q)
      [] service = KNX_CONNECTION_RESPONSE  -> knx_connection_response_parse(q)
      [] service = KNX_CONNECTION_STATE_REQUEST -> knx_connection_state_request_parse(q)
      [] service = KNX_CONNECTION_STATE_RESPONSE -> knx_connection_state_response_parse(q)
      [] service = KNX_DISCONNECT_REQUEST   -> knx_disconnect_request_parse(q)
      [] service = KNX_DISCONNECT_RESPONSE  -> knx_disconnect_response_parse(q)
      [] service = KNX_TUNNEL_REQUEST       -> knx_tunnel_request_parse(q)
      [] service = KNX_TUNNEL_RESPONSE      -> knx_tunnel_response_parse(q)
      [] service = KNX_ROUTING_INDICATION   -> knx_routing_indication_parse(q)
      [] OTHER                              -> Invalid

(* The outcome of knx_parse: whether it returns a length, and the packet.  *)
(* A zeroed packet stays as it is when the header is not one.              *)
NotParsed(service) == [ok |-> FALSE, service |-> service, payload |-> <<>>]

(* Mutant: the service is only stored when it is one that is parsed.       *)
ParsePacketKnown(service, q) ==
    LET p == PayloadParse(service, q)
    IN  IF p.ok THEN [ok |-> TRUE, service |-> service, payload |-> p.value]
        ELSE NotParsed(0)

ParsePacket(service, q) ==
    LET p == PayloadParse(service, q)
    IN  IF "value" \in DOMAIN p
        THEN [ok |-> p.ok, service |-> service, payload |-> p.value]
        ELSE NotParsed(service)

knx_parse(q) ==
    IF Len(q) < KNX_HEADER_SIZE \/ q[1] # KNX_HEADER_SIZE \/ q[2] # 16 THEN NotParsed(0)
    ELSE LET length == From16(q, 5) IN
         IF length < KNX_HEADER_SIZE THEN NotParsed(0)
         ELSE IF length > Len(q) THEN NotParsed(From16(q, 3))
         ELSE ParsePacket(From16(q, 3), SubSeq(q, KNX_HEADER_SIZE + 1, length))
=============================================================================
