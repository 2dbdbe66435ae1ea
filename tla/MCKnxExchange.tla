--------------------------- MODULE MCKnxExchange ---------------------------
(* Small instances of KnxExchange for TLC. *)
EXTENDS KnxExchange

Host(p, a, port) == [protocol |-> p, address |-> <<10, 6, 120, a>>, port |-> <<port, 87>>]
Local == Host(1, 85, 210)
Tunnel == Host(1, 85, 211)
Gateways == {Host(1, 23, 14), Host(2, 8, 255)}

(* L_Data frames: all flags, both kinds of address and of priority; data   *)
(* units of control and with 1 to 255 octets, at the limits of a standard  *)
(* frame (15 octets) and of any frame (255).                               *)
Flags == [repeat : BOOLEAN, systemBroadcast : BOOLEAN, priority : {0, 2},
          requestAck : BOOLEAN, error : BOOLEAN]
Ramp(n) == [i \in 1 .. n |-> (i + 60) % 256]
Tpdus ==
    [tpci : {2, 3}, seq : {0, 9}, control : {0, 3}]
    \cup [tpci : {0, 1}, seq : {5}, apci : {2, 13}, payload : {<<1>>, <<200, 255>>}]
    \cup [tpci : {1}, seq : {15}, apci : {10}, payload : {Ramp(15), Ramp(16), Ramp(255)}]
Frame(flags, address, info, tpdu) ==
    [service |-> 41, addInfo |-> info, ldata |->
        [control1 |-> flags, control2 |-> address, source |-> 65521,
         destination |-> 2564, tpdu |-> tpdu]]
Group == [addressType |-> 1, hops |-> 6]
Individual == [addressType |-> 0, hops |-> 7]
Plain == [repeat |-> FALSE, systemBroadcast |-> FALSE, priority |-> 3,
          requestAck |-> FALSE, error |-> FALSE]
Frames ==
    {Frame(f, Individual, <<>>, t) : f \in Flags, t \in [tpci : {2}, seq : {0}, control : {1}]}
    \cup {Frame(Plain, Group, info, t) : info \in {<<>>, <<3, 0, 255>>}, t \in Tpdus}

States == [channel : {0, 200}, status : {0, 33}]
MCPackets ==
    {[service |-> KNX_TUNNEL_REQUEST, payload |-> [channel |-> 200, seq |-> 255, data |-> f]] :
        f \in Frames}
    \cup {[service |-> KNX_ROUTING_INDICATION, payload |-> [data |-> f]] : f \in Frames}
    \cup [service : StatusServices, payload : States]
    \cup [service : {KNX_TUNNEL_RESPONSE},
          payload : [channel : {7}, seq : {0, 255}, status : {0, 41}]]
    \cup [service : {KNX_DISCONNECT_REQUEST},
          payload : [channel : {0, 200}, status : {0}, host : Gateways]]

V(type, values) == [type : {type}, value : values, size : {0}]
MCValues ==
    V("bool", 0 .. 1) \cup V("cvalue", [control : 0 .. 1, value : 0 .. 1])
    \cup V("cstep", [control : 0 .. 1, step : 0 .. 7])
    \cup {[type |-> "asis", value |-> q, size |-> Len(q)] : q \in
            {<<0>>, <<255>>, <<1, 128>>, <<127, 192, 0, 0>>}}
    \cup V("float16", {-67108864, -67100000, -4097, -4096, -2049, -2048, -2047, -1, 0, 1,
                       2047, 2048, 4094, 4095, 2150, 131008, 5000001, 67076096})
    \cup V("time", [day : {0, 5}, hour : {0, 23}, minute : {59}, second : {1, 58}])
    \cup V("date", [day : {1, 31}, month : {12}, year : {0, 99}])

MCLeftovers == {[i \in 1 .. 300 |-> b] : b \in {0, 4, 255}}
=============================================================================
