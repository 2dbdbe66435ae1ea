------------------------------ MODULE KnxSession ------------------------------
(***************************************************************************)
(* What the tunnelling client of knx/KNXWrapper.cpp promises, without its  *)
(* threads, sockets and sleeps: it addresses one gateway, which offered    *)
(* itself, and commands the lamp through that same gateway, over a channel *)
(* it was granted there - or over no channel, which the gateway refuses.   *)
(***************************************************************************)
EXTENDS Naturals

CONSTANTS Gateways, Channels,
          NoHost,  \* nobody: the address of a client that heard of no gateway
          None     \* not chosen yet

VARIABLES offers,   \* gateways that answered the search
          target,   \* where the connection request went
          grants,   \* channels the target granted
          channel   \* the channel the lamp command named

vars == <<offers, target, grants, channel>>

Init == offers = {} /\ target = None /\ grants = {} /\ channel = None

(* A gateway answers the search, in time or too late.                      *)
Offer(g) ==
    /\ offers' = offers \cup {g}
    /\ UNCHANGED <<target, grants, channel>>

(* The client asks one of them for a connection, or, without an answer to  *)
(* the search, nobody.                                                     *)
Choose ==
    /\ target = None
    /\ target' \in offers \cup {NoHost}
    /\ UNCHANGED <<offers, grants, channel>>

Grant(c) ==
    /\ target \in Gateways
    /\ grants' = grants \cup {c}
    /\ UNCHANGED <<offers, target, channel>>

(* The lamp command; 0 is the channel of a client that has none.           *)
Command ==
    /\ target # None
    /\ channel = None
    /\ channel' \in grants \cup {0}
    /\ UNCHANGED <<offers, target, grants>>

Next ==
    \/ \E g \in Gateways : Offer(g)
    \/ Choose
    \/ \E c \in Channels : Grant(c)
    \/ Command

Spec == Init /\ [][Next]_vars
=============================================================================
