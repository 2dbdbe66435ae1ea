------------------------------ MODULE SendList ------------------------------
(***************************************************************************)
(* The lists of packets a Socket hands to the system: BufferSendMsg        *)
(* (sendmsg), BufferSendMMsg (sendmmsg) and BufferSendTo (send, sendto).   *)
(* The system takes as many bytes as it likes; the list then moves its     *)
(* pointers and calls back for the packets that have gone.                 *)
(***************************************************************************)
EXTENDS Naturals, Sequences, FiniteSets, SequencesExt, FiniteSetsExt

CONSTANTS MaxPackets, MaxBytes, \* bounds: packets of a list, bytes of a packet
          IovMax                \* IOV_MAX

VARIABLES kind,
          sizes,  \* of the packets given
          vec,    \* _iovec: packet, first byte, bytes; of _hdrvec, those in it
          off,    \* _iovec_off, and _offset of BufferSendTo
          remain, \* _remain_size
          pkts,   \* _pkt_list
          wire,   \* what the system has taken
          told    \* the calls of _cb

listVars == <<kind, sizes, vec, off, remain, pkts, wire, told>>

Bytes(i, first, n) == [b \in 1..n |-> <<i, first + b - 1>>]
\* Where a sequence of pieces ends, piece by piece.
Ends(v, i) == FoldLeft(LAMBDA acc, io : acc + io.len, 0, SubSeq(v, 1, i))
Total == FoldLeft(LAMBDA acc, n : acc + n, 0, sizes)
Stream(v) == FlattenSeq([i \in 1..Len(v) |-> Bytes(v[i].of, v[i].base, v[i].len)])
Whole(i) == [of |-> i, base |-> 0, len |-> sizes[i]]

Create == /\ kind \in {"msg", "mmsg", "to"}
          /\ sizes \in UNION {[1..k -> 1..MaxBytes] : k \in 1..MaxPackets}
          /\ vec = [i \in 1..Len(sizes) |-> Whole(i)]
          /\ off = 0 /\ remain = Total
          /\ pkts = [i \in 1..Len(sizes) |-> i]

Init == Create /\ wire = <<>> /\ told = <<>>

-----------------------------------------------------------------------------
\* BufferCallBack

SendFrontSuccess(k) == /\ told' = told \o [i \in 1..k |-> <<pkts[i], TRUE>>]
                       /\ pkts' = SubSeq(pkts, k + 1, Len(pkts))

SendCompleted(flag) == /\ told' = told \o [i \in 1..Len(pkts) |-> <<pkts[i], flag>>]
                       /\ pkts' = <<>>

Moved(io, n) == [io EXCEPT !.base = @ + n, !.len = @ - n]

-----------------------------------------------------------------------------
\* BufferSendMsg

Left == SubSeq(vec, off + 1, Len(vec))
Offered == SubSeq(Left, 1, IF Len(Left) > IovMax THEN IovMax ELSE Len(Left))

\* mutant: the bytes are counted, the pointer stays
ReOffsetStays(n) ==
    LET last == Min({i \in 1..Len(Left) : Ends(Left, i) >= n})
        over == Ends(Left, last) - n
    IN  /\ remain' = remain - n
        /\ off' = off + last - (IF over = 0 THEN 0 ELSE 1)
        /\ vec' = IF over = 0 THEN vec ELSE [vec EXCEPT ![off + last].len = over]
        /\ SendFrontSuccess(off' - off)

\* The packet in which the n bytes end is gone too when they fill it.
ReOffset(n) ==
    LET last == Min({i \in 1..Len(Left) : Ends(Left, i) >= n})
        over == Ends(Left, last) - n
    IN  /\ remain' = remain - n
        /\ off' = off + last - (IF over = 0 THEN 0 ELSE 1)
        /\ vec' = IF over = 0 THEN vec
                  ELSE [vec EXCEPT ![off + last] = Moved(@, @.len - over)]
        /\ SendFrontSuccess(off' - off)

SendMsg(n) ==
    /\ kind = "msg" /\ remain > 0 /\ pkts # <<>>
    /\ n <= Ends(Offered, Len(Offered))
    /\ wire' = wire \o SubSeq(Stream(Offered), 1, n)
    /\ \/ n >= remain /\ remain' = 0 /\ SendCompleted(TRUE) /\ UNCHANGED <<vec, off>>
       \/ n < remain /\ ReOffset(n)
    /\ UNCHANGED <<kind, sizes>>

-----------------------------------------------------------------------------
\* BufferSendMMsg: the system fills in how much of every packet it took.

Gone(taken) == {i \in 1..Len(vec) : \A j \in 1..i : taken[j] = vec[j].len}

SendMMsg(k, n) ==
    /\ kind = "mmsg" /\ remain > 0 /\ pkts # <<>>
    /\ k <= Len(vec) /\ n <= vec[k].len
    /\ LET taken == [i \in 1..Len(vec) |-> IF i < k THEN vec[i].len ELSE IF i = k THEN n ELSE 0]
           gone  == Cardinality(Gone(taken))
           rest  == SubSeq(vec, gone + 1, Len(vec))
       IN  /\ wire' = wire \o Stream([i \in 1..k |-> [vec[i] EXCEPT !.len = taken[i]]])
           /\ remain' = remain - Ends(vec, k - 1) - n
           /\ vec' = IF gone = k THEN rest ELSE [rest EXCEPT ![1] = Moved(@, n)]
           /\ SendFrontSuccess(gone)
    /\ UNCHANGED <<kind, sizes, off>>

-----------------------------------------------------------------------------
\* BufferSendTo

SendTo(n) ==
    /\ kind = "to" /\ pkts # <<>> /\ n <= sizes[Head(pkts)] - off
    /\ wire' = wire \o Bytes(Head(pkts), off, n)
    /\ \/ off + n = sizes[Head(pkts)] /\ off' = 0 /\ SendFrontSuccess(1)
       \/ off + n < sizes[Head(pkts)] /\ off' = off + n /\ UNCHANGED <<pkts, told>>
    /\ UNCHANGED <<kind, sizes, vec, remain>>

\* ~BufferCallBack
Drop == pkts # <<>> /\ SendCompleted(FALSE) /\ UNCHANGED <<kind, sizes, vec, off, remain, wire>>

Next == \/ \E n \in 1..(MaxPackets * MaxBytes) : SendMsg(n)
        \/ \E n \in 1..MaxBytes : SendTo(n) \/ \E k \in 1..MaxPackets : SendMMsg(k, n)
        \/ Drop

Spec == Init /\ [][Next]_listVars

-----------------------------------------------------------------------------
\* The bytes of the packets, and where packet i ends in them.
All == Stream([i \in 1..Len(sizes) |-> Whole(i)])
End(i) == Ends([j \in 1..Len(sizes) |-> Whole(j)], i)

\* However the system splits the list, the wire carries its bytes once and in
\* order; every packet is told once, in order, TRUE exactly when all of it is on
\* the wire; and the list knows what is left.
SendRight ==
    /\ wire = SubSeq(All, 1, Len(wire))
    /\ \A i \in 1..Len(told) : told[i] = <<i, End(i) <= Len(wire)>>
    /\ Len(told) + Len(pkts) = Len(sizes)
    /\ Len(told) < Len(sizes) => End(Len(told) + 1) > Len(wire)
    /\ kind # "to" => remain = Total - Len(wire)
=============================================================================
