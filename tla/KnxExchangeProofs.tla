------------------------- MODULE KnxExchangeProofs -------------------------
(***************************************************************************)
(* Theorems of KnxExchange, for every packet, value and datagram: that the *)
(* parsers of the frame library undo its generators, from the fields of a  *)
(* frame up to the packet, that the recorded requests are requests of it,  *)
(* that datapoint values survive, and what the client stores.              *)
(***************************************************************************)
EXTENDS KnxExchange, TLAPS, SequenceTheorems

(* What a buffer holds: octets, and what was not written.                  *)
Cell == Octet \cup {Unwritten}

(* The length of a sequence is n.  The provers take an equation with a     *)
(* number for a list of the indices, these two inequalities they do not.   *)
Sized(q, n) == n <= Len(q) /\ Len(q) <= n

(* Small ranges, which the provers would take for lists of their elements. *)
LEMMA UpTo ==
    ASSUME NEW n \in Nat
    PROVE  \A x : x \in 0 .. n <=> x \in Nat /\ x <= n
OBVIOUS

(* An octet is a number of at most 255.                                    *)
LEMMA OctetIs == \A x : x \in Octet <=> x \in Nat /\ x <= 255
<1>1. 255 \in Nat
  OBVIOUS
<1> QED BY <1>1, UpTo, Zenon DEF Octet

(* Octets are what a buffer may hold.                                      *)
LEMMA CellSeq == Seq(Octet) \subseteq Seq(Cell)
<1>1. Octet \subseteq Cell
  BY DEF Cell
<1> QED BY <1>1, SeqMonotonic

(* A field of n octets.                                                    *)
LEMMA OctetsSized ==
    ASSUME NEW n \in Nat, NEW q \in Octets(n)
    PROVE  q \in Seq(Octet) /\ q \in Seq(Cell) /\ Sized(q, n)
BY CellSeq DEF Octets, Sized

(* A part of a sequence, known by its elements.                            *)
LEMMA CutIs ==
    ASSUME NEW S, NEW q \in Seq(S), NEW s \in Seq(S), NEW m \in Nat, m >= 1, NEW n \in Nat,
           n <= Len(q), Sized(s, n - m + 1),
           \A i \in 1 .. n - m + 1 : q[m + i - 1] = s[i]
    PROVE  SubSeq(q, m, n) = s
<1>1. Len(q) \in Nat /\ Len(s) \in Nat /\ Len(s) = n - m + 1
  BY LenProperties DEF Sized
<1>2. \A i \in m .. n : q[i] \in S
  BY <1>1, ElementOfSeq
<1>3. /\ SubSeq(q, m, n) \in Seq(S)
      /\ Len(SubSeq(q, m, n)) = IF m <= n THEN n - m + 1 ELSE 0
      /\ \A i \in 1 .. n - m + 1 : SubSeq(q, m, n)[i] = q[m + i - 1]
  BY <1>2, SubSeqProperties
<1>4. Len(SubSeq(q, m, n)) = Len(s)
  BY <1>1, <1>3
<1> QED BY <1>1, <1>3, <1>4, SeqEqual

(* What stands between, and what stands behind.                            *)
LEMMA CutMiddle ==
    ASSUME NEW S, NEW s \in Seq(S), NEW t \in Seq(S), NEW u \in Seq(S),
           NEW m \in Nat, NEW n \in Nat, Sized(s, m - 1), Sized(t, n - m + 1)
    PROVE  SubSeq((s \o t) \o u, m, n) = t
<1> DEFINE q == (s \o t) \o u
<1>1. /\ q \in Seq(S) /\ m >= 1 /\ n <= Len(q)
      /\ \A i \in 1 .. n - m + 1 : q[m + i - 1] = t[i]
  BY LenProperties DEF Sized
<1> HIDE DEF q
<1>2. SubSeq(q, m, n) = t
  BY <1>1, CutIs
<1> QED BY <1>2 DEF q

(* The rest of a sequence, known by its elements.                          *)
LEMMA CutEnd ==
    ASSUME NEW S, NEW s \in Seq(S), NEW t \in Seq(S), NEW m \in Nat, Sized(s, m - 1)
    PROVE  From(s \o t, m) = t
<1> DEFINE q == s \o t
<1>1. /\ q \in Seq(S) /\ m >= 1 /\ Len(q) \in Nat /\ Len(q) <= Len(q) /\ Sized(t, Len(q) - m + 1)
      /\ \A i \in 1 .. Len(q) - m + 1 : q[m + i - 1] = t[i]
  BY LenProperties, SMTT(40) DEF Sized
<1> HIDE DEF q
<1>2. SubSeq(q, m, Len(q)) = t
  BY <1>1, CutIs, Zenon
<1> QED BY <1>2 DEF q, From

-----------------------------------------------------------------------------
(* Host informations.                                                      *)

(* The fields of a host information.                                       *)
LEMMA HostFields ==
    ASSUME NEW h \in KnxHostInfos
    PROVE  /\ h.protocol \in {1, 2}
           /\ h.address \in Seq(Octet) /\ Sized(h.address, 4)
           /\ h.port \in Seq(Octet) /\ Sized(h.port, 2)
           /\ h = [protocol |-> h.protocol, address |-> h.address, port |-> h.port]
BY OctetsSized DEF KnxHostInfos

(* knx_host_info_generate writes eight octets.                             *)
LEMMA HostGenerated ==
    ASSUME NEW h \in KnxHostInfos
    PROVE  /\ knx_host_info_generate(h) \in Seq(Octet)
           /\ Sized(knx_host_info_generate(h), 8)
<1> DEFINE p == h.protocol
           a == h.address
           b == h.port
<1>1. /\ p \in {1, 2} /\ a \in Seq(Octet) /\ Sized(a, 4) /\ b \in Seq(Octet) /\ Sized(b, 2)
  BY HostFields
<1> HIDE DEF p, a, b
<1>2. (<<8, p>> \o a) \o b \in Seq(Octet) /\ Sized((<<8, p>> \o a) \o b, 8)
  BY <1>1 DEF Octet, Sized
<1> QED BY <1>2 DEF p, a, b, knx_host_info_generate, KNX_HOST_INFO_SIZE

(* knx_host_info_parse makes of them what was generated.                   *)
LEMMA HostParsed ==
    ASSUME NEW h \in KnxHostInfos, NEW r \in Seq(Cell)
    PROVE  knx_host_info_parse(knx_host_info_generate(h) \o r) = Valid(h)
<1> DEFINE p == h.protocol
           a == h.address
           b == h.port
           q == ((<<8, p>> \o a) \o b) \o r
<1>1. /\ p \in {1, 2} /\ a \in Seq(Cell) /\ Sized(a, 4) /\ b \in Seq(Cell) /\ Sized(b, 2)
      /\ h = [protocol |-> p, address |-> a, port |-> b]
  BY HostFields, CellSeq
<1>2. q = knx_host_info_generate(h) \o r
  BY DEF knx_host_info_generate, KNX_HOST_INFO_SIZE
<1> HIDE DEF p, a, b
<1>3. q \in Seq(Cell) /\ Len(q) >= 8 /\ q[1] = 8 /\ q[2] = p
  BY <1>1 DEF Sized, Cell, Octet
<1>4. \A i \in 1 .. 4 : q[3 + i - 1] = a[i]
  BY <1>1 DEF Sized
<1>5. \A i \in 1 .. 2 : q[7 + i - 1] = b[i]
  BY <1>1 DEF Sized
<1> HIDE DEF q
<1>6. SubSeq(q, 3, 6) = a
  <2>1. /\ 3 \in Nat /\ 3 >= 1 /\ 6 \in Nat /\ 6 <= Len(q)
        /\ Sized(a, 6 - 3 + 1) /\ \A i \in 1 .. 6 - 3 + 1 : q[3 + i - 1] = a[i]
    BY <1>1, <1>3, <1>4
  <2> QED BY <1>1, <1>3, <2>1, CutIs, Zenon
<1>7. SubSeq(q, 7, 8) = b
  <2>1. /\ 7 \in Nat /\ 7 >= 1 /\ 8 \in Nat /\ 8 <= Len(q)
        /\ Sized(b, 8 - 7 + 1) /\ \A i \in 1 .. 8 - 7 + 1 : q[7 + i - 1] = b[i]
    BY <1>1, <1>3, <1>5
  <2> QED BY <1>1, <1>3, <2>1, CutIs, Zenon
<1>8. knx_host_info_parse(q) = Valid(h)
  <2>1. knx_host_info_parse(q)
        = Valid([protocol |-> q[2], address |-> SubSeq(q, 3, 6), port |-> SubSeq(q, 7, 8)])
    BY <1>1, <1>3 DEF knx_host_info_parse, KNX_HOST_INFO_SIZE
  <2> QED BY <1>1, <1>3, <1>6, <1>7, <2>1, Zenon
<1> QED BY <1>2, <1>8

-----------------------------------------------------------------------------
(* Transport data units.                                                   *)

(* A control TPDU is one octet, and is parsed as it was.                   *)
LEMMA ControlGenerated ==
    ASSUME NEW t \in [tpci : {2, 3}, seq : 0 .. 15, control : 0 .. 3]
    PROVE  /\ knx_tpdu_generate(t) \in Seq(Octet) /\ Sized(knx_tpdu_generate(t), 1)
           /\ knx_tpdu_size(t) = 1
           /\ knx_tpdu_parse(knx_tpdu_generate(t)) = Valid(KnownTpdu(t))
<1> DEFINE b == t.tpci * 64 + (t.seq % 16) * 4 + (t.control % 4)
<1>1. t.tpci \in {2, 3} /\ t.seq \in 0 .. 15 /\ t.control \in 0 .. 3
  OBVIOUS
<1>2. /\ knx_tpdu_generate(t) = <<b>> /\ knx_tpdu_size(t) = 1
      /\ KnownTpdu(t) = [tpci |-> t.tpci, seq |-> t.seq, control |-> t.control]
  BY <1>1 DEF knx_tpdu_generate, knx_tpdu_size, KnownTpdu, IsControl
<1>3. b \in Octet /\ b \div 64 = t.tpci /\ (b \div 4) % 16 = t.seq /\ b % 4 = t.control
  BY <1>1 DEF Octet
<1> HIDE DEF b
<1>4. <<b>> \in Seq(Octet) /\ Sized(<<b>>, 1)
  BY <1>3 DEF Sized
<1>5. knx_tpdu_parse(<<b>>) = Valid(KnownTpdu(t))
  BY <1>1, <1>2, <1>3 DEF knx_tpdu_parse, IsControl
<1> QED BY <1>2, <1>4, <1>5

(* Two octets before what follows the first one of a sequence: without     *)
(* the first it is the sequence with its first octet replaced.             *)
LEMMA FirstReplaced ==
    ASSUME NEW a \in Octet, NEW b \in Octet, NEW p \in Seq(Octet), 1 <= Len(p),
           NEW g, g = <<a, b>> \o Tail(p)
    PROVE  /\ g \in Seq(Octet) /\ Len(g) = Len(p) + 1 /\ g[1] = a /\ g[2] = b
           /\ Tail(g) = [p EXCEPT ![1] = b]
<1> DEFINE u == Tail(p)
<1>1. Len(p) \in Nat /\ p # <<>>
  BY LenProperties, EmptySeq
<1>2. /\ u \in Seq(Octet) /\ Len(u) = Len(p) - 1
      /\ \A i \in 1 .. Len(u) : u[i] = p[i + 1]
  BY <1>1, HeadTailProperties
<1>3. <<a, b>> \in Seq(Octet) /\ g = <<a, b>> \o u
  OBVIOUS
<1> HIDE DEF u
<1>4. g \in Seq(Octet) /\ Len(g) = Len(p) + 1 /\ g[1] = a /\ g[2] = b
  BY <1>1, <1>2, <1>3
<1>5. \A i \in 1 .. Len(p) - 1 : g[i + 2] = u[i]
  BY <1>1, <1>2, <1>3
<1>6. g # <<>>
  BY <1>1, <1>4, EmptySeq
<1>7. /\ Tail(g) \in Seq(Octet) /\ Len(Tail(g)) = Len(p)
      /\ \A i \in 1 .. Len(p) : Tail(g)[i] = g[i + 1]
  BY <1>1, <1>4, <1>6, HeadTailProperties
<1> DEFINE r == [p EXCEPT ![1] = b]
<1>8. 1 \in 1 .. Len(p)
  BY <1>1
<1>9. /\ r \in Seq(Octet) /\ Len(r) = Len(p) /\ r[1] = b
      /\ \A i \in 1 .. Len(p) : i # 1 => r[i] = p[i]
  BY <1>1, <1>8
<1> HIDE DEF r
<1>10. ASSUME NEW i \in 1 .. Len(p) PROVE Tail(g)[i] = r[i]
  <2>1. CASE i = 1
    BY <1>4, <1>7, <1>9, <2>1
  <2>2. CASE i # 1
    <3>1. PICK k \in 1 .. Len(p) - 1 : i = k + 1
      <4>1. i - 1 \in 1 .. Len(p) - 1 /\ i = (i - 1) + 1
        BY <1>1, <2>2
      <4> QED BY <4>1
    <3>2. g[i + 1] = u[k] /\ u[k] = p[i]
      BY <1>1, <1>2, <1>5, <3>1
    <3> QED BY <1>7, <1>9, <2>2, <3>2
  <2> QED BY <2>1, <2>2
<1>11. Tail(g) = r
  BY <1>7, <1>9, <1>10, SeqEqual
<1> QED BY <1>4, <1>11 DEF r

(* A data TPDU has the apci in its first two octets, and is parsed so.     *)
LEMMA DataGenerated ==
    ASSUME NEW t \in [tpci : {0, 1}, seq : 0 .. 15, apci : 0 .. 15, payload : OctetsFrom(1)]
    PROVE  /\ knx_tpdu_generate(t) \in Seq(Octet)
           /\ Sized(knx_tpdu_generate(t), Len(t.payload) + 1)
           /\ knx_tpdu_size(t) = Len(t.payload) + 1
           /\ knx_tpdu_parse(knx_tpdu_generate(t)) = Valid(KnownTpdu(t))
<1> DEFINE p == t.payload
           a == t.tpci * 64 + (t.seq % 16) * 4 + (t.apci \div 4)
           b == (p[1] % 64) + (t.apci % 4) * 64
           g == <<a, b>> \o Tail(p)
<1>1. /\ t.tpci \in {0, 1} /\ t.seq \in 0 .. 15 /\ t.apci \in 0 .. 15
      /\ p \in Seq(Octet) /\ 1 <= Len(p) /\ Len(p) <= 255
      /\ t = [tpci |-> t.tpci, seq |-> t.seq, apci |-> t.apci, payload |-> p]
  BY DEF OctetsFrom
<1>2. p[1] \in Octet
  <2> HIDE DEF p
  <2> QED BY <1>1, ElementOfSeq
<1>3. knx_tpdu_generate(t) = g
  BY <1>1 DEF knx_tpdu_generate, IsControl
<1>4. knx_tpdu_size(t) = Len(p) + 1
  <2>1. knx_tpdu_size(t) = IF Len(p) + 1 > 2 THEN Len(p) + 1 ELSE 2
    BY <1>1 DEF knx_tpdu_size, IsControl
  <2>2. Len(p) \in Nat /\ 1 <= Len(p)
    BY <1>1, LenProperties
  <2> DEFINE n == Len(p)
  <2> HIDE DEF n
  <2>3. (IF n + 1 > 2 THEN n + 1 ELSE 2) = n + 1
    BY <2>2 DEF n
  <2> QED BY <2>1, <2>3, Zenon DEF n
<1>5. /\ a \in Octet /\ a \div 64 = t.tpci /\ (a \div 4) % 16 = t.seq
      /\ b \in Octet /\ (a % 4) * 4 + (b \div 64) = t.apci
      /\ b = (p[1] % 64) + 64 * (t.apci % 4)
  <2> DEFINE c == t.tpci
             n == t.seq
             x == t.apci \div 4
             y == t.apci % 4
             z == p[1] % 64
  <2>1. /\ c \in 0 .. 1 /\ n \in 0 .. 15 /\ x \in 0 .. 3 /\ y \in 0 .. 3 /\ z \in 0 .. 63
        /\ t.apci = x * 4 + y /\ t.seq % 16 = n
    <3> DEFINE e == t.apci
               f == p[1]
    <3>1. c \in 0 .. 1 /\ n \in 0 .. 15 /\ e \in 0 .. 15 /\ f \in 0 .. 255
      BY <1>1, <1>2 DEF Octet
    <3> HIDE DEF c, n, e, f
    <3>2. e \div 4 \in 0 .. 3 /\ e % 4 \in 0 .. 3 /\ e = (e \div 4) * 4 + (e % 4)
      BY <3>1
    <3>3. n % 16 = n /\ f % 64 \in 0 .. 63
      BY <3>1
    <3> QED BY <3>1, <3>2, <3>3 DEF e, f, n
  <2>2. a = c * 64 + n * 4 + x /\ b = z + y * 64 /\ z + 64 * y = z + y * 64
    BY <2>1
  <2> HIDE DEF a, b, c, n, x, y, z
  <2>3. /\ a \in 0 .. 255 /\ a \div 64 = c /\ (a \div 4) % 16 = n /\ a % 4 = x
    BY <2>1, <2>2
  <2>4. b \in 0 .. 255 /\ b \div 64 = y
    BY <2>1, <2>2
  <2> QED BY <2>1, <2>2, <2>3, <2>4 DEF c, n, y, z, Octet
<1>6. KnownTpdu(t) = [tpci |-> t.tpci, seq |-> t.seq, apci |-> t.apci,
                      payload |-> [p EXCEPT ![1] = b]]
  <2>1. KnownTpdu(t) = [t EXCEPT !.payload = [p EXCEPT ![1] = (p[1] % 64) + 64 * (t.apci % 4)]]
    BY <1>1 DEF KnownTpdu, IsControl
  <2> HIDE DEF p, b
  <2> QED BY <1>1, <1>5, <2>1
<1> HIDE DEF a, b, p
<1>7. /\ g \in Seq(Octet) /\ Len(g) = Len(p) + 1 /\ g[1] = a /\ g[2] = b
      /\ Tail(g) = [p EXCEPT ![1] = b]
  <2>1. g = <<a, b>> \o Tail(p)
    OBVIOUS
  <2> HIDE DEF g
  <2>2. a \in Octet /\ b \in Octet /\ p \in Seq(Octet) /\ 1 <= Len(p)
    BY <1>1, <1>5
  <2> QED BY <2>2, <2>1, FirstReplaced
<1> HIDE DEF g
<1>8. knx_tpdu_parse(g) = Valid([tpci |-> t.tpci, seq |-> t.seq, apci |-> t.apci,
                                 payload |-> Tail(g)])
  <2>1. ~(Len(g) < 2)
    BY <1>1, <1>7
  <2>2. ~IsControl(g[1] \div 64)
    <3>1. g[1] \div 64 = t.tpci
      BY <1>5, <1>7, Zenon
    <3>2. ~IsControl(t.tpci)
      BY <1>1 DEF IsControl
    <3> QED BY <3>1, <3>2, Zenon
  <2>3. knx_tpdu_parse(g)
        = Valid([tpci |-> g[1] \div 64, seq |-> (g[1] \div 4) % 16,
                 apci |-> (g[1] % 4) * 4 + (g[2] \div 64), payload |-> Tail(g)])
    BY <2>1, <2>2, Zenon DEF knx_tpdu_parse
  <2> QED BY <1>5, <1>7, <2>3, Zenon
<1>9. knx_tpdu_parse(g) = Valid(KnownTpdu(t))
  BY <1>6, <1>7, <1>8, Zenon
<1>10. Sized(g, Len(p) + 1)
  BY <1>1, <1>7 DEF Sized
<1> QED BY <1>3, <1>4, <1>7, <1>9, <1>10 DEF p

(* Any TPDU.                                                               *)
LEMMA TpduGenerated ==
    ASSUME NEW t \in KnxTpdus
    PROVE  /\ knx_tpdu_generate(t) \in Seq(Octet)
           /\ knx_tpdu_size(t) \in Nat /\ 1 <= knx_tpdu_size(t) /\ knx_tpdu_size(t) <= 256
           /\ Sized(knx_tpdu_generate(t), knx_tpdu_size(t))
           /\ knx_tpdu_parse(knx_tpdu_generate(t)) = Valid(KnownTpdu(t))
<1>1. CASE t \in [tpci : {2, 3}, seq : 0 .. 15, control : 0 .. 3]
  BY <1>1, ControlGenerated
<1>2. CASE t \in [tpci : {0, 1}, seq : 0 .. 15, apci : 0 .. 15, payload : OctetsFrom(1)]
  <2>1. t.payload \in Seq(Octet) /\ 1 <= Len(t.payload) /\ Len(t.payload) <= 255
    BY <1>2 DEF OctetsFrom
  <2>2. /\ knx_tpdu_generate(t) \in Seq(Octet)
        /\ Sized(knx_tpdu_generate(t), Len(t.payload) + 1)
        /\ knx_tpdu_size(t) = Len(t.payload) + 1
        /\ knx_tpdu_parse(knx_tpdu_generate(t)) = Valid(KnownTpdu(t))
    BY <1>2, DataGenerated, Zenon
  <2>3. knx_tpdu_size(t) \in Nat /\ 1 <= knx_tpdu_size(t) /\ knx_tpdu_size(t) <= 256
    <3> DEFINE n == Len(t.payload)
    <3>1. n \in Nat /\ 1 <= n /\ n <= 255 /\ knx_tpdu_size(t) = n + 1
      BY <2>1, <2>2, LenProperties
    <3> HIDE DEF n
    <3> QED BY <3>1
  <2> QED BY <2>2, <2>3, Zenon
<1> QED BY <1>1, <1>2 DEF KnxTpdus

-----------------------------------------------------------------------------
(* L_Data and cEMI frames.                                                 *)

(* A 16-bit field, and what is read of it.                                 *)
LEMMA U16Octets ==
    ASSUME NEW n \in Word
    PROVE  /\ U16(n) \in Seq(Octet) /\ Sized(U16(n), 2)
           /\ U16(n)[1] * 256 + U16(n)[2] = n
<1> DEFINE a == (n \div 256) % 256
           b == n % 256
<1>1. a \in Nat /\ a <= 255 /\ b \in Nat /\ b <= 255 /\ a * 256 + b = n
  BY DEF Word
<1>2. U16(n) = <<a, b>>
  BY DEF U16
<1> HIDE DEF a, b
<1>3. a \in Octet /\ b \in Octet
  BY <1>1, OctetIs
<1> QED BY <1>1, <1>2, <1>3 DEF Sized

(* The bits that the library takes from an octet.                          *)
LEMMA Bits ==
    ASSUME NEW b \in Nat
    PROVE  /\ Bit(b, 0) = b % 2 /\ Bit(b, 1) = (b \div 2) % 2 /\ Bit(b, 3) = (b \div 8) % 2
           /\ Bit(b, 4) = (b \div 16) % 2 /\ Bit(b, 5) = (b \div 32) % 2
           /\ Bit(b, 7) = (b \div 128) % 2
<1>1. 2^0 = 1 /\ 2^1 = 2 /\ 2^3 = 8 /\ 2^4 = 16 /\ 2^5 = 32 /\ 2^7 = 128
  OBVIOUS
<1>2. b \div 1 = b
  OBVIOUS
<1> QED BY <1>1, <1>2, Zenon DEF Bit

(* The first control octet gives back the flags it is made of, the second  *)
(* one the kind of address and the hops.                                   *)
LEMMA Control1Kept ==
    ASSUME NEW c \in Control1s, NEW f \in Nat, f <= 1, NEW b,
           b = f * 128 + Flag(~c.repeat) * 32 + Flag(~c.systemBroadcast) * 16
                 + c.priority * 4 + Flag(c.requestAck) * 2 + Flag(c.error)
    PROVE  b \in Octet /\ Control1(b) = c
<1> DEFINE r == Flag(~c.repeat)
           y == Flag(~c.systemBroadcast)
           p == c.priority
           a == Flag(c.requestAck)
           e == Flag(c.error)
<1>1. /\ f \in Nat /\ f <= 1 /\ r \in Nat /\ r <= 1 /\ y \in Nat /\ y <= 1
      /\ p \in Nat /\ p <= 3 /\ a \in Nat /\ a <= 1 /\ e \in Nat /\ e <= 1
  BY DEF Flag, Control1s
<1>2. /\ (r = 0) = c.repeat /\ (y = 0) = c.systemBroadcast
      /\ (a = 1) = c.requestAck /\ (e = 1) = c.error
  BY DEF Flag, Control1s
<1>3. b = f * 128 + r * 32 + y * 16 + p * 4 + a * 2 + e
  OBVIOUS
<1> HIDE DEF r, y, p, a, e
<1>4. b \in Nat
  BY <1>1, <1>3
<1>5. /\ b \in Octet /\ Bit(b, 5) = r /\ Bit(b, 4) = y /\ (b \div 4) % 4 = p
      /\ Bit(b, 1) = a /\ Bit(b, 0) = e
  <2>1. b <= 255
    BY <1>1, <1>3
  <2>2. (b \div 32) % 2 = r /\ (b \div 16) % 2 = y /\ (b \div 4) % 4 = p
    BY <1>1, <1>3
  <2>3. (b \div 2) % 2 = a /\ b % 2 = e
    BY <1>1, <1>3
  <2>4. /\ Bit(b, 5) = (b \div 32) % 2 /\ Bit(b, 4) = (b \div 16) % 2
        /\ Bit(b, 1) = (b \div 2) % 2 /\ Bit(b, 0) = b % 2
    BY <1>4, SMT DEF Bit
  <2>5. b \in Octet
    BY <1>4, <2>1, OctetIs, Zenon
  <2> QED BY <2>2, <2>3, <2>4, <2>5, Zenon
<1>6. Control1(b) = [repeat |-> c.repeat, systemBroadcast |-> c.systemBroadcast,
                     priority |-> p, requestAck |-> c.requestAck, error |-> c.error]
  BY <1>2, <1>5, Zenon DEF Control1
<1>7. c = [repeat |-> c.repeat, systemBroadcast |-> c.systemBroadcast,
           priority |-> p, requestAck |-> c.requestAck, error |-> c.error]
  BY DEF p, Control1s
<1> QED BY <1>5, <1>6, <1>7, Zenon

(* The second control octet.                                               *)
LEMMA Control2Kept ==
    ASSUME NEW c \in Control2s, NEW b,
           b = c.addressType * 128 + (c.hops % 8) * 16
    PROVE  /\ b \in Octet /\ b % 16 = 0
           /\ [addressType |-> Bit(b, 7), hops |-> (b \div 16) % 8] = c
<1> DEFINE a == c.addressType
           h == c.hops
<1>1. a \in Nat /\ a <= 1 /\ h \in Nat /\ h <= 7 /\ b = a * 128 + (h % 8) * 16
  BY DEF Control2s
<1> HIDE DEF a, h
<1>2. b \in Nat
  BY <1>1
<1>3. b \in Octet /\ b % 16 = 0 /\ Bit(b, 7) = a /\ (b \div 16) % 8 = h
  <2>1. h % 8 = h
    BY <1>1
  <2>2. /\ b <= 255 /\ b % 16 = 0 /\ (b \div 128) % 2 = a /\ (b \div 16) % 8 = h
    BY <1>1, <2>1
  <2> QED BY <1>2, <2>2, Bits, OctetIs, Zenon
<1> QED BY <1>3 DEF a, h, Control2s

(* The fields of an L_Data frame.                                          *)
LEMMA LdataFields ==
    ASSUME NEW d \in KnxLDatas
    PROVE  /\ d.control1 \in Control1s /\ d.control2 \in Control2s
           /\ d.source \in Word /\ d.destination \in Word
           /\ d.tpdu \in KnxTpdus
           /\ d = [control1 |-> d.control1, control2 |-> d.control2, source |-> d.source,
                   destination |-> d.destination, tpdu |-> d.tpdu]
BY DEF KnxLDatas

(* An L_Data frame is seven octets and its data unit.                      *)
LEMMA LdataLayout ==
    ASSUME NEW d \in KnxLDatas
    PROVE  \E h \in Seq(Octet) :
              /\ knx_ldata_generate(d) = h \o knx_tpdu_generate(d.tpdu)
              /\ Sized(h, 7) /\ h[7] = knx_tpdu_size(d.tpdu) - 1
              /\ Control1(h[1]) = d.control1 /\ h[2] % 16 = 0
              /\ [addressType |-> Bit(h[2], 7), hops |-> (h[2] \div 16) % 8] = d.control2
              /\ From16(h, 3) = d.source /\ From16(h, 5) = d.destination
<1> DEFINE n == knx_tpdu_size(d.tpdu)
           f == Flag(n <= 16)
           c1 == f * 128 + Flag(~d.control1.repeat) * 32
                   + Flag(~d.control1.systemBroadcast) * 16 + d.control1.priority * 4
                   + Flag(d.control1.requestAck) * 2 + Flag(d.control1.error)
           c2 == d.control2.addressType * 128 + (d.control2.hops % 8) * 16
           h == ((<<c1, c2>> \o U16(d.source)) \o U16(d.destination)) \o <<n - 1>>
<1>2. n \in Nat /\ 1 <= n /\ n <= 256
  BY LdataFields, TpduGenerated
<1>3. knx_ldata_generate(d) = h \o knx_tpdu_generate(d.tpdu)
  <2>1. ~(n > 256)
    BY <1>2
  <2> QED BY <2>1, Zenon DEF knx_ldata_generate
<1>4. f \in Nat /\ f <= 1 /\ n - 1 \in Octet
  BY <1>2, OctetIs DEF Flag
<1> HIDE DEF n, f
<1>5. c1 \in Octet /\ Control1(c1) = d.control1
  <2> DEFINE c == d.control1
  <2>1. /\ c \in Control1s
        /\ c1 = f * 128 + Flag(~c.repeat) * 32 + Flag(~c.systemBroadcast) * 16
                  + c.priority * 4 + Flag(c.requestAck) * 2 + Flag(c.error)
    BY LdataFields
  <2> HIDE DEF c, c1
  <2>2. c1 \in Octet /\ Control1(c1) = c
    BY <1>4, <2>1, Control1Kept
  <2> QED BY <2>2 DEF c
<1>6. /\ c2 \in Octet /\ c2 % 16 = 0
      /\ [addressType |-> Bit(c2, 7), hops |-> (c2 \div 16) % 8] = d.control2
  BY LdataFields, Control2Kept, Zenon
<1> HIDE DEF c1, c2
<1> DEFINE s == U16(d.source)
           t == U16(d.destination)
<1>7. /\ s \in Seq(Octet) /\ Sized(s, 2) /\ s[1] * 256 + s[2] = d.source
      /\ t \in Seq(Octet) /\ Sized(t, 2) /\ t[1] * 256 + t[2] = d.destination
  BY LdataFields, U16Octets, Zenon
<1> HIDE DEF s, t
<1>8. /\ h \in Seq(Octet) /\ Sized(h, 7) /\ h[1] = c1 /\ h[2] = c2 /\ h[7] = n - 1
      /\ From16(h, 3) = d.source /\ From16(h, 5) = d.destination
  <2>1. h = ((<<c1, c2>> \o s) \o t) \o <<n - 1>>
    BY DEF s, t
  <2> DEFINE m == n - 1
  <2>2. m \in Octet /\ h = ((<<c1, c2>> \o s) \o t) \o <<m>>
    BY <1>4, <2>1
  <2> HIDE DEF h, m
  <2>3. /\ h \in Seq(Octet) /\ Sized(h, 7) /\ h[1] = c1 /\ h[2] = c2 /\ h[7] = m
        /\ From16(h, 3) = s[1] * 256 + s[2] /\ From16(h, 5) = t[1] * 256 + t[2]
    <3>1. /\ c1 \in Octet /\ c2 \in Octet /\ s \in Seq(Octet) /\ Sized(s, 2)
          /\ t \in Seq(Octet) /\ Sized(t, 2)
      BY <1>5, <1>6, <1>7
    <3>2. <<c1, c2>> \in Seq(Octet) /\ <<m>> \in Seq(Octet)
      BY <2>2, <3>1
    <3>3. h \in Seq(Octet) /\ Sized(h, 7)
      BY <2>2, <3>1, <3>2 DEF Sized
    <3>4. h[1] = c1 /\ h[2] = c2 /\ h[7] = m
      BY <2>2, <3>1, <3>2 DEF Sized
    <3>5. h[3] = s[1] /\ h[4] = s[2] /\ h[5] = t[1] /\ h[6] = t[2]
      BY <2>2, <3>1, <3>2 DEF Sized
    <3>6. From16(h, 3) = h[3] * 256 + h[4] /\ From16(h, 5) = h[5] * 256 + h[6]
      BY DEF From16
    <3> QED BY <3>3, <3>4, <3>5, <3>6, Zenon
  <2> QED BY <1>7, <2>3, Zenon DEF m
<1> HIDE DEF h
<1> QED BY <1>3, <1>5, <1>6, <1>8, Zenon DEF n

(* An L_Data frame has one octet less than its size, and is parsed.        *)
LEMMA LdataGenerated ==
    ASSUME NEW d \in KnxLDatas
    PROVE  /\ knx_ldata_generate(d) \in Seq(Octet)
           /\ Sized(knx_ldata_generate(d), 7 + knx_tpdu_size(d.tpdu))
<1>1. PICK h \in Seq(Octet) :
         /\ knx_ldata_generate(d) = h \o knx_tpdu_generate(d.tpdu) /\ Sized(h, 7)
  BY LdataLayout, Zenon
<1> DEFINE t == knx_tpdu_generate(d.tpdu)
           n == knx_tpdu_size(d.tpdu)
<1>2. t \in Seq(Octet) /\ Sized(t, n) /\ n \in Nat
  BY LdataFields, TpduGenerated, Zenon
<1> HIDE DEF t, n
<1>4. h \o t \in Seq(Octet) /\ Sized(h \o t, 7 + n)
  BY <1>1, <1>2 DEF Sized
<1> QED BY <1>1, <1>4, Zenon DEF t, n

(* What lies behind an L_Data frame is not looked at.                      *)
LEMMA LdataParsed ==
    ASSUME NEW d \in KnxLDatas, NEW r \in Seq(Cell)
    PROVE  knx_ldata_parse(knx_ldata_generate(d) \o r) = Valid([d EXCEPT !.tpdu = KnownTpdu(@)])
<1> DEFINE t == knx_tpdu_generate(d.tpdu)
           n == knx_tpdu_size(d.tpdu)
<1>1. PICK h \in Seq(Octet) :
         /\ knx_ldata_generate(d) = h \o t /\ Sized(h, 7) /\ h[7] = n - 1
         /\ Control1(h[1]) = d.control1 /\ h[2] % 16 = 0
         /\ [addressType |-> Bit(h[2], 7), hops |-> (h[2] \div 16) % 8] = d.control2
         /\ From16(h, 3) = d.source /\ From16(h, 5) = d.destination
  BY LdataLayout, Zenon
<1>2. t \in Seq(Octet) /\ Sized(t, n) /\ n \in Nat /\ 1 <= n
      /\ knx_tpdu_parse(t) = Valid(KnownTpdu(d.tpdu))
  BY LdataFields, TpduGenerated, Zenon
<1>4. h \in Seq(Cell) /\ t \in Seq(Cell)
  BY <1>2, CellSeq
<1> HIDE DEF t, n
<1> DEFINE q == (h \o t) \o r
<1>5. SubSeq(q, 8, 7 + n) = t
  <2>1. 8 \in Nat /\ 7 + n \in Nat /\ Sized(h, 8 - 1) /\ Sized(t, (7 + n) - 8 + 1)
    BY <1>1, <1>2 DEF Sized
  <2> QED BY <1>4, <2>1, CutMiddle, Zenon
<1>6. Len(q) >= 7 + n /\ \A i \in 1 .. 7 : q[i] = h[i]
  BY <1>1, <1>2, <1>4, SMTT(40) DEF Sized
<1> HIDE DEF q
<1>7. /\ q[1] = h[1] /\ q[2] = h[2] /\ q[7] = n - 1 /\ From16(q, 3) = d.source
      /\ From16(q, 5) = d.destination
  BY <1>1, <1>6, SMTT(40) DEF From16
<1>8. /\ ~(Len(q) < 8 \/ q[2] % 16 # 0 \/ q[7] + 8 > Len(q))
      /\ 8 + q[7] = 7 + n
  <2>1. ~(Len(q) < 8) /\ ~(q[7] + 8 > Len(q)) /\ 8 + q[7] = 7 + n
    BY <1>2, <1>6, <1>7, SMTT(40)
  <2>2. q[2] % 16 = 0
    BY <1>1, <1>7, Zenon
  <2> QED BY <2>1, <2>2, Zenon
<1>9. knx_ldata_parse(q)
      = Valid([control1 |-> Control1(q[1]),
               control2 |-> [addressType |-> Bit(q[2], 7), hops |-> (q[2] \div 16) % 8],
               source |-> From16(q, 3), destination |-> From16(q, 5),
               tpdu |-> KnownTpdu(d.tpdu)])
  <2>1. knx_tpdu_parse(SubSeq(q, 8, 8 + q[7])) = [ok |-> TRUE, value |-> KnownTpdu(d.tpdu)]
    BY <1>2, <1>5, <1>8, Zenon DEF Valid
  <2> DEFINE u == knx_tpdu_parse(SubSeq(q, 8, 8 + q[7]))
  <2>2. u.ok /\ u.value = KnownTpdu(d.tpdu)
    BY <2>1
  <2> QED BY <1>8, <2>2, Zenon DEF knx_ldata_parse
<1>10. knx_ldata_parse(q)
       = Valid([control1 |-> d.control1, control2 |-> d.control2, source |-> d.source,
                destination |-> d.destination, tpdu |-> KnownTpdu(d.tpdu)])
  BY <1>1, <1>7, <1>9, Zenon
<1>11. [d EXCEPT !.tpdu = KnownTpdu(@)]
       = [control1 |-> d.control1, control2 |-> d.control2, source |-> d.source,
          destination |-> d.destination, tpdu |-> KnownTpdu(d.tpdu)]
  BY LdataFields
<1> QED BY <1>1, <1>10, <1>11, Zenon DEF q

(* The fields of a cEMI frame.                                             *)
LEMMA CemiFields ==
    ASSUME NEW f \in KnxCemis
    PROVE  /\ f.service \in LData /\ f.service \in Octet
           /\ f.addInfo \in Seq(Octet) /\ Len(f.addInfo) <= 255
           /\ f.ldata \in KnxLDatas
           /\ f = [service |-> f.service, addInfo |-> f.addInfo, ldata |-> f.ldata]
BY OctetIs DEF KnxCemis, OctetsFrom, LData

(* A cEMI frame is its service and the length of what is added, that, and  *)
(* an L_Data frame; knx_cemi_size has room for one octet more.             *)
LEMMA CemiLayout ==
    ASSUME NEW f \in KnxCemis
    PROVE  \E h \in Seq(Octet), d \in Seq(Octet) :
              /\ knx_cemi_generate(f) = (h \o f.addInfo) \o d
              /\ Sized(h, 2) /\ h[1] = f.service /\ h[2] = Len(f.addInfo)
              /\ d = knx_ldata_generate(f.ldata)
              /\ knx_cemi_size(f) \in Nat /\ knx_cemi_size(f) <= 700
              /\ knx_cemi_size(f) = Len((h \o f.addInfo) \o d) + 1
<1> DEFINE a == f.addInfo
           n == knx_tpdu_size(f.ldata.tpdu)
           d == knx_ldata_generate(f.ldata)
           c == f.service
<1>1. a \in Seq(Octet) /\ Len(a) \in Nat /\ Len(a) <= 255 /\ c \in Octet
  BY CemiFields, LenProperties
<1>2. d \in Seq(Octet) /\ Sized(d, 7 + n)
  BY CemiFields, LdataGenerated, Zenon
<1>3. n \in Nat /\ n <= 256
  BY CemiFields, LdataFields, TpduGenerated, Zenon
<1>4. knx_cemi_size(f) = 2 + Len(a) + (8 + n)
  BY DEF knx_cemi_size, KNX_CEMI_HEADER_SIZE, knx_ldata_size
<1>5. knx_cemi_generate(f) = (<<c, Len(a)>> \o a) \o d
  BY DEF knx_cemi_generate
<1> HIDE DEF a, n, d, c
<1>6. Len(a) \in Octet
  BY <1>1, OctetIs
<1> DEFINE h == <<c, Len(a)>>
<1>7. h \in Seq(Octet) /\ Sized(h, 2) /\ h[1] = c /\ h[2] = Len(a)
  BY <1>1, <1>6 DEF Sized
<1> HIDE DEF h
<1>8. knx_cemi_size(f) \in Nat /\ knx_cemi_size(f) <= 700
  BY <1>1, <1>3, <1>4
<1>9. knx_cemi_size(f) = Len((h \o a) \o d) + 1
  BY <1>1, <1>2, <1>3, <1>4, <1>7 DEF Sized
<1>10. knx_cemi_generate(f) = (h \o a) \o d
  BY <1>5 DEF h
<1> QED BY <1>2, <1>7, <1>8, <1>9, <1>10, Zenon DEF a, c, d

(* A cEMI frame has one octet less than its size.                          *)
LEMMA CemiGenerated ==
    ASSUME NEW f \in KnxCemis
    PROVE  /\ knx_cemi_generate(f) \in Seq(Octet)
           /\ knx_cemi_size(f) \in Nat /\ knx_cemi_size(f) <= 700
           /\ Sized(knx_cemi_generate(f), knx_cemi_size(f) - 1)
<1>1. PICK h \in Seq(Octet), d \in Seq(Octet) :
         /\ knx_cemi_generate(f) = (h \o f.addInfo) \o d
         /\ knx_cemi_size(f) \in Nat /\ knx_cemi_size(f) <= 700
         /\ knx_cemi_size(f) = Len((h \o f.addInfo) \o d) + 1
  BY CemiLayout, Zenon
<1> DEFINE a == f.addInfo
           s == knx_cemi_size(f)
<1>2. a \in Seq(Octet) /\ s = Len((h \o a) \o d) + 1 /\ s \in Nat
  BY <1>1, CemiFields
<1> HIDE DEF a, s
<1>3. (h \o a) \o d \in Seq(Octet) /\ Sized((h \o a) \o d, s - 1)
  BY <1>2 DEF Sized
<1> QED BY <1>1, <1>3, Zenon DEF a, s

(* Whatever lies behind it, it is parsed as it was.                        *)
LEMMA CemiParsed ==
    ASSUME NEW f \in KnxCemis, NEW r \in Seq(Cell)
    PROVE  knx_cemi_parse(knx_cemi_generate(f) \o r)
           = Valid([f EXCEPT !.ldata.tpdu = KnownTpdu(@)])
<1> DEFINE a == f.addInfo
           k == [f.ldata EXCEPT !.tpdu = KnownTpdu(@)]
<1>1. PICK h \in Seq(Octet), d \in Seq(Octet) :
         /\ knx_cemi_generate(f) = (h \o a) \o d
         /\ Sized(h, 2) /\ h[1] = f.service /\ h[2] = Len(a)
         /\ d = knx_ldata_generate(f.ldata)
  BY CemiLayout, Zenon
<1>2. a \in Seq(Octet) /\ f.service \in LData /\ f.ldata \in KnxLDatas
  BY CemiFields
<1>3. h \in Seq(Cell) /\ a \in Seq(Cell) /\ d \in Seq(Cell) /\ Len(a) \in Nat
  BY <1>2, CellSeq, LenProperties
<1>4. knx_ldata_parse(d \o r) = Valid(k)
  BY <1>1, <1>2, LdataParsed, Zenon
<1> HIDE DEF a, k
<1> DEFINE q == ((h \o a) \o d) \o r
<1>5. q = (h \o a) \o (d \o r) /\ d \o r \in Seq(Cell) /\ h \o a \in Seq(Cell)
  BY <1>3
<1>6. Len(q) >= 2 + Len(a) /\ q[1] = h[1] /\ q[2] = h[2]
  BY <1>1, <1>3 DEF Sized
<1>7. From(q, 2 + Len(a) + 1) = d \o r
  <2> DEFINE s == h \o a
             t == d \o r
             m == 2 + Len(a) + 1
  <2>1. s \in Seq(Cell) /\ t \in Seq(Cell) /\ q = s \o t
    BY <1>5
  <2>2. m \in Nat /\ Sized(s, m - 1)
    BY <1>1, <1>3 DEF Sized
  <2> HIDE DEF s, t, m, q
  <2>3. From(s \o t, m) = t
    BY <2>1, <2>2, CutEnd, Zenon
  <2> QED BY <2>1, <2>3, Zenon DEF t, m
<1>8. SubSeq(q, 3, 2 + Len(a)) = a
  <2> DEFINE t == d \o r
             n == 2 + Len(a)
  <2>1. /\ 3 \in Nat /\ n \in Nat /\ Sized(h, 3 - 1) /\ Sized(a, n - 3 + 1)
        /\ t \in Seq(Cell)
    BY <1>1, <1>3, <1>5 DEF Sized
  <2>2. q = (h \o a) \o t
    BY <1>5
  <2> HIDE DEF t, n, q
  <2>3. SubSeq((h \o a) \o t, 3, n) = a
    BY <1>3, <2>1, CutMiddle, Zenon
  <2> QED BY <2>2, <2>3, Zenon DEF n
<1> HIDE DEF q
<1>9. q[1] = f.service /\ q[2] = Len(a)
  BY <1>1, <1>6
<1>10. ~(Len(q) < 2 \/ 2 + q[2] > Len(q) \/ q[1] \notin LData)
  <2>1. ~(Len(q) < 2) /\ ~(2 + q[2] > Len(q))
    BY <1>3, <1>6, <1>9
  <2> QED BY <1>2, <1>9, <2>1, Zenon
<1>11. knx_cemi_parse(q) = Valid([service |-> q[1], addInfo |-> SubSeq(q, 3, 2 + q[2]),
                                  ldata |-> k])
  <2> DEFINE u == knx_ldata_parse(From(q, 2 + q[2] + 1))
  <2>1. u = Valid(k)
    BY <1>4, <1>7, <1>9, Zenon
  <2>2. u.ok /\ u.value = k
    BY <2>1 DEF Valid
  <2> QED BY <1>10, <2>2, Zenon DEF knx_cemi_parse, KNX_CEMI_HEADER_SIZE
<1>12. knx_cemi_parse(q) = Valid([service |-> f.service, addInfo |-> a, ldata |-> k])
  BY <1>8, <1>9, <1>11, Zenon
<1>13. [f EXCEPT !.ldata.tpdu = KnownTpdu(@)]
       = [service |-> f.service, addInfo |-> a, ldata |-> k]
  <2>1. [f EXCEPT !.ldata.tpdu = KnownTpdu(@)] = [f EXCEPT !.ldata = k]
    BY CemiFields, LdataFields DEF k
  <2> QED BY <2>1, CemiFields DEF a
<1> QED BY <1>1, <1>12, <1>13, Zenon DEF q

-----------------------------------------------------------------------------
(* The payloads.                                                           *)

(* The payload of a search or description request.                         *)
LEMMA DescriptionRequestKept ==
    ASSUME NEW p \in [control : KnxHostInfos], NEW r \in Seq(Cell)
    PROVE  /\ knx_description_request_generate(p) \in Seq(Octet)
           /\ Sized(knx_description_request_generate(p), 8)
           /\ knx_description_request_parse(knx_description_request_generate(p) \o r) = Valid(p)
<1> DEFINE h == p.control
           g == knx_host_info_generate(h)
<1>1. h \in KnxHostInfos /\ p = [control |-> h]
  OBVIOUS
<1>2. g \in Seq(Octet) /\ Sized(g, 8) /\ knx_host_info_parse(g \o r) = Valid(h)
  BY <1>1, HostGenerated, HostParsed, Zenon
<1>3. knx_description_request_generate(p) = g
  BY DEF knx_description_request_generate
<1> HIDE DEF h, g
<1>4. knx_description_request_parse(g \o r) = Valid([control |-> h])
  <2> DEFINE u == knx_host_info_parse(g \o r)
  <2>1. u.ok = TRUE /\ u.value = h
    BY <1>2 DEF Valid
  <2>2. knx_description_request_parse(g \o r) = [ok |-> u.ok, value |-> [control |-> u.value]]
    BY DEF knx_description_request_parse
  <2> HIDE DEF u
  <2> QED BY <2>1, <2>2, Zenon DEF Valid
<1> QED BY <1>1, <1>2, <1>3, <1>4, Zenon

(* The payload of a connection request.                                    *)
LEMMA ConnectionRequestKept ==
    ASSUME NEW p \in [type : {4}, layer : {2}, control : KnxHostInfos, tunnel : KnxHostInfos],
           NEW r \in Seq(Cell)
    PROVE  /\ knx_connection_request_generate(p) \in Seq(Octet)
           /\ Sized(knx_connection_request_generate(p), 20)
           /\ knx_connection_request_parse(knx_connection_request_generate(p) \o r) = Valid(p)
<1> DEFINE h == p.control
           k == p.tunnel
           g == knx_host_info_generate(h)
           e == knx_host_info_generate(k)
           l == <<4, 4, 2, 0>>
           q == ((g \o e) \o l) \o r
<1>1. /\ h \in KnxHostInfos /\ k \in KnxHostInfos /\ p.type = 4 /\ p.layer = 2
      /\ p = [type |-> 4, layer |-> 2, control |-> h, tunnel |-> k]
  OBVIOUS
<1>2. g \in Seq(Octet) /\ Sized(g, 8) /\ e \in Seq(Octet) /\ Sized(e, 8)
  BY <1>1, HostGenerated, Zenon
<1>3. l \in Seq(Octet) /\ Sized(l, 4) /\ l[1] = 4 /\ l[2] = 4 /\ l[3] = 2
  BY DEF Octet, Sized
<1>4. knx_connection_request_generate(p) = (g \o e) \o l
  BY <1>1 DEF knx_connection_request_generate
<1>5. g \in Seq(Cell) /\ e \in Seq(Cell) /\ l \in Seq(Cell)
  BY <1>2, <1>3, CellSeq
<1>6. (e \o l) \o r \in Seq(Cell) /\ l \o r \in Seq(Cell)
  BY <1>5
<1>7. knx_host_info_parse(g \o ((e \o l) \o r)) = Valid(h)
  BY <1>1, <1>6, HostParsed, Zenon
<1>8. knx_host_info_parse(e \o (l \o r)) = Valid(k)
  BY <1>1, <1>6, HostParsed, Zenon
<1> HIDE DEF g, e, l, h, k
<1>9. (g \o e) \o l \in Seq(Octet) /\ Sized((g \o e) \o l, 20)
  BY <1>2, <1>3 DEF Sized
<1>10. q = g \o ((e \o l) \o r) /\ (e \o l) \o r = e \o (l \o r)
  <2>1. ((g \o e) \o l) \o r = (g \o e) \o (l \o r)
    BY <1>5, SMTT(40)
  <2>2. (e \o l) \o r = e \o (l \o r)
    BY <1>5
  <2>3. (g \o e) \o (l \o r) = g \o (e \o (l \o r))
    <3> DEFINE t == l \o r
    <3>1. t \in Seq(Cell)
      BY <1>6
    <3> HIDE DEF t
    <3>2. (g \o e) \o t = g \o (e \o t)
      BY <1>5, <3>1, SMTT(40)
    <3> QED BY <3>2 DEF t
  <2> QED BY <2>1, <2>2, <2>3, Zenon
<1>11. From(q, 9) = e \o (l \o r)
  <2> DEFINE t == e \o (l \o r)
  <2>1. 9 \in Nat /\ Sized(g, 9 - 1) /\ t \in Seq(Cell) /\ q = g \o t
    BY <1>2, <1>5, <1>6, <1>10 DEF Sized
  <2> HIDE DEF t, q
  <2>2. From(g \o t, 9) = t
    BY <1>5, <2>1, CutEnd, Zenon
  <2> QED BY <2>1, <2>2, Zenon DEF t
<1>12. ~(Len(q) < 20) /\ q[17] = 4 /\ q[18] = 4 /\ q[19] = 2
  BY <1>2, <1>3, <1>5 DEF Sized
<1> HIDE DEF q
<1>13. knx_host_info_parse(q) = Valid(h) /\ knx_host_info_parse(From(q, 9)) = Valid(k)
  BY <1>7, <1>8, <1>10, <1>11, Zenon
<1>14. knx_connection_request_parse(q)
       = Valid([type |-> 4, layer |-> 2, control |-> h, tunnel |-> k])
  <2> DEFINE c == knx_host_info_parse(q)
             t == knx_host_info_parse(From(q, 9))
  <2>1. c.ok = TRUE /\ t.ok = TRUE /\ c.value = h /\ t.value = k
    BY <1>13 DEF Valid
  <2>2. knx_connection_request_parse(q)
        = [ok |-> c.ok /\ t.ok, value |-> [type |-> q[18], layer |-> q[19],
                                           control |-> c.value, tunnel |-> t.value]]
    BY <1>12, Zenon DEF knx_connection_request_parse
  <2> HIDE DEF c, t
  <2>3. (c.ok /\ t.ok) = TRUE
    BY <2>1
  <2> QED BY <1>12, <2>1, <2>2, <2>3, Zenon DEF Valid
<1> QED BY <1>1, <1>4, <1>9, <1>14, Zenon DEF q

(* The payload of a state or disconnect request.                           *)
LEMMA StateRequestKept ==
    ASSUME NEW p \in [channel : Octet, status : Octet, host : KnxHostInfos], NEW r \in Seq(Cell)
    PROVE  /\ knx_connection_state_request_generate(p) \in Seq(Octet)
           /\ Sized(knx_connection_state_request_generate(p), 10)
           /\ knx_connection_state_request_parse(knx_connection_state_request_generate(p) \o r)
              = Valid(p)
<1> DEFINE h == p.host
           c == p.channel
           s == p.status
           g == knx_host_info_generate(h)
           l == <<c, s>>
           q == (l \o g) \o r
<1>1. /\ h \in KnxHostInfos /\ c \in Octet /\ s \in Octet
      /\ p = [channel |-> c, status |-> s, host |-> h]
  OBVIOUS
<1>2. g \in Seq(Octet) /\ Sized(g, 8) /\ knx_host_info_parse(g \o r) = Valid(h)
  BY <1>1, HostGenerated, HostParsed, Zenon
<1>3. knx_connection_state_request_generate(p) = l \o g
  BY DEF knx_connection_state_request_generate
<1> HIDE DEF h, c, s, g
<1>4. l \in Seq(Octet) /\ Sized(l, 2) /\ l[1] = c /\ l[2] = s
  BY <1>1 DEF Sized
<1> HIDE DEF l
<1>5. g \in Seq(Cell) /\ l \in Seq(Cell)
  BY <1>2, <1>4, CellSeq
<1>6. l \o g \in Seq(Octet) /\ Sized(l \o g, 10)
  BY <1>2, <1>4 DEF Sized
<1>7. From(q, 3) = g \o r
  <2> DEFINE t == g \o r
  <2>1. 3 \in Nat /\ Sized(l, 3 - 1) /\ t \in Seq(Cell) /\ q = l \o t
    BY <1>4, <1>5 DEF Sized
  <2> HIDE DEF t, q
  <2>2. From(l \o t, 3) = t
    BY <1>5, <2>1, CutEnd, Zenon
  <2> QED BY <2>1, <2>2, Zenon DEF t
<1>8. ~(Len(q) < 10) /\ q[1] = c /\ q[2] = s
  BY <1>2, <1>4, <1>5 DEF Sized
<1> HIDE DEF q
<1>9. knx_connection_state_request_parse(q) = Valid([channel |-> c, status |-> s, host |-> h])
  <2> DEFINE u == knx_host_info_parse(From(q, 3))
  <2>1. u = Valid(h)
    BY <1>2, <1>7, Zenon
  <2>2. u.ok = TRUE /\ u.value = h
    BY <2>1 DEF Valid
  <2>3. knx_connection_state_request_parse(q)
        = [ok |-> u.ok, value |-> [channel |-> q[1], status |-> q[2], host |-> u.value]]
    BY <1>8, Zenon DEF knx_connection_state_request_parse
  <2> HIDE DEF u
  <2> QED BY <1>8, <2>2, <2>3, Zenon DEF Valid
<1> QED BY <1>1, <1>3, <1>6, <1>9, Zenon DEF q

(* The payload of a state or disconnect response.                          *)
LEMMA StateResponseKept ==
    ASSUME NEW p \in [channel : Octet, status : Octet]
    PROVE  /\ knx_connection_state_response_generate(p) \in Seq(Octet)
           /\ Sized(knx_connection_state_response_generate(p), 2)
           /\ knx_connection_state_response_parse(knx_connection_state_response_generate(p))
              = Valid(p)
<1> DEFINE c == p.channel
           s == p.status
           q == <<c, s>>
<1>1. c \in Octet /\ s \in Octet /\ p = [channel |-> c, status |-> s]
  OBVIOUS
<1>2. knx_connection_state_response_generate(p) = q
  BY DEF knx_connection_state_response_generate
<1> HIDE DEF c, s
<1>3. q \in Seq(Octet) /\ Sized(q, 2) /\ q[1] = c /\ q[2] = s
  BY <1>1 DEF Sized
<1> HIDE DEF q
<1>4. ~(Len(q) < 2)
  BY <1>3 DEF Sized
<1>5. knx_connection_state_response_parse(q) = Valid([channel |-> q[1], status |-> q[2]])
  BY <1>4, Zenon DEF knx_connection_state_response_parse
<1> QED BY <1>1, <1>2, <1>3, <1>5, Zenon

(* The payload of a tunnelling acknowledgement.                            *)
LEMMA TunnelResponseKept ==
    ASSUME NEW p \in [channel : Octet, seq : Octet, status : Octet]
    PROVE  /\ knx_tunnel_response_generate(p) \in Seq(Octet)
           /\ Sized(knx_tunnel_response_generate(p), 4)
           /\ knx_tunnel_response_parse(knx_tunnel_response_generate(p)) = Valid(p)
<1> DEFINE c == p.channel
           n == p.seq
           s == p.status
           q == <<4, c, n, s>>
<1>1. c \in Octet /\ n \in Octet /\ s \in Octet /\ p = [channel |-> c, seq |-> n, status |-> s]
  OBVIOUS
<1>2. knx_tunnel_response_generate(p) = q
  BY DEF knx_tunnel_response_generate
<1>3. 4 \in Octet
  BY DEF Octet
<1> HIDE DEF c, n, s
<1>4. q \in Seq(Octet) /\ Sized(q, 4) /\ q[1] = 4 /\ q[2] = c /\ q[3] = n /\ q[4] = s
  BY <1>1, <1>3 DEF Sized
<1> HIDE DEF q
<1>5. ~(Len(q) < 4)
  BY <1>4 DEF Sized
<1>6. knx_tunnel_response_parse(q)
      = Valid([channel |-> q[2], seq |-> q[3], status |-> q[4]])
  BY <1>4, <1>5, Zenon DEF knx_tunnel_response_parse
<1> QED BY <1>1, <1>2, <1>4, <1>6, Zenon

(* What the receiver knows of a connection response.                       *)
LEMMA ConnectionResponseKept ==
    ASSUME NEW p \in [channel : Octet, status : Octet, host : KnxHostInfos, extended : Octets(3)]
    PROVE  /\ knx_connection_response_generate(p) \in Seq(Octet)
           /\ Sized(knx_connection_response_generate(p), knx_connection_response_size(p))
           /\ knx_connection_response_parse(knx_connection_response_generate(p))
              = Valid(IF p.status = 0 THEN p
                      ELSE [channel |-> p.channel, status |-> p.status, host |-> NoHost,
                            extended |-> <<0, 0, 0>>])
<1> DEFINE h == p.host
           c == p.channel
           s == p.status
           e == p.extended
           g == knx_host_info_generate(h)
           l == <<c, s>>
           z == <<0, 0, 0>>
<1>1. /\ h \in KnxHostInfos /\ c \in Octet /\ s \in Octet /\ e \in Octets(3)
      /\ p = [channel |-> c, status |-> s, host |-> h, extended |-> e]
  OBVIOUS
<1>2. e \in Seq(Octet) /\ e \in Seq(Cell) /\ Sized(e, 3)
  <2> HIDE DEF e
  <2>1. 3 \in Nat
    OBVIOUS
  <2> QED BY <1>1, <2>1, OctetsSized, Zenon
<1>3. g \in Seq(Octet) /\ Sized(g, 8)
  BY <1>1, HostGenerated, Zenon
<1>4. l \in Seq(Octet) /\ Sized(l, 2) /\ l[1] = c /\ l[2] = s
  BY <1>1 DEF Sized
<1>5. CASE s = 0
  <2> DEFINE f == <<4>>
             b == (g \o f) \o e
             q == l \o b
  <2>1. knx_connection_response_generate(p) = q /\ knx_connection_response_size(p) = 14
    BY <1>5 DEF knx_connection_response_generate, knx_connection_response_size
  <2>2. f \in Seq(Octet) /\ Sized(f, 1)
    BY DEF Octet, Sized
  <2>3. g \in Seq(Cell) /\ l \in Seq(Cell) /\ f \in Seq(Cell)
    BY <1>3, <1>4, <2>2, CellSeq
  <2>4. f \o e \in Seq(Cell) /\ b \in Seq(Cell)
    BY <1>2, <2>3
  <2>5. knx_host_info_parse(g \o (f \o e)) = Valid(h)
    BY <1>1, <2>4, HostParsed, Zenon
  <2> HIDE DEF h, c, s, e, g, l, f
  <2>6. q \in Seq(Octet) /\ Sized(q, 14)
    BY <1>2, <1>3, <1>4, <2>2 DEF Sized
  <2>7. b = g \o (f \o e)
    BY <1>2, <2>3
  <2>8. From(q, 3) = b
    <3>1. 3 \in Nat /\ Sized(l, 3 - 1)
      BY <1>4
    <3> HIDE DEF b
    <3> QED BY <2>3, <2>4, <3>1, CutEnd, Zenon
  <2>9. SubSeq(q, 12, 14) = e
    <3>1. \A i \in 1 .. 3 : q[12 + i - 1] = e[i]
      BY <1>2, <1>3, <1>4, <2>2, <2>3 DEF Sized
    <3> HIDE DEF q
    <3>2. /\ 12 \in Nat /\ 12 >= 1 /\ 14 \in Nat /\ 14 <= Len(q)
          /\ Sized(e, 14 - 12 + 1) /\ \A i \in 1 .. 14 - 12 + 1 : q[12 + i - 1] = e[i]
      BY <1>2, <2>6, <3>1 DEF Sized
    <3> QED BY <1>2, <2>6, <3>2, CutIs, Zenon
  <2>10. q[1] = c /\ q[2] = s /\ ~(Len(q) < 2) /\ ~(Len(q) < 14)
    BY <1>2, <1>3, <1>4, <2>2, <2>3 DEF Sized
  <2> HIDE DEF q, b
  <2>11. knx_connection_response_parse(q)
         = Valid([channel |-> c, status |-> s, host |-> h, extended |-> e])
    <3> DEFINE u == knx_host_info_parse(From(q, 3))
    <3>1. u = Valid(h)
      BY <2>5, <2>7, <2>8, Zenon
    <3>2. u.ok = TRUE /\ u.value = h
      BY <3>1 DEF Valid
    <3>3. ~(~u.ok)
      BY <3>2
    <3>4. knx_connection_response_parse(q)
          = [ok |-> TRUE, value |-> [channel |-> q[1], status |-> q[2], host |-> u.value,
                                     extended |-> SubSeq(q, 12, 14)]]
      BY <2>10, <3>3, Zenon DEF knx_connection_response_parse
    <3> HIDE DEF u
    <3> QED BY <2>9, <2>10, <3>2, <3>4, Zenon DEF Valid
  <2>12. knx_connection_response_parse(q) = Valid(p)
    BY <1>1, <2>11, Zenon
  <2>13. p.status = 0
    BY <1>5 DEF s
  <2> QED BY <2>1, <2>6, <2>12, <2>13, Zenon
<1>6. CASE s # 0
  <2>1. knx_connection_response_generate(p) = l /\ knx_connection_response_size(p) = 2
    <3>1. knx_connection_response_generate(p) = l \o <<>> /\ knx_connection_response_size(p) = 2
      BY <1>6 DEF knx_connection_response_generate, knx_connection_response_size
    <3> HIDE DEF l
    <3> QED BY <1>4, <3>1
  <2>3. p.status # 0
    BY <1>6
  <2> HIDE DEF h, c, s, e, g, l, z
  <2>4. ~(Len(l) < 2) /\ Len(l) < 14
    BY <1>4 DEF Sized
  <2>5. knx_connection_response_parse(l)
        = [ok |-> TRUE, value |-> [channel |-> l[1], status |-> l[2], host |-> NoHost,
                                   extended |-> <<0, 0, 0>>]]
    BY <2>4, Zenon DEF knx_connection_response_parse
  <2>6. knx_connection_response_parse(l)
        = Valid([channel |-> p.channel, status |-> p.status, host |-> NoHost,
                  extended |-> <<0, 0, 0>>])
    BY <1>4, <2>5, Zenon DEF Valid, z, c, s
  <2> QED BY <1>4, <2>1, <2>3, <2>6, Zenon
<1> QED BY <1>5, <1>6

(* The payload of a tunnelling request, but for its last octet.            *)
LEMMA TunnelRequestKept ==
    ASSUME NEW p \in [channel : Octet, seq : Octet, data : KnxCemis], NEW r \in Seq(Cell)
    PROVE  /\ knx_tunnel_request_generate(p) \in Seq(Octet)
           /\ knx_tunnel_request_size(p) \in Nat /\ knx_tunnel_request_size(p) <= 704
           /\ Sized(knx_tunnel_request_generate(p), knx_tunnel_request_size(p) - 1)
           /\ knx_tunnel_request_parse(knx_tunnel_request_generate(p) \o r)
              = Valid([p EXCEPT !.data.ldata.tpdu = KnownTpdu(@)])
<1> DEFINE f == p.data
           c == p.channel
           n == p.seq
           g == knx_cemi_generate(f)
           m == knx_cemi_size(f)
           k == [f EXCEPT !.ldata.tpdu = KnownTpdu(@)]
           l == <<4, c, n, 0>>
           q == (l \o g) \o r
<1>1. /\ f \in KnxCemis /\ c \in Octet /\ n \in Octet
      /\ p = [channel |-> c, seq |-> n, data |-> f]
  OBVIOUS
<1>2. /\ g \in Seq(Octet) /\ m \in Nat /\ m <= 700 /\ Sized(g, m - 1)
      /\ knx_cemi_parse(g \o r) = Valid(k)
  BY <1>1, CemiGenerated, CemiParsed, ZenonT(60)
<1>3. knx_tunnel_request_generate(p) = l \o g /\ knx_tunnel_request_size(p) = 4 + m
  BY DEF knx_tunnel_request_generate, knx_tunnel_request_size
<1>4. [p EXCEPT !.data.ldata.tpdu = KnownTpdu(@)] = [channel |-> c, seq |-> n, data |-> k]
  <2>1. [p EXCEPT !.data.ldata.tpdu = KnownTpdu(@)] = [p EXCEPT !.data = k]
    BY CemiFields, LdataFields
  <2> QED BY <1>1, <2>1
<1>5. 4 \in Octet /\ 0 \in Octet
  BY DEF Octet
<1> HIDE DEF f, c, n, g, m, k
<1>6. l \in Seq(Octet) /\ Sized(l, 4) /\ l[1] = 4 /\ l[2] = c /\ l[3] = n
  BY <1>1, <1>5 DEF Sized
<1> HIDE DEF l
<1>7. l \in Seq(Cell) /\ g \in Seq(Cell)
  BY <1>2, <1>6, CellSeq
<1>8. l \o g \in Seq(Octet) /\ 4 + m \in Nat /\ 4 + m <= 704 /\ Sized(l \o g, 4 + m - 1)
  BY <1>2, <1>6 DEF Sized
<1>9. From(q, 5) = g \o r
  <2> DEFINE t == g \o r
  <2>1. 5 \in Nat /\ Sized(l, 5 - 1) /\ t \in Seq(Cell) /\ q = l \o t
    BY <1>6, <1>7 DEF Sized
  <2> HIDE DEF t, q
  <2>2. From(l \o t, 5) = t
    BY <1>7, <2>1, CutEnd, Zenon
  <2> QED BY <2>1, <2>2, Zenon DEF t
<1>10. ~(Len(q) < 4) /\ q[1] = 4 /\ q[2] = c /\ q[3] = n
  BY <1>6, <1>7 DEF Sized
<1> HIDE DEF q
<1>11. knx_tunnel_request_parse(q) = Valid([channel |-> c, seq |-> n, data |-> k])
  <2> DEFINE u == knx_cemi_parse(From(q, 5))
  <2>1. u = Valid(k)
    BY <1>2, <1>9, Zenon
  <2>2. u.ok = TRUE /\ u.value = k
    BY <2>1 DEF Valid
  <2>3. ~(~u.ok)
    BY <2>2
  <2>4. knx_tunnel_request_parse(q) = Valid([channel |-> q[2], seq |-> q[3], data |-> u.value])
    BY <1>10, <2>3, Zenon DEF knx_tunnel_request_parse
  <2> QED BY <1>10, <2>2, <2>4, Zenon
<1>12. knx_tunnel_request_parse(knx_tunnel_request_generate(p) \o r)
       = Valid([p EXCEPT !.data.ldata.tpdu = KnownTpdu(@)])
  BY <1>3, <1>4, <1>11, Zenon DEF q
<1>13. /\ knx_tunnel_request_generate(p) \in Seq(Octet)
       /\ Sized(knx_tunnel_request_generate(p), knx_tunnel_request_size(p) - 1)
  <2> DEFINE v == knx_tunnel_request_generate(p)
             w == knx_tunnel_request_size(p)
  <2>1. v = l \o g /\ w = 4 + m
    BY <1>3
  <2> HIDE DEF v, w
  <2>2. v \in Seq(Octet) /\ Sized(v, w - 1)
    BY <1>2, <1>6, <2>1 DEF Sized
  <2> QED BY <2>2 DEF v, w
<1>14. knx_tunnel_request_size(p) \in Nat /\ knx_tunnel_request_size(p) <= 704
  BY <1>3, <1>8, Zenon
<1> QED BY <1>12, <1>13, <1>14, Zenon

(* The payload of a routing indication, but for its last octet.            *)
LEMMA RoutingIndicationKept ==
    ASSUME NEW p \in [data : KnxCemis], NEW r \in Seq(Cell)
    PROVE  /\ knx_routing_indication_generate(p) \in Seq(Octet)
           /\ knx_cemi_size(p.data) \in Nat /\ knx_cemi_size(p.data) <= 700
           /\ Sized(knx_routing_indication_generate(p), knx_cemi_size(p.data) - 1)
           /\ knx_routing_indication_parse(knx_routing_indication_generate(p) \o r)
              = Valid([p EXCEPT !.data.ldata.tpdu = KnownTpdu(@)])
<1> DEFINE f == p.data
           g == knx_cemi_generate(f)
           m == knx_cemi_size(f)
           k == [f EXCEPT !.ldata.tpdu = KnownTpdu(@)]
<1>1. f \in KnxCemis /\ p = [data |-> f]
  OBVIOUS
<1>2. /\ g \in Seq(Octet) /\ m \in Nat /\ m <= 700 /\ Sized(g, m - 1)
      /\ knx_cemi_parse(g \o r) = Valid(k)
  BY <1>1, CemiGenerated, CemiParsed, ZenonT(60)
<1>3. knx_routing_indication_generate(p) = g
  BY DEF knx_routing_indication_generate
<1>4. [p EXCEPT !.data.ldata.tpdu = KnownTpdu(@)] = [data |-> k]
  <2>1. [p EXCEPT !.data.ldata.tpdu = KnownTpdu(@)] = [p EXCEPT !.data = k]
    BY CemiFields, LdataFields
  <2> QED BY <1>1, <2>1
<1> DEFINE u == knx_cemi_parse(g \o r)
<1>5. u.ok /\ u.value = k
  BY <1>2 DEF Valid
<1>6. knx_routing_indication_parse(g \o r) = Valid([data |-> u.value])
  BY <1>5, Zenon DEF knx_routing_indication_parse
<1> QED BY <1>2, <1>3, <1>4, <1>5, <1>6, Zenon

(* The services with an L_Data frame, whose packets have an octet to spare. *)
Framed == {KNX_TUNNEL_REQUEST, KNX_ROUTING_INDICATION}
Spare(service) == IF service \in Framed THEN 1 ELSE 0

(* The services that have payloads.                                        *)
LEMMA AnyService ==
    ASSUME NEW service, NEW p \in KnxPayloads(service)
    PROVE  service \in { KNX_SEARCH_REQUEST, KNX_DESCRIPTION_REQUEST, KNX_CONNECTION_REQUEST,
                         KNX_CONNECTION_RESPONSE, KNX_CONNECTION_STATE_REQUEST,
                         KNX_CONNECTION_STATE_RESPONSE, KNX_DISCONNECT_REQUEST,
                         KNX_DISCONNECT_RESPONSE, KNX_TUNNEL_REQUEST, KNX_TUNNEL_RESPONSE,
                         KNX_ROUTING_INDICATION }
<1> SUFFICES ASSUME service \notin { KNX_SEARCH_REQUEST, KNX_DESCRIPTION_REQUEST,
                         KNX_CONNECTION_REQUEST,
                         KNX_CONNECTION_RESPONSE, KNX_CONNECTION_STATE_REQUEST,
                         KNX_CONNECTION_STATE_RESPONSE, KNX_DISCONNECT_REQUEST,
                         KNX_DISCONNECT_RESPONSE, KNX_TUNNEL_REQUEST, KNX_TUNNEL_RESPONSE,
                         KNX_ROUTING_INDICATION }
             PROVE  FALSE
  OBVIOUS
<1>1. KnxPayloads(service) = {}
  BY DEF KnxPayloads, HostServices, StatusHostServices, StatusServices
<1> QED BY <1>1

(* What the size of a packet leaves over its octets.                       *)
LEMMA SpareIs ==
    ASSUME NEW r \in Seq(Cell), NEW g \in Seq(Octet)
    PROVE  Sized(r, 0) => g \o r = g
<1>1. Len(r) \in Nat
  BY LenProperties
<1>2. Sized(r, 0) => r = <<>>
  BY <1>1, EmptySeq DEF Sized
<1>3. r = <<>> => g \o r = g
  OBVIOUS
<1> QED BY <1>1, <1>2, <1>3 DEF Sized

(* Any payload fits into its size and is parsed as it is known.            *)
LEMMA PayloadKept ==
    ASSUME NEW service, NEW p \in KnxPayloads(service), NEW r \in Seq(Cell),
           Sized(r, Spare(service))
    PROVE  /\ PayloadGenerate(service, p) \in Seq(Octet)
           /\ knx_payload_size(service, p) \in Nat /\ knx_payload_size(service, p) <= 704
           /\ Sized(PayloadGenerate(service, p), knx_payload_size(service, p) - Spare(service))
           /\ service # KNX_SEARCH_REQUEST =>
                 PayloadParse(service, PayloadGenerate(service, p) \o r)
                 = Valid(Known(service, p))
<1> DEFINE g == PayloadGenerate(service, p)
           m == knx_payload_size(service, p)
           s == Spare(service)
<1> HIDE DEF g, m, s
<1>1. ASSUME NEW n, n \in Nat, n <= 704, m = n, NEW b, b \in Nat, s = b, Sized(g, n - b),
             g \in Seq(Octet),
             service # KNX_SEARCH_REQUEST => PayloadParse(service, g \o r) = Valid(Known(service, p))
      PROVE  /\ g \in Seq(Octet) /\ m \in Nat /\ m <= 704 /\ Sized(g, m - s)
             /\ service # KNX_SEARCH_REQUEST =>
                   PayloadParse(service, g \o r) = Valid(Known(service, p))
  BY <1>1
<1>2. CASE service = KNX_SEARCH_REQUEST
  <2>1. p \in [control : KnxHostInfos] /\ m = 8 /\ s = 0
    BY <1>2 DEF m, s, KnxPayloads, PayloadGenerate, knx_payload_size, KNX_HOST_INFO_SIZE, Spare, Framed,
          HostServices, StatusHostServices, StatusServices, KNX_SEARCH_REQUEST,
          KNX_DESCRIPTION_REQUEST, KNX_DESCRIPTION_RESPONSE, KNX_CONNECTION_REQUEST,
          KNX_CONNECTION_RESPONSE, KNX_CONNECTION_STATE_REQUEST,
          KNX_CONNECTION_STATE_RESPONSE, KNX_DISCONNECT_REQUEST, KNX_DISCONNECT_RESPONSE,
          KNX_TUNNEL_REQUEST, KNX_TUNNEL_RESPONSE, KNX_ROUTING_INDICATION
  <2>2. g = knx_description_request_generate(p)
    BY <1>2 DEF g, PayloadGenerate, HostServices, StatusHostServices, StatusServices, KNX_SEARCH_REQUEST,
          KNX_DESCRIPTION_REQUEST, KNX_DESCRIPTION_RESPONSE, KNX_CONNECTION_REQUEST,
          KNX_CONNECTION_RESPONSE, KNX_CONNECTION_STATE_REQUEST,
          KNX_CONNECTION_STATE_RESPONSE, KNX_DISCONNECT_REQUEST, KNX_DISCONNECT_RESPONSE,
          KNX_TUNNEL_REQUEST, KNX_TUNNEL_RESPONSE, KNX_ROUTING_INDICATION
  <2>3. service = KNX_SEARCH_REQUEST
    BY <1>2
  <2>4. g \in Seq(Octet) /\ Sized(g, 8)
    BY <2>1, <2>2, DescriptionRequestKept, Zenon
  <2>6. g \o r = g /\ 8 \in Nat /\ 8 <= 704 /\ Sized(g, 8 - 0)
    <3>1. Sized(r, 0)
      BY <2>1, Zenon DEF s
    <3>2. 8 \in Nat /\ 8 <= 704 /\ 8 - 0 = 8
      BY DEF knx_connection_response_size
    <3> QED BY <2>4, <3>1, <3>2, SpareIs, Zenon
  <2>7. service # KNX_SEARCH_REQUEST => PayloadParse(service, g \o r) = Valid(Known(service, p))
    BY <2>3, <2>4, <2>6, Zenon
  <2>8. 0 \in Nat
    OBVIOUS
  <2> QED BY <1>1, <2>1, <2>4, <2>6, <2>7, <2>8, ZenonT(60) DEF g, m, s
<1>3. CASE service = KNX_DESCRIPTION_REQUEST
  <2>1. p \in [control : KnxHostInfos] /\ m = 8 /\ s = 0
    BY <1>3 DEF m, s, KnxPayloads, PayloadGenerate, knx_payload_size, KNX_HOST_INFO_SIZE, Spare, Framed,
          HostServices, StatusHostServices, StatusServices, KNX_SEARCH_REQUEST,
          KNX_DESCRIPTION_REQUEST, KNX_DESCRIPTION_RESPONSE, KNX_CONNECTION_REQUEST,
          KNX_CONNECTION_RESPONSE, KNX_CONNECTION_STATE_REQUEST,
          KNX_CONNECTION_STATE_RESPONSE, KNX_DISCONNECT_REQUEST, KNX_DISCONNECT_RESPONSE,
          KNX_TUNNEL_REQUEST, KNX_TUNNEL_RESPONSE, KNX_ROUTING_INDICATION
  <2>2. g = knx_description_request_generate(p)
    BY <1>3 DEF g, PayloadGenerate, HostServices, StatusHostServices, StatusServices, KNX_SEARCH_REQUEST,
          KNX_DESCRIPTION_REQUEST, KNX_DESCRIPTION_RESPONSE, KNX_CONNECTION_REQUEST,
          KNX_CONNECTION_RESPONSE, KNX_CONNECTION_STATE_REQUEST,
          KNX_CONNECTION_STATE_RESPONSE, KNX_DISCONNECT_REQUEST, KNX_DISCONNECT_RESPONSE,
          KNX_TUNNEL_REQUEST, KNX_TUNNEL_RESPONSE, KNX_ROUTING_INDICATION
  <2>3. PayloadParse(service, g \o r) = knx_description_request_parse(g \o r)
        /\ Known(service, p) = p
    BY <1>3 DEF PayloadParse, Known, HostServices, StatusHostServices, StatusServices, KNX_SEARCH_REQUEST,
          KNX_DESCRIPTION_REQUEST, KNX_DESCRIPTION_RESPONSE, KNX_CONNECTION_REQUEST,
          KNX_CONNECTION_RESPONSE, KNX_CONNECTION_STATE_REQUEST,
          KNX_CONNECTION_STATE_RESPONSE, KNX_DISCONNECT_REQUEST, KNX_DISCONNECT_RESPONSE,
          KNX_TUNNEL_REQUEST, KNX_TUNNEL_RESPONSE, KNX_ROUTING_INDICATION
  <2>4. g \in Seq(Octet) /\ Sized(g, 8)
        /\ knx_description_request_parse(g \o r) = Valid(p)
    BY <2>1, <2>2, DescriptionRequestKept, Zenon
  <2>6. g \o r = g /\ 8 \in Nat /\ 8 <= 704 /\ Sized(g, 8 - 0)
    <3>1. Sized(r, 0)
      BY <2>1, Zenon DEF s
    <3>2. 8 \in Nat /\ 8 <= 704 /\ 8 - 0 = 8
      BY DEF knx_connection_response_size
    <3> QED BY <2>4, <3>1, <3>2, SpareIs, Zenon
  <2>7. service # KNX_SEARCH_REQUEST => PayloadParse(service, g \o r) = Valid(Known(service, p))
    BY <2>3, <2>4, <2>6, Zenon
  <2>8. 0 \in Nat
    OBVIOUS
  <2> QED BY <1>1, <2>1, <2>4, <2>6, <2>7, <2>8, ZenonT(60) DEF g, m, s
<1>4. CASE service = KNX_CONNECTION_REQUEST
  <2>1. p \in [type : {4}, layer : {2}, control : KnxHostInfos, tunnel : KnxHostInfos] /\ m = 20 /\ s = 0
    BY <1>4 DEF m, s, KnxPayloads, PayloadGenerate, knx_payload_size, KNX_HOST_INFO_SIZE, Spare, Framed,
          HostServices, StatusHostServices, StatusServices, KNX_SEARCH_REQUEST,
          KNX_DESCRIPTION_REQUEST, KNX_DESCRIPTION_RESPONSE, KNX_CONNECTION_REQUEST,
          KNX_CONNECTION_RESPONSE, KNX_CONNECTION_STATE_REQUEST,
          KNX_CONNECTION_STATE_RESPONSE, KNX_DISCONNECT_REQUEST, KNX_DISCONNECT_RESPONSE,
          KNX_TUNNEL_REQUEST, KNX_TUNNEL_RESPONSE, KNX_ROUTING_INDICATION
  <2>2. g = knx_connection_request_generate(p)
    BY <1>4 DEF g, PayloadGenerate, HostServices, StatusHostServices, StatusServices, KNX_SEARCH_REQUEST,
          KNX_DESCRIPTION_REQUEST, KNX_DESCRIPTION_RESPONSE, KNX_CONNECTION_REQUEST,
          KNX_CONNECTION_RESPONSE, KNX_CONNECTION_STATE_REQUEST,
          KNX_CONNECTION_STATE_RESPONSE, KNX_DISCONNECT_REQUEST, KNX_DISCONNECT_RESPONSE,
          KNX_TUNNEL_REQUEST, KNX_TUNNEL_RESPONSE, KNX_ROUTING_INDICATION
  <2>3. PayloadParse(service, g \o r) = knx_connection_request_parse(g \o r)
        /\ Known(service, p) = p
    BY <1>4 DEF PayloadParse, Known, HostServices, StatusHostServices, StatusServices, KNX_SEARCH_REQUEST,
          KNX_DESCRIPTION_REQUEST, KNX_DESCRIPTION_RESPONSE, KNX_CONNECTION_REQUEST,
          KNX_CONNECTION_RESPONSE, KNX_CONNECTION_STATE_REQUEST,
          KNX_CONNECTION_STATE_RESPONSE, KNX_DISCONNECT_REQUEST, KNX_DISCONNECT_RESPONSE,
          KNX_TUNNEL_REQUEST, KNX_TUNNEL_RESPONSE, KNX_ROUTING_INDICATION
  <2>4. g \in Seq(Octet) /\ Sized(g, 20)
        /\ knx_connection_request_parse(g \o r) = Valid(p)
    BY <2>1, <2>2, ConnectionRequestKept, Zenon
  <2>6. g \o r = g /\ 20 \in Nat /\ 20 <= 704 /\ Sized(g, 20 - 0)
    <3>1. Sized(r, 0)
      BY <2>1, Zenon DEF s
    <3>2. 20 \in Nat /\ 20 <= 704 /\ 20 - 0 = 20
      BY DEF knx_connection_response_size
    <3> QED BY <2>4, <3>1, <3>2, SpareIs, Zenon
  <2>7. service # KNX_SEARCH_REQUEST => PayloadParse(service, g \o r) = Valid(Known(service, p))
    BY <2>3, <2>4, <2>6, Zenon
  <2>8. 0 \in Nat
    OBVIOUS
  <2> QED BY <1>1, <2>1, <2>4, <2>6, <2>7, <2>8, ZenonT(60) DEF g, m, s
<1>5. CASE service = KNX_CONNECTION_RESPONSE
  <2>1. p \in [channel : Octet, status : Octet, host : KnxHostInfos, extended : Octets(3)] /\ m = knx_connection_response_size(p) /\ s = 0
    BY <1>5 DEF m, s, KnxPayloads, PayloadGenerate, knx_payload_size, KNX_HOST_INFO_SIZE, Spare, Framed,
          HostServices, StatusHostServices, StatusServices, KNX_SEARCH_REQUEST,
          KNX_DESCRIPTION_REQUEST, KNX_DESCRIPTION_RESPONSE, KNX_CONNECTION_REQUEST,
          KNX_CONNECTION_RESPONSE, KNX_CONNECTION_STATE_REQUEST,
          KNX_CONNECTION_STATE_RESPONSE, KNX_DISCONNECT_REQUEST, KNX_DISCONNECT_RESPONSE,
          KNX_TUNNEL_REQUEST, KNX_TUNNEL_RESPONSE, KNX_ROUTING_INDICATION
  <2>2. g = knx_connection_response_generate(p)
    BY <1>5 DEF g, PayloadGenerate, HostServices, StatusHostServices, StatusServices, KNX_SEARCH_REQUEST,
          KNX_DESCRIPTION_REQUEST, KNX_DESCRIPTION_RESPONSE, KNX_CONNECTION_REQUEST,
          KNX_CONNECTION_RESPONSE, KNX_CONNECTION_STATE_REQUEST,
          KNX_CONNECTION_STATE_RESPONSE, KNX_DISCONNECT_REQUEST, KNX_DISCONNECT_RESPONSE,
          KNX_TUNNEL_REQUEST, KNX_TUNNEL_RESPONSE, KNX_ROUTING_INDICATION
  <2>3. PayloadParse(service, g \o r) = knx_connection_response_parse(g \o r)
        /\ Known(service, p) = (IF p.status = 0 THEN p ELSE [channel |-> p.channel, status |-> p.status,
                          host |-> NoHost, extended |-> <<0, 0, 0>>])
    BY <1>5 DEF PayloadParse, Known, HostServices, StatusHostServices, StatusServices, KNX_SEARCH_REQUEST,
          KNX_DESCRIPTION_REQUEST, KNX_DESCRIPTION_RESPONSE, KNX_CONNECTION_REQUEST,
          KNX_CONNECTION_RESPONSE, KNX_CONNECTION_STATE_REQUEST,
          KNX_CONNECTION_STATE_RESPONSE, KNX_DISCONNECT_REQUEST, KNX_DISCONNECT_RESPONSE,
          KNX_TUNNEL_REQUEST, KNX_TUNNEL_RESPONSE, KNX_ROUTING_INDICATION
  <2>4. g \in Seq(Octet) /\ knx_connection_response_size(p) \in Nat /\ knx_connection_response_size(p) <= 704 /\ Sized(g, knx_connection_response_size(p))
        /\ knx_connection_response_parse(g) = Valid((IF p.status = 0 THEN p ELSE [channel |-> p.channel, status |-> p.status,
                          host |-> NoHost, extended |-> <<0, 0, 0>>]))
    <3>1. knx_connection_response_size(p) \in Nat /\ knx_connection_response_size(p) <= 704
      BY DEF knx_connection_response_size
    <3> QED BY <2>1, <2>2, <3>1, ConnectionResponseKept, Zenon
  <2>6. g \o r = g /\ knx_connection_response_size(p) \in Nat /\ knx_connection_response_size(p) <= 704 /\ Sized(g, knx_connection_response_size(p) - 0)
    <3>1. Sized(r, 0)
      BY <2>1, Zenon DEF s
    <3>2. knx_connection_response_size(p) \in Nat /\ knx_connection_response_size(p) <= 704 /\ knx_connection_response_size(p) - 0 = knx_connection_response_size(p)
      BY DEF knx_connection_response_size
    <3> QED BY <2>4, <3>1, <3>2, SpareIs, Zenon
  <2>7. service # KNX_SEARCH_REQUEST => PayloadParse(service, g \o r) = Valid(Known(service, p))
    BY <2>3, <2>4, <2>6, Zenon
  <2>8. 0 \in Nat
    OBVIOUS
  <2> QED BY <1>1, <2>1, <2>4, <2>6, <2>7, <2>8, ZenonT(60) DEF g, m, s
<1>6. CASE service = KNX_CONNECTION_STATE_REQUEST
  <2>1. p \in [channel : Octet, status : Octet, host : KnxHostInfos] /\ m = 10 /\ s = 0
    BY <1>6 DEF m, s, KnxPayloads, PayloadGenerate, knx_payload_size, KNX_HOST_INFO_SIZE, Spare, Framed,
          HostServices, StatusHostServices, StatusServices, KNX_SEARCH_REQUEST,
          KNX_DESCRIPTION_REQUEST, KNX_DESCRIPTION_RESPONSE, KNX_CONNECTION_REQUEST,
          KNX_CONNECTION_RESPONSE, KNX_CONNECTION_STATE_REQUEST,
          KNX_CONNECTION_STATE_RESPONSE, KNX_DISCONNECT_REQUEST, KNX_DISCONNECT_RESPONSE,
          KNX_TUNNEL_REQUEST, KNX_TUNNEL_RESPONSE, KNX_ROUTING_INDICATION
  <2>2. g = knx_connection_state_request_generate(p)
    BY <1>6 DEF g, PayloadGenerate, HostServices, StatusHostServices, StatusServices, KNX_SEARCH_REQUEST,
          KNX_DESCRIPTION_REQUEST, KNX_DESCRIPTION_RESPONSE, KNX_CONNECTION_REQUEST,
          KNX_CONNECTION_RESPONSE, KNX_CONNECTION_STATE_REQUEST,
          KNX_CONNECTION_STATE_RESPONSE, KNX_DISCONNECT_REQUEST, KNX_DISCONNECT_RESPONSE,
          KNX_TUNNEL_REQUEST, KNX_TUNNEL_RESPONSE, KNX_ROUTING_INDICATION
  <2>3. PayloadParse(service, g \o r) = knx_connection_state_request_parse(g \o r)
        /\ Known(service, p) = p
    BY <1>6 DEF PayloadParse, Known, HostServices, StatusHostServices, StatusServices, KNX_SEARCH_REQUEST,
          KNX_DESCRIPTION_REQUEST, KNX_DESCRIPTION_RESPONSE, KNX_CONNECTION_REQUEST,
          KNX_CONNECTION_RESPONSE, KNX_CONNECTION_STATE_REQUEST,
          KNX_CONNECTION_STATE_RESPONSE, KNX_DISCONNECT_REQUEST, KNX_DISCONNECT_RESPONSE,
          KNX_TUNNEL_REQUEST, KNX_TUNNEL_RESPONSE, KNX_ROUTING_INDICATION
  <2>4. g \in Seq(Octet) /\ Sized(g, 10)
        /\ knx_connection_state_request_parse(g \o r) = Valid(p)
    BY <2>1, <2>2, StateRequestKept, Zenon
  <2>6. g \o r = g /\ 10 \in Nat /\ 10 <= 704 /\ Sized(g, 10 - 0)
    <3>1. Sized(r, 0)
      BY <2>1, Zenon DEF s
    <3>2. 10 \in Nat /\ 10 <= 704 /\ 10 - 0 = 10
      BY DEF knx_connection_response_size
    <3> QED BY <2>4, <3>1, <3>2, SpareIs, Zenon
  <2>7. service # KNX_SEARCH_REQUEST => PayloadParse(service, g \o r) = Valid(Known(service, p))
    BY <2>3, <2>4, <2>6, Zenon
  <2>8. 0 \in Nat
    OBVIOUS
  <2> QED BY <1>1, <2>1, <2>4, <2>6, <2>7, <2>8, ZenonT(60) DEF g, m, s
<1>7. CASE service = KNX_CONNECTION_STATE_RESPONSE
  <2>1. p \in [channel : Octet, status : Octet] /\ m = 2 /\ s = 0
    BY <1>7 DEF m, s, KnxPayloads, PayloadGenerate, knx_payload_size, KNX_HOST_INFO_SIZE, Spare, Framed,
          HostServices, StatusHostServices, StatusServices, KNX_SEARCH_REQUEST,
          KNX_DESCRIPTION_REQUEST, KNX_DESCRIPTION_RESPONSE, KNX_CONNECTION_REQUEST,
          KNX_CONNECTION_RESPONSE, KNX_CONNECTION_STATE_REQUEST,
          KNX_CONNECTION_STATE_RESPONSE, KNX_DISCONNECT_REQUEST, KNX_DISCONNECT_RESPONSE,
          KNX_TUNNEL_REQUEST, KNX_TUNNEL_RESPONSE, KNX_ROUTING_INDICATION
  <2>2. g = knx_connection_state_response_generate(p)
    BY <1>7 DEF g, PayloadGenerate, HostServices, StatusHostServices, StatusServices, KNX_SEARCH_REQUEST,
          KNX_DESCRIPTION_REQUEST, KNX_DESCRIPTION_RESPONSE, KNX_CONNECTION_REQUEST,
          KNX_CONNECTION_RESPONSE, KNX_CONNECTION_STATE_REQUEST,
          KNX_CONNECTION_STATE_RESPONSE, KNX_DISCONNECT_REQUEST, KNX_DISCONNECT_RESPONSE,
          KNX_TUNNEL_REQUEST, KNX_TUNNEL_RESPONSE, KNX_ROUTING_INDICATION
  <2>3. PayloadParse(service, g \o r) = knx_connection_state_response_parse(g \o r)
        /\ Known(service, p) = p
    BY <1>7 DEF PayloadParse, Known, HostServices, StatusHostServices, StatusServices, KNX_SEARCH_REQUEST,
          KNX_DESCRIPTION_REQUEST, KNX_DESCRIPTION_RESPONSE, KNX_CONNECTION_REQUEST,
          KNX_CONNECTION_RESPONSE, KNX_CONNECTION_STATE_REQUEST,
          KNX_CONNECTION_STATE_RESPONSE, KNX_DISCONNECT_REQUEST, KNX_DISCONNECT_RESPONSE,
          KNX_TUNNEL_REQUEST, KNX_TUNNEL_RESPONSE, KNX_ROUTING_INDICATION
  <2>4. g \in Seq(Octet) /\ Sized(g, 2)
        /\ knx_connection_state_response_parse(g) = Valid(p)
    BY <2>1, <2>2, StateResponseKept, Zenon
  <2>6. g \o r = g /\ 2 \in Nat /\ 2 <= 704 /\ Sized(g, 2 - 0)
    <3>1. Sized(r, 0)
      BY <2>1, Zenon DEF s
    <3>2. 2 \in Nat /\ 2 <= 704 /\ 2 - 0 = 2
      BY DEF knx_connection_response_size
    <3> QED BY <2>4, <3>1, <3>2, SpareIs, Zenon
  <2>7. service # KNX_SEARCH_REQUEST => PayloadParse(service, g \o r) = Valid(Known(service, p))
    BY <2>3, <2>4, <2>6, Zenon
  <2>8. 0 \in Nat
    OBVIOUS
  <2> QED BY <1>1, <2>1, <2>4, <2>6, <2>7, <2>8, ZenonT(60) DEF g, m, s
<1>8. CASE service = KNX_DISCONNECT_REQUEST
  <2>1. p \in [channel : Octet, status : Octet, host : KnxHostInfos] /\ m = 10 /\ s = 0
    BY <1>8 DEF m, s, KnxPayloads, PayloadGenerate, knx_payload_size, KNX_HOST_INFO_SIZE, Spare, Framed,
          HostServices, StatusHostServices, StatusServices, KNX_SEARCH_REQUEST,
          KNX_DESCRIPTION_REQUEST, KNX_DESCRIPTION_RESPONSE, KNX_CONNECTION_REQUEST,
          KNX_CONNECTION_RESPONSE, KNX_CONNECTION_STATE_REQUEST,
          KNX_CONNECTION_STATE_RESPONSE, KNX_DISCONNECT_REQUEST, KNX_DISCONNECT_RESPONSE,
          KNX_TUNNEL_REQUEST, KNX_TUNNEL_RESPONSE, KNX_ROUTING_INDICATION
  <2>2. g = knx_connection_state_request_generate(p)
    BY <1>8 DEF g, PayloadGenerate, HostServices, StatusHostServices, StatusServices, KNX_SEARCH_REQUEST,
          KNX_DESCRIPTION_REQUEST, KNX_DESCRIPTION_RESPONSE, KNX_CONNECTION_REQUEST,
          KNX_CONNECTION_RESPONSE, KNX_CONNECTION_STATE_REQUEST,
          KNX_CONNECTION_STATE_RESPONSE, KNX_DISCONNECT_REQUEST, KNX_DISCONNECT_RESPONSE,
          KNX_TUNNEL_REQUEST, KNX_TUNNEL_RESPONSE, KNX_ROUTING_INDICATION, knx_disconnect_request_generate
  <2>3. PayloadParse(service, g \o r) = knx_connection_state_request_parse(g \o r)
        /\ Known(service, p) = p
    BY <1>8 DEF PayloadParse, Known, HostServices, StatusHostServices, StatusServices, KNX_SEARCH_REQUEST,
          KNX_DESCRIPTION_REQUEST, KNX_DESCRIPTION_RESPONSE, KNX_CONNECTION_REQUEST,
          KNX_CONNECTION_RESPONSE, KNX_CONNECTION_STATE_REQUEST,
          KNX_CONNECTION_STATE_RESPONSE, KNX_DISCONNECT_REQUEST, KNX_DISCONNECT_RESPONSE,
          KNX_TUNNEL_REQUEST, KNX_TUNNEL_RESPONSE, KNX_ROUTING_INDICATION, knx_disconnect_request_parse
  <2>4. g \in Seq(Octet) /\ Sized(g, 10)
        /\ knx_connection_state_request_parse(g \o r) = Valid(p)
    BY <2>1, <2>2, StateRequestKept, Zenon
  <2>6. g \o r = g /\ 10 \in Nat /\ 10 <= 704 /\ Sized(g, 10 - 0)
    <3>1. Sized(r, 0)
      BY <2>1, Zenon DEF s
    <3>2. 10 \in Nat /\ 10 <= 704 /\ 10 - 0 = 10
      BY DEF knx_connection_response_size
    <3> QED BY <2>4, <3>1, <3>2, SpareIs, Zenon
  <2>7. service # KNX_SEARCH_REQUEST => PayloadParse(service, g \o r) = Valid(Known(service, p))
    BY <2>3, <2>4, <2>6, Zenon
  <2>8. 0 \in Nat
    OBVIOUS
  <2> QED BY <1>1, <2>1, <2>4, <2>6, <2>7, <2>8, ZenonT(60) DEF g, m, s
<1>9. CASE service = KNX_DISCONNECT_RESPONSE
  <2>1. p \in [channel : Octet, status : Octet] /\ m = 2 /\ s = 0
    BY <1>9 DEF m, s, KnxPayloads, PayloadGenerate, knx_payload_size, KNX_HOST_INFO_SIZE, Spare, Framed,
          HostServices, StatusHostServices, StatusServices, KNX_SEARCH_REQUEST,
          KNX_DESCRIPTION_REQUEST, KNX_DESCRIPTION_RESPONSE, KNX_CONNECTION_REQUEST,
          KNX_CONNECTION_RESPONSE, KNX_CONNECTION_STATE_REQUEST,
          KNX_CONNECTION_STATE_RESPONSE, KNX_DISCONNECT_REQUEST, KNX_DISCONNECT_RESPONSE,
          KNX_TUNNEL_REQUEST, KNX_TUNNEL_RESPONSE, KNX_ROUTING_INDICATION
  <2>2. g = knx_connection_state_response_generate(p)
    BY <1>9 DEF g, PayloadGenerate, HostServices, StatusHostServices, StatusServices, KNX_SEARCH_REQUEST,
          KNX_DESCRIPTION_REQUEST, KNX_DESCRIPTION_RESPONSE, KNX_CONNECTION_REQUEST,
          KNX_CONNECTION_RESPONSE, KNX_CONNECTION_STATE_REQUEST,
          KNX_CONNECTION_STATE_RESPONSE, KNX_DISCONNECT_REQUEST, KNX_DISCONNECT_RESPONSE,
          KNX_TUNNEL_REQUEST, KNX_TUNNEL_RESPONSE, KNX_ROUTING_INDICATION, knx_disconnect_response_generate
  <2>3. PayloadParse(service, g \o r) = knx_connection_state_response_parse(g \o r)
        /\ Known(service, p) = p
    BY <1>9 DEF PayloadParse, Known, HostServices, StatusHostServices, StatusServices, KNX_SEARCH_REQUEST,
          KNX_DESCRIPTION_REQUEST, KNX_DESCRIPTION_RESPONSE, KNX_CONNECTION_REQUEST,
          KNX_CONNECTION_RESPONSE, KNX_CONNECTION_STATE_REQUEST,
          KNX_CONNECTION_STATE_RESPONSE, KNX_DISCONNECT_REQUEST, KNX_DISCONNECT_RESPONSE,
          KNX_TUNNEL_REQUEST, KNX_TUNNEL_RESPONSE, KNX_ROUTING_INDICATION, knx_disconnect_response_parse
  <2>4. g \in Seq(Octet) /\ Sized(g, 2)
        /\ knx_connection_state_response_parse(g) = Valid(p)
    BY <2>1, <2>2, StateResponseKept, Zenon
  <2>6. g \o r = g /\ 2 \in Nat /\ 2 <= 704 /\ Sized(g, 2 - 0)
    <3>1. Sized(r, 0)
      BY <2>1, Zenon DEF s
    <3>2. 2 \in Nat /\ 2 <= 704 /\ 2 - 0 = 2
      BY DEF knx_connection_response_size
    <3> QED BY <2>4, <3>1, <3>2, SpareIs, Zenon
  <2>7. service # KNX_SEARCH_REQUEST => PayloadParse(service, g \o r) = Valid(Known(service, p))
    BY <2>3, <2>4, <2>6, Zenon
  <2>8. 0 \in Nat
    OBVIOUS
  <2> QED BY <1>1, <2>1, <2>4, <2>6, <2>7, <2>8, ZenonT(60) DEF g, m, s
<1>10. CASE service = KNX_TUNNEL_REQUEST
  <2>1. p \in [channel : Octet, seq : Octet, data : KnxCemis] /\ m = knx_tunnel_request_size(p) /\ s = 1
    BY <1>10 DEF m, s, KnxPayloads, PayloadGenerate, knx_payload_size, KNX_HOST_INFO_SIZE, Spare, Framed,
          HostServices, StatusHostServices, StatusServices, KNX_SEARCH_REQUEST,
          KNX_DESCRIPTION_REQUEST, KNX_DESCRIPTION_RESPONSE, KNX_CONNECTION_REQUEST,
          KNX_CONNECTION_RESPONSE, KNX_CONNECTION_STATE_REQUEST,
          KNX_CONNECTION_STATE_RESPONSE, KNX_DISCONNECT_REQUEST, KNX_DISCONNECT_RESPONSE,
          KNX_TUNNEL_REQUEST, KNX_TUNNEL_RESPONSE, KNX_ROUTING_INDICATION
  <2>2. g = knx_tunnel_request_generate(p)
    BY <1>10 DEF g, PayloadGenerate, HostServices, StatusHostServices, StatusServices, KNX_SEARCH_REQUEST,
          KNX_DESCRIPTION_REQUEST, KNX_DESCRIPTION_RESPONSE, KNX_CONNECTION_REQUEST,
          KNX_CONNECTION_RESPONSE, KNX_CONNECTION_STATE_REQUEST,
          KNX_CONNECTION_STATE_RESPONSE, KNX_DISCONNECT_REQUEST, KNX_DISCONNECT_RESPONSE,
          KNX_TUNNEL_REQUEST, KNX_TUNNEL_RESPONSE, KNX_ROUTING_INDICATION
  <2>3. PayloadParse(service, g \o r) = knx_tunnel_request_parse(g \o r)
        /\ Known(service, p) = [p EXCEPT !.data.ldata.tpdu = KnownTpdu(@)]
    BY <1>10 DEF PayloadParse, Known, HostServices, StatusHostServices, StatusServices, KNX_SEARCH_REQUEST,
          KNX_DESCRIPTION_REQUEST, KNX_DESCRIPTION_RESPONSE, KNX_CONNECTION_REQUEST,
          KNX_CONNECTION_RESPONSE, KNX_CONNECTION_STATE_REQUEST,
          KNX_CONNECTION_STATE_RESPONSE, KNX_DISCONNECT_REQUEST, KNX_DISCONNECT_RESPONSE,
          KNX_TUNNEL_REQUEST, KNX_TUNNEL_RESPONSE, KNX_ROUTING_INDICATION
  <2>4. g \in Seq(Octet) /\ knx_tunnel_request_size(p) \in Nat /\ knx_tunnel_request_size(p) <= 704 /\ Sized(g, knx_tunnel_request_size(p) - 1)
        /\ knx_tunnel_request_parse(g \o r) = Valid([p EXCEPT !.data.ldata.tpdu = KnownTpdu(@)])
    <3>2. g \in Seq(Octet) /\ knx_tunnel_request_size(p) \in Nat /\ knx_tunnel_request_size(p) <= 704 /\ Sized(g, knx_tunnel_request_size(p) - 1)
          /\ knx_tunnel_request_parse(g \o r) = Valid([p EXCEPT !.data.ldata.tpdu = KnownTpdu(@)])
      <4>1. knx_tunnel_request_generate(p) \in Seq(Octet) /\ knx_tunnel_request_size(p) \in Nat /\ knx_tunnel_request_size(p) <= 704
        BY <2>1, TunnelRequestKept, ZenonT(60)
      <4>2. Sized(knx_tunnel_request_generate(p), knx_tunnel_request_size(p) - 1)
        BY <2>1, TunnelRequestKept, Zenon
      <4>3. knx_tunnel_request_parse(knx_tunnel_request_generate(p) \o r) = Valid([p EXCEPT !.data.ldata.tpdu = KnownTpdu(@)])
        BY <2>1, TunnelRequestKept, Zenon
      <4> QED BY <2>2, <4>1, <4>2, <4>3, Zenon
    <3> QED BY <3>2
  <2>7. service # KNX_SEARCH_REQUEST => PayloadParse(service, g \o r) = Valid(Known(service, p))
    BY <2>3, <2>4, Zenon
  <2>8. 1 \in Nat
    OBVIOUS
  <2> QED BY <1>1, <2>1, <2>4, <2>7, <2>8, Zenon DEF g, m, s
<1>11. CASE service = KNX_TUNNEL_RESPONSE
  <2>1. p \in [channel : Octet, seq : Octet, status : Octet] /\ m = 4 /\ s = 0
    BY <1>11 DEF m, s, KnxPayloads, PayloadGenerate, knx_payload_size, KNX_HOST_INFO_SIZE, Spare, Framed,
          HostServices, StatusHostServices, StatusServices, KNX_SEARCH_REQUEST,
          KNX_DESCRIPTION_REQUEST, KNX_DESCRIPTION_RESPONSE, KNX_CONNECTION_REQUEST,
          KNX_CONNECTION_RESPONSE, KNX_CONNECTION_STATE_REQUEST,
          KNX_CONNECTION_STATE_RESPONSE, KNX_DISCONNECT_REQUEST, KNX_DISCONNECT_RESPONSE,
          KNX_TUNNEL_REQUEST, KNX_TUNNEL_RESPONSE, KNX_ROUTING_INDICATION
  <2>2. g = knx_tunnel_response_generate(p)
    BY <1>11 DEF g, PayloadGenerate, HostServices, StatusHostServices, StatusServices, KNX_SEARCH_REQUEST,
          KNX_DESCRIPTION_REQUEST, KNX_DESCRIPTION_RESPONSE, KNX_CONNECTION_REQUEST,
          KNX_CONNECTION_RESPONSE, KNX_CONNECTION_STATE_REQUEST,
          KNX_CONNECTION_STATE_RESPONSE, KNX_DISCONNECT_REQUEST, KNX_DISCONNECT_RESPONSE,
          KNX_TUNNEL_REQUEST, KNX_TUNNEL_RESPONSE, KNX_ROUTING_INDICATION
  <2>3. PayloadParse(service, g \o r) = knx_tunnel_response_parse(g \o r)
        /\ Known(service, p) = p
    BY <1>11 DEF PayloadParse, Known, HostServices, StatusHostServices, StatusServices, KNX_SEARCH_REQUEST,
          KNX_DESCRIPTION_REQUEST, KNX_DESCRIPTION_RESPONSE, KNX_CONNECTION_REQUEST,
          KNX_CONNECTION_RESPONSE, KNX_CONNECTION_STATE_REQUEST,
          KNX_CONNECTION_STATE_RESPONSE, KNX_DISCONNECT_REQUEST, KNX_DISCONNECT_RESPONSE,
          KNX_TUNNEL_REQUEST, KNX_TUNNEL_RESPONSE, KNX_ROUTING_INDICATION
  <2>4. g \in Seq(Octet) /\ Sized(g, 4)
        /\ knx_tunnel_response_parse(g) = Valid(p)
    BY <2>1, <2>2, TunnelResponseKept, Zenon
  <2>6. g \o r = g /\ 4 \in Nat /\ 4 <= 704 /\ Sized(g, 4 - 0)
    <3>1. Sized(r, 0)
      BY <2>1, Zenon DEF s
    <3>2. 4 \in Nat /\ 4 <= 704 /\ 4 - 0 = 4
      BY DEF knx_connection_response_size
    <3> QED BY <2>4, <3>1, <3>2, SpareIs, Zenon
  <2>7. service # KNX_SEARCH_REQUEST => PayloadParse(service, g \o r) = Valid(Known(service, p))
    BY <2>3, <2>4, <2>6, Zenon
  <2>8. 0 \in Nat
    OBVIOUS
  <2> QED BY <1>1, <2>1, <2>4, <2>6, <2>7, <2>8, ZenonT(60) DEF g, m, s
<1>12. CASE service = KNX_ROUTING_INDICATION
  <2>1. p \in [data : KnxCemis] /\ m = knx_cemi_size(p.data) /\ s = 1
    BY <1>12 DEF m, s, KnxPayloads, PayloadGenerate, knx_payload_size, KNX_HOST_INFO_SIZE, Spare, Framed,
          HostServices, StatusHostServices, StatusServices, KNX_SEARCH_REQUEST,
          KNX_DESCRIPTION_REQUEST, KNX_DESCRIPTION_RESPONSE, KNX_CONNECTION_REQUEST,
          KNX_CONNECTION_RESPONSE, KNX_CONNECTION_STATE_REQUEST,
          KNX_CONNECTION_STATE_RESPONSE, KNX_DISCONNECT_REQUEST, KNX_DISCONNECT_RESPONSE,
          KNX_TUNNEL_REQUEST, KNX_TUNNEL_RESPONSE, KNX_ROUTING_INDICATION
  <2>2. g = knx_routing_indication_generate(p)
    BY <1>12 DEF g, PayloadGenerate, HostServices, StatusHostServices, StatusServices, KNX_SEARCH_REQUEST,
          KNX_DESCRIPTION_REQUEST, KNX_DESCRIPTION_RESPONSE, KNX_CONNECTION_REQUEST,
          KNX_CONNECTION_RESPONSE, KNX_CONNECTION_STATE_REQUEST,
          KNX_CONNECTION_STATE_RESPONSE, KNX_DISCONNECT_REQUEST, KNX_DISCONNECT_RESPONSE,
          KNX_TUNNEL_REQUEST, KNX_TUNNEL_RESPONSE, KNX_ROUTING_INDICATION
  <2>3. PayloadParse(service, g \o r) = knx_routing_indication_parse(g \o r)
        /\ Known(service, p) = [p EXCEPT !.data.ldata.tpdu = KnownTpdu(@)]
    BY <1>12 DEF PayloadParse, Known, HostServices, StatusHostServices, StatusServices, KNX_SEARCH_REQUEST,
          KNX_DESCRIPTION_REQUEST, KNX_DESCRIPTION_RESPONSE, KNX_CONNECTION_REQUEST,
          KNX_CONNECTION_RESPONSE, KNX_CONNECTION_STATE_REQUEST,
          KNX_CONNECTION_STATE_RESPONSE, KNX_DISCONNECT_REQUEST, KNX_DISCONNECT_RESPONSE,
          KNX_TUNNEL_REQUEST, KNX_TUNNEL_RESPONSE, KNX_ROUTING_INDICATION
  <2>4. g \in Seq(Octet) /\ knx_cemi_size(p.data) \in Nat /\ knx_cemi_size(p.data) <= 704 /\ Sized(g, knx_cemi_size(p.data) - 1)
        /\ knx_routing_indication_parse(g \o r) = Valid([p EXCEPT !.data.ldata.tpdu = KnownTpdu(@)])
    <3>2. g \in Seq(Octet) /\ knx_cemi_size(p.data) \in Nat /\ knx_cemi_size(p.data) <= 700 /\ Sized(g, knx_cemi_size(p.data) - 1)
          /\ knx_routing_indication_parse(g \o r) = Valid([p EXCEPT !.data.ldata.tpdu = KnownTpdu(@)])
      <4>1. knx_routing_indication_generate(p) \in Seq(Octet) /\ knx_cemi_size(p.data) \in Nat /\ knx_cemi_size(p.data) <= 700
        BY <2>1, RoutingIndicationKept, ZenonT(60)
      <4>2. Sized(knx_routing_indication_generate(p), knx_cemi_size(p.data) - 1)
        BY <2>1, RoutingIndicationKept, Zenon
      <4>3. knx_routing_indication_parse(knx_routing_indication_generate(p) \o r) = Valid([p EXCEPT !.data.ldata.tpdu = KnownTpdu(@)])
        BY <2>1, RoutingIndicationKept, Zenon
      <4> QED BY <2>2, <4>1, <4>2, <4>3, Zenon
    <3> QED BY <3>2
  <2>7. service # KNX_SEARCH_REQUEST => PayloadParse(service, g \o r) = Valid(Known(service, p))
    BY <2>3, <2>4, Zenon
  <2>8. 1 \in Nat
    OBVIOUS
  <2> QED BY <1>1, <2>1, <2>4, <2>7, <2>8, Zenon DEF g, m, s
<1> QED BY <1>2, <1>3, <1>4, <1>5, <1>6, <1>7, <1>8, <1>9, <1>10, <1>11, <1>12, AnyService, Zenon DEF g, m, s

-----------------------------------------------------------------------------
(* Packets.                                                                *)

(* A header is six octets.                                                 *)
LEMMA HeaderGenerated ==
    ASSUME NEW service \in Word, NEW n \in Nat, n <= 1000
    PROVE  /\ knx_header_generate(service, n) \in Seq(Octet)
           /\ Sized(knx_header_generate(service, n), 6)
           /\ knx_header_generate(service, n)[1] = 6
           /\ knx_header_generate(service, n)[2] = 16
           /\ From16(knx_header_generate(service, n), 3) = service
           /\ From16(knx_header_generate(service, n), 5) = n + 6
<1> DEFINE w == n + 6
           l == <<6, 16>>
           s == U16(service)
           t == U16(w)
           h == (l \o s) \o t
<1>1. w \in Word
  BY DEF Word
<1>2. knx_header_generate(service, n) = h
  <2>1. ~(n > 65535 - KNX_HEADER_SIZE)
    BY DEF KNX_HEADER_SIZE
  <2> QED BY <2>1 DEF knx_header_generate, KNX_HEADER_SIZE
<1>3. /\ s \in Seq(Octet) /\ Sized(s, 2) /\ s[1] * 256 + s[2] = service
      /\ t \in Seq(Octet) /\ Sized(t, 2) /\ t[1] * 256 + t[2] = w
  <2> HIDE DEF w
  <2> QED BY <1>1, U16Octets, Zenon
<1>4. l \in Seq(Octet) /\ Sized(l, 2) /\ l[1] = 6 /\ l[2] = 16
  BY DEF Octet, Sized
<1> HIDE DEF w, s, t, l
<1>5. /\ h \in Seq(Octet) /\ Sized(h, 6) /\ h[1] = 6 /\ h[2] = 16
      /\ h[3] = s[1] /\ h[4] = s[2] /\ h[5] = t[1] /\ h[6] = t[2]
  <2>1. l \in Seq(Octet) /\ s \in Seq(Octet) /\ t \in Seq(Octet)
    BY <1>3, <1>4
  <2>2. Sized(l, 2) /\ Sized(s, 2) /\ Sized(t, 2) /\ l[1] = 6 /\ l[2] = 16
    BY <1>3, <1>4
  <2> QED BY <2>1, <2>2 DEF Sized
<1> HIDE DEF h
<1>6. From16(h, 3) = h[3] * 256 + h[4] /\ From16(h, 5) = h[5] * 256 + h[6]
  BY DEF From16
<1>7. From16(h, 3) = service /\ From16(h, 5) = w
  BY <1>3, <1>5, <1>6, Zenon
<1> QED BY <1>2, <1>5, <1>7, Zenon DEF w

(* What lies behind a packet is not looked at.                             *)
LEMMA HeaderParsed ==
    ASSUME NEW service \in Word, NEW n \in Nat, n <= 1000,
           NEW b \in Seq(Cell), Sized(b, n), NEW r \in Seq(Cell)
    PROVE  knx_parse((knx_header_generate(service, n) \o b) \o r) = ParsePacket(service, b)
<1> DEFINE h == knx_header_generate(service, n)
           q == (h \o b) \o r
<1>1. /\ h \in Seq(Octet) /\ Sized(h, 6) /\ h[1] = 6 /\ h[2] = 16
      /\ From16(h, 3) = service /\ From16(h, 5) = n + 6
  BY HeaderGenerated, Zenon
<1>2. h \in Seq(Cell)
  BY <1>1, CellSeq
<1> HIDE DEF h
<1>3. Len(q) >= 6 + n /\ \A i \in 1 .. 6 : q[i] = h[i]
  BY <1>1, <1>2 DEF Sized
<1>4. SubSeq(q, 7, n + 6) = b
  <2>1. 7 \in Nat /\ n + 6 \in Nat /\ Sized(h, 7 - 1) /\ Sized(b, (n + 6) - 7 + 1)
    BY <1>1 DEF Sized
  <2> QED BY <1>2, <2>1, CutMiddle, Zenon
<1> HIDE DEF q
<1>5. q[1] = 6 /\ q[2] = 16 /\ From16(q, 3) = service /\ From16(q, 5) = n + 6
  BY <1>1, <1>3, SMTT(40) DEF From16
<1>6. /\ ~(Len(q) < 6 \/ q[1] # 6 \/ q[2] # 16)
      /\ ~(From16(q, 5) < 6) /\ ~(From16(q, 5) > Len(q))
  BY <1>3, <1>5
<1>7. knx_parse(q) = ParsePacket(From16(q, 3), SubSeq(q, 6 + 1, From16(q, 5)))
  BY <1>6, Zenon DEF knx_parse, KNX_HEADER_SIZE
<1>8. 6 + 1 = 7
  OBVIOUS
<1> QED BY <1>4, <1>5, <1>7, <1>8, Zenon DEF q, h

(* A service fits into its field.                                          *)
LEMMA ServiceIsWord ==
    ASSUME NEW service, NEW p \in KnxPayloads(service)
    PROVE  service \in Word
<1>1. service \in Nat /\ service <= 2000
  BY AnyService DEF KNX_SEARCH_REQUEST,
          KNX_DESCRIPTION_REQUEST, KNX_DESCRIPTION_RESPONSE, KNX_CONNECTION_REQUEST,
          KNX_CONNECTION_RESPONSE, KNX_CONNECTION_STATE_REQUEST,
          KNX_CONNECTION_STATE_RESPONSE, KNX_DISCONNECT_REQUEST, KNX_DISCONNECT_RESPONSE,
          KNX_TUNNEL_REQUEST, KNX_TUNNEL_RESPONSE, KNX_ROUTING_INDICATION
<1> QED BY <1>1 DEF Word

(* Octets that are not written.                                            *)
LEMMA UnwrittensAre ==
    ASSUME NEW n \in Nat
    PROVE  /\ Unwrittens(n) \in Seq(Cell) /\ Sized(Unwrittens(n), n)
           /\ \A i \in 1 .. n : Unwrittens(n)[i] = Unwritten
BY DEF Unwrittens, Cell, Sized

(* A packet is a header, the octets of its payload and the spare octet.    *)
LEMMA PacketLayout ==
    ASSUME NEW service, NEW p \in KnxPayloads(service)
    PROVE  \E h \in Seq(Octet), g \in Seq(Octet), u \in Seq(Cell) :
              /\ Buffer(knx_generate(service, p), 6 + knx_payload_size(service, p))
                 = h \o (g \o u)
              /\ knx_payload_size(service, p) \in Nat /\ knx_payload_size(service, p) <= 704
              /\ h = knx_header_generate(service, knx_payload_size(service, p))
              /\ Sized(h, 6) /\ From16(h, 5) = knx_payload_size(service, p) + 6
              /\ g = PayloadGenerate(service, p)
              /\ u = Unwrittens(Spare(service)) /\ Sized(u, Spare(service))
              /\ Sized(g \o u, knx_payload_size(service, p))
<1> DEFINE k == Spare(service)
           m == knx_payload_size(service, p)
           g == PayloadGenerate(service, p)
           u == Unwrittens(k)
           h == knx_header_generate(service, m)
           w == knx_generate(service, p)
<1>1. k \in Nat
  BY DEF Spare
<1>2. u \in Seq(Cell) /\ Sized(u, k)
  <2> HIDE DEF k
  <2> QED BY <1>1, UnwrittensAre, Zenon
<1>3. g \in Seq(Octet) /\ m \in Nat /\ m <= 704 /\ Sized(g, m - k)
  <2> HIDE DEF u
  <2>1. u \in Seq(Cell) /\ Sized(u, Spare(service))
    BY <1>2
  <2>2. /\ PayloadGenerate(service, p) \in Seq(Octet)
        /\ knx_payload_size(service, p) \in Nat /\ knx_payload_size(service, p) <= 704
        /\ Sized(PayloadGenerate(service, p), knx_payload_size(service, p) - Spare(service))
    <3>1. PayloadGenerate(service, p) \in Seq(Octet)
      BY <2>1, PayloadKept, Zenon
    <3>2. knx_payload_size(service, p) \in Nat
      BY <2>1, PayloadKept, Zenon
    <3>3. knx_payload_size(service, p) <= 704
      BY <2>1, PayloadKept, Zenon
    <3>4. Sized(PayloadGenerate(service, p), knx_payload_size(service, p) - Spare(service))
      BY <2>1, PayloadKept, Zenon
    <3> QED BY <3>1, <3>2, <3>3, <3>4, Zenon
  <2> QED BY <2>2
<1>4. service \in Word
  BY ServiceIsWord
<1>5. h \in Seq(Octet) /\ Sized(h, 6) /\ From16(h, 5) = m + 6
  <2> HIDE DEF m
  <2>1. m <= 1000
    BY <1>3
  <2> QED BY <1>3, <1>4, <2>1, HeaderGenerated, Zenon
<1>6. w = h \o g
  <2>1. h # <<>>
    <3> HIDE DEF h
    <3> QED BY <1>5, EmptySeq DEF Sized
  <2> QED BY <2>1, Zenon DEF knx_generate
<1>7. Buffer(w, 6 + m) = w \o Unwrittens((6 + m) - Len(w))
  <2> HIDE DEF w, m
  <2> QED BY Zenon DEF Buffer
<1> HIDE DEF k, m, g, h, w, u
<1>8. (6 + m) - Len(w) = k
  BY <1>1, <1>3, <1>5, <1>6 DEF Sized
<1>9. (h \o g) \o u = h \o (g \o u)
  <2>1. h \in Seq(Cell) /\ g \in Seq(Cell)
    BY <1>3, <1>5, CellSeq
  <2> QED BY <1>2, <2>1
<1>10. Buffer(w, 6 + m) = h \o (g \o u)
  BY <1>6, <1>7, <1>8, <1>9, Zenon DEF u
<1>11. Sized(g \o u, m)
  BY <1>1, <1>2, <1>3, CellSeq DEF Sized
<1> QED BY <1>2, <1>3, <1>5, <1>10, <1>11, Zenon DEF k, m, g, h, w, u

(* What knx_generate leaves in a buffer of knx_size.                       *)
Packet(service, p) ==
    Buffer(knx_generate(service, p), KNX_HEADER_SIZE + knx_payload_size(service, p))

(* A packet has the size that was asked for, which its header states; only *)
(* the spare octet, the last one, is not written.                          *)
LEMMA PacketIs ==
    ASSUME NEW service, NEW p \in KnxPayloads(service)
    PROVE  LET b == Packet(service, p) IN
           /\ b \in Seq(Cell) /\ Len(b) = 6 + knx_payload_size(service, p)
           /\ From16(b, 5) = Len(b) /\ Len(b) >= 6
           /\ {i \in 1 .. Len(b) : b[i] = Unwritten}
              = IF service \in Framed THEN {Len(b)} ELSE {}
<1> DEFINE b == Packet(service, p)
<1> DEFINE k == Spare(service)
           m == knx_payload_size(service, p)
<1>1. PICK h \in Seq(Octet), g \in Seq(Octet), u \in Seq(Cell) :
         /\ b = h \o (g \o u) /\ m \in Nat /\ Sized(h, 6) /\ From16(h, 5) = m + 6
         /\ u = Unwrittens(k) /\ Sized(u, k) /\ Sized(g \o u, m)
  BY PacketLayout, ZenonT(60) DEF Packet, KNX_HEADER_SIZE
<1>2. k \in Nat /\ k <= 1 /\ (k = 1 <=> service \in Framed)
  BY DEF Spare
<1>3. \A i \in 1 .. k : u[i] = Unwritten
  BY <1>1, <1>2, UnwrittensAre, Zenon
<1> HIDE DEF k, m, b
<1>4. h \in Seq(Cell) /\ g \in Seq(Cell) /\ Len(h) \in Nat /\ Len(g) \in Nat
  BY CellSeq, LenProperties
<1>5. b \in Seq(Cell) /\ Len(b) = 6 + m /\ Len(g) = m - k
  <2>1. /\ b \in Seq(Cell) /\ Len(b) = Len(h) + (Len(g) + Len(u)) /\ Len(u) \in Nat
        /\ Len(g \o u) = Len(g) + Len(u)
    <3>1. /\ h \in Seq(Cell) /\ g \in Seq(Cell) /\ u \in Seq(Cell) /\ b = h \o (g \o u)
      BY <1>1, <1>4
    <3>2. Len(u) \in Nat /\ Len(g \o u) = Len(g) + Len(u) /\ g \o u \in Seq(Cell)
      BY <3>1
    <3> DEFINE x == g \o u
    <3>3. x \in Seq(Cell) /\ b = h \o x
      BY <3>1, <3>2
    <3> HIDE DEF x
    <3>4. b \in Seq(Cell) /\ Len(b) = Len(h) + Len(x)
      BY <3>1, <3>3
    <3> QED BY <3>2, <3>4 DEF x
  <2> DEFINE lh == Len(h)
             lg == Len(g)
             lu == Len(u)
             lb == Len(b)
             lx == Len(g \o u)
  <2>2. /\ lh \in Nat /\ lg \in Nat /\ lu \in Nat /\ lb = lh + (lg + lu) /\ lx = lg + lu
        /\ 6 <= lh /\ lh <= 6 /\ k <= lu /\ lu <= k /\ m <= lx /\ lx <= m
    BY <1>1, <1>4, <2>1 DEF Sized
  <2> HIDE DEF lh, lg, lu, lb, lx
  <2>3. lb = 6 + m /\ lg = m - k
    BY <1>1, <1>2, <2>2
  <2> QED BY <2>1, <2>3 DEF lb, lg
<1>6. b[5] = h[5] /\ b[6] = h[6]
  BY <1>1, <1>4 DEF Sized
<1>7. From16(b, 5) = Len(b)
  BY <1>1, <1>5, <1>6, SMTT(40) DEF From16
<1>8. ASSUME NEW i \in 1 .. Len(b)
      PROVE  b[i] = Unwritten <=> i > Len(b) - k
  <2>1. CASE i <= 6
    <3>1. b[i] = h[i] /\ i \in 1 .. Len(h) /\ ~(i > Len(b) - k)
      BY <1>1, <1>2, <1>4, <1>5, <2>1 DEF Sized
    <3>2. h[i] \in Octet
      BY <3>1, ElementOfSeq
    <3> QED BY <3>1, <3>2, OctetIs DEF Unwritten
  <2>2. CASE i > 6 /\ i <= 6 + Len(g)
    <3>1. b[i] = g[i - 6] /\ i - 6 \in 1 .. Len(g) /\ ~(i > Len(b) - k)
      <4>1. i - 6 \in 1 .. Len(g) /\ ~(i > Len(b) - k)
        BY <1>1, <1>2, <1>4, <1>5, <2>2
      <4>2. b[i] = g[i - 6]
        <5>1. /\ h \in Seq(Cell) /\ g \in Seq(Cell) /\ u \in Seq(Cell) /\ b = h \o (g \o u)
              /\ 6 <= Len(h) /\ Len(h) <= 6
          BY <1>1, <1>4 DEF Sized
        <5>2. i \in Nat /\ i > 6 /\ i <= 6 + Len(g)
          BY <2>2
        <5> HIDE DEF Cell
        <5> QED BY <5>1, <5>2
      <4> QED BY <4>1, <4>2
    <3>2. g[i - 6] \in Octet
      BY <3>1, ElementOfSeq
    <3> QED BY <3>1, <3>2, OctetIs DEF Unwritten
  <2>3. CASE i > 6 + Len(g)
    <3>1. b[i] = u[i - 6 - Len(g)] /\ i - 6 - Len(g) \in 1 .. k /\ i > Len(b) - k
      BY <1>1, <1>2, <1>4, <1>5, <2>3 DEF Sized
    <3> QED BY <1>3, <3>1
  <2> QED BY <1>4, <2>1, <2>2, <2>3
<1>9. {i \in 1 .. Len(b) : b[i] = Unwritten} = IF service \in Framed THEN {Len(b)} ELSE {}
  <2> DEFINE n == Len(b)
  <2>1. n \in Nat /\ n >= 6
    BY <1>1, <1>5
  <2> HIDE DEF n
  <2>2. {i \in 1 .. n : b[i] = Unwritten} = {i \in 1 .. n : i > n - k}
    BY <1>8, Zenon DEF n
  <2>3. {i \in 1 .. n : i > n - k} = IF service \in Framed THEN {n} ELSE {}
    BY <1>2, <2>1
  <2> QED BY <2>2, <2>3, Zenon DEF n
<1>10. Len(b) >= 6
  BY <1>1, <1>5
<1> QED BY <1>5, <1>7, <1>9, <1>10, Zenon DEF m, b

(* Whatever lies behind it, a packet is received as its receiver can know  *)
(* it; of a search request only the service is received.                   *)
LEMMA PacketReceived ==
    ASSUME NEW service, NEW p \in KnxPayloads(service), NEW left \in Seq(Cell)
    PROVE  knx_parse(Packet(service, p) \o left)
           = IF service = KNX_SEARCH_REQUEST THEN NotParsed(service)
             ELSE [ok |-> TRUE, service |-> service, payload |-> Known(service, p)]
<1> DEFINE m == knx_payload_size(service, p)
           k == Spare(service)
           b == Packet(service, p)
<1>1. PICK h \in Seq(Octet), g \in Seq(Octet), u \in Seq(Cell) :
         /\ b = h \o (g \o u) /\ m \in Nat /\ m <= 704
         /\ h = knx_header_generate(service, m) /\ g = PayloadGenerate(service, p)
         /\ Sized(u, k) /\ Sized(g \o u, m)
  BY PacketLayout, ZenonT(60) DEF Packet, KNX_HEADER_SIZE
<1>2. service # KNX_SEARCH_REQUEST => PayloadParse(service, g \o u) = Valid(Known(service, p))
  <2>1. Sized(u, Spare(service))
    BY <1>1
  <2>2. service # KNX_SEARCH_REQUEST =>
           PayloadParse(service, PayloadGenerate(service, p) \o u) = Valid(Known(service, p))
    BY <2>1, PayloadKept, ZenonT(60)
  <2> QED BY <1>1, <2>2, Zenon
<1> HIDE DEF b
<1> DEFINE x == g \o u
<1>3. knx_parse(b \o left) = ParsePacket(service, x)
  <2> HIDE DEF m
  <2>1. service \in Word /\ m <= 1000 /\ x \in Seq(Cell) /\ Sized(x, m)
    BY <1>1, ServiceIsWord, CellSeq
  <2>2. knx_parse((knx_header_generate(service, m) \o x) \o left) = ParsePacket(service, x)
    <3> HIDE DEF x
    <3> QED BY <1>1, <2>1, HeaderParsed, Zenon
  <2> QED BY <1>1, <2>2, Zenon
<1> HIDE DEF x, m, k
<1>4. CASE service = KNX_SEARCH_REQUEST
  <2>1. PayloadParse(service, x) = [ok |-> FALSE]
    BY <1>4 DEF PayloadParse, Invalid, KNX_SEARCH_REQUEST,
          KNX_DESCRIPTION_REQUEST, KNX_DESCRIPTION_RESPONSE, KNX_CONNECTION_REQUEST,
          KNX_CONNECTION_RESPONSE, KNX_CONNECTION_STATE_REQUEST,
          KNX_CONNECTION_STATE_RESPONSE, KNX_DISCONNECT_REQUEST, KNX_DISCONNECT_RESPONSE,
          KNX_TUNNEL_REQUEST, KNX_TUNNEL_RESPONSE, KNX_ROUTING_INDICATION
  <2>2. "value" \notin DOMAIN [ok |-> FALSE]
    OBVIOUS
  <2>3. ParsePacket(service, x) = NotParsed(service)
    BY <2>1, <2>2, Zenon DEF ParsePacket
  <2> QED BY <1>3, <1>4, <2>3, Zenon DEF b
<1>5. CASE service # KNX_SEARCH_REQUEST
  <2> DEFINE v == Known(service, p)
             r == PayloadParse(service, x)
  <2>1. r = Valid(v)
    BY <1>2, <1>5, Zenon DEF x
  <2>2. "value" \in DOMAIN r /\ r.ok = TRUE /\ r.value = v
    <3> HIDE DEF v, r
    <3> QED BY <2>1 DEF Valid
  <2>3. ParsePacket(service, x) = [ok |-> r.ok, service |-> service, payload |-> r.value]
    BY <2>2, Zenon DEF ParsePacket
  <2> QED BY <1>3, <1>5, <2>2, <2>3, Zenon DEF b
<1> QED BY <1>4, <1>5

-----------------------------------------------------------------------------
(* Recorded requests: the octets of a data unit are what the library would *)
(* generate for some, whose payload has the apci in its high bits.         *)

(* What the library makes of one octet of transport control.               *)
LEMMA ControlRead ==
    ASSUME NEW q \in Seq(Octet), Sized(q, 1), q[1] >= 128
    PROVE  \E t \in KnxTpdus :
              /\ knx_tpdu_generate(t) = q /\ knx_tpdu_size(t) = Len(q) /\ KnownTpdu(t) = t
<1> DEFINE a == q[1]
           c == a \div 64
           s == (a \div 4) % 16
           k == a % 4
           t == [tpci |-> c, seq |-> s, control |-> k]
<1>1. 1 \in 1 .. Len(q)
  BY DEF Sized
<1>2. a \in Octet /\ q = <<a>>
  <2>1. a \in Octet
    BY <1>1, ElementOfSeq
  <2> DEFINE g == <<a>>
  <2>2. g \in Seq(Octet) /\ Sized(g, 1) /\ g[1] = a
    BY <2>1 DEF Sized
  <2> HIDE DEF g
  <2>3. Len(g) = Len(q)
    BY <2>2, LenProperties DEF Sized
  <2>4. \A i \in 1 .. Len(q) : q[i] = g[i]
    BY <2>2 DEF Sized
  <2>5. q = g
    BY <2>2, <2>3, <2>4, SeqEqual
  <2> QED BY <2>1, <2>5 DEF g
<1>3. a \in Nat /\ a <= 255 /\ a >= 128
  BY <1>2, OctetIs
<1> HIDE DEF a
<1>4. /\ c \in {2, 3} /\ s \in 0 .. 15 /\ k \in 0 .. 3
      /\ c * 64 + (s % 16) * 4 + (k % 4) = a
  BY <1>3
<1> HIDE DEF c, s, k
<1>5. t \in [tpci : {2, 3}, seq : 0 .. 15, control : 0 .. 3]
  BY <1>4
<1>6. t.tpci = c /\ t.seq = s /\ t.control = k /\ IsControl(c)
  BY <1>4 DEF IsControl
<1> HIDE DEF t
<1>7. knx_tpdu_generate(t) = <<a>>
  <2>1. knx_tpdu_generate(t) = <<c * 64 + (s % 16) * 4 + (k % 4)>>
    BY <1>6, Zenon DEF knx_tpdu_generate
  <2> QED BY <1>4, <2>1, Zenon
<1>8. KnownTpdu(t) = t
  BY <1>6, Zenon DEF KnownTpdu
<1>9. knx_tpdu_size(t) = 1
  BY <1>6, Zenon DEF knx_tpdu_size
<1>10. Len(q) = 1
  <2> DEFINE n == Len(q)
  <2>1. n \in Nat /\ 1 <= n /\ n <= 1
    BY LenProperties DEF Sized
  <2> HIDE DEF n
  <2>2. n = 1
    BY <2>1
  <2> QED BY <2>2 DEF n
<1>11. t \in KnxTpdus
  BY <1>5, Zenon DEF KnxTpdus
<1> QED BY <1>2, <1>7, <1>8, <1>9, <1>10, <1>11, Zenon

(* What it makes of octets of data.                                        *)
LEMMA DataRead ==
    ASSUME NEW q \in Seq(Octet), 2 <= Len(q), Len(q) <= 256, q[1] <= 127
    PROVE  \E t \in KnxTpdus :
              /\ knx_tpdu_generate(t) = q /\ knx_tpdu_size(t) = Len(q) /\ KnownTpdu(t) = t
<1> DEFINE a == q[1]
           b == q[2]
           p == Tail(q)
           c == a \div 64
           s == (a \div 4) % 16
           k == (a % 4) * 4 + (b \div 64)
           t == [tpci |-> c, seq |-> s, apci |-> k, payload |-> p]
<1>1. Len(q) \in Nat /\ 1 \in 1 .. Len(q) /\ 2 \in 1 .. Len(q) /\ q # <<>>
  BY LenProperties, EmptySeq
<1>2. a \in Octet /\ b \in Octet
  BY <1>1, ElementOfSeq
<1>3. a \in Nat /\ a <= 127 /\ b \in Nat /\ b <= 255
  BY <1>2, OctetIs
<1>4. /\ p \in Seq(Octet) /\ Len(p) = Len(q) - 1
      /\ \A i \in 1 .. Len(p) : p[i] = q[i + 1]
  BY <1>1, HeadTailProperties
<1> HIDE DEF a, b, p
<1>5. p[1] = b /\ 1 <= Len(p) /\ Len(p) <= 255 /\ p # <<>>
  BY <1>1, <1>4, EmptySeq DEF b
<1>6. /\ c \in {0, 1} /\ s \in 0 .. 15 /\ k \in 0 .. 15
      /\ c * 64 + (s % 16) * 4 + (k \div 4) = a
      /\ (b % 64) + (k % 4) * 64 = b /\ (b % 64) + 64 * (k % 4) = b
  <2> DEFINE x == a % 4
             y == b \div 64
             z == b % 64
  <2>1. x \in 0 .. 3 /\ y \in 0 .. 3 /\ z \in 0 .. 63 /\ b = y * 64 + z
    BY <1>3
  <2>2. c \in {0, 1} /\ s \in 0 .. 15 /\ s % 16 = s /\ c * 64 + s * 4 + x = a
    BY <1>3
  <2>3. k = x * 4 + y
    OBVIOUS
  <2> HIDE DEF x, y, z, c, s, k
  <2>4. k \in 0 .. 15 /\ k \div 4 = x /\ k % 4 = y
    BY <2>1, <2>3
  <2> QED BY <1>3, <2>1, <2>2, <2>4 DEF z
<1> HIDE DEF c, s, k
<1>7. t \in [tpci : {0, 1}, seq : 0 .. 15, apci : 0 .. 15, payload : OctetsFrom(1)]
  <2>1. p \in OctetsFrom(1)
    BY <1>4, <1>5 DEF OctetsFrom
  <2> QED BY <1>6, <2>1
<1>8. t.tpci = c /\ t.seq = s /\ t.apci = k /\ t.payload = p /\ ~IsControl(c)
  BY <1>6 DEF IsControl
<1>9. [t EXCEPT !.payload[1] = (@ % 64) + 64 * (t.apci % 4)]
      = [tpci |-> c, seq |-> s, apci |-> k,
         payload |-> [p EXCEPT ![1] = (p[1] % 64) + 64 * (k % 4)]]
  OBVIOUS
<1>10. [p EXCEPT ![1] = (p[1] % 64) + 64 * (k % 4)] = p
  <2>1. (p[1] % 64) + 64 * (k % 4) = p[1]
    BY <1>5, <1>6, Zenon
  <2> DEFINE v == (p[1] % 64) + 64 * (k % 4)
  <2> HIDE DEF v
  <2>2. [p EXCEPT ![1] = v] = p
    BY <1>4, <1>5, <2>1 DEF v
  <2> QED BY <2>2 DEF v
<1>11. KnownTpdu(t) = t
  <2>1. KnownTpdu(t) = [t EXCEPT !.payload[1] = (@ % 64) + 64 * (t.apci % 4)]
    BY <1>8, Zenon DEF KnownTpdu
  <2> QED BY <1>9, <1>10, <2>1, Zenon
<1> HIDE DEF t
<1>12. knx_tpdu_generate(t) = <<a, b>> \o Tail(p)
  <2>1. knx_tpdu_generate(t)
        = <<c * 64 + (s % 16) * 4 + (k \div 4), (p[1] % 64) + (k % 4) * 64>> \o Tail(p)
    BY <1>8, Zenon DEF knx_tpdu_generate
  <2> QED BY <1>5, <1>6, <2>1, Zenon
<1>13. <<a, b>> \o Tail(p) = q
  <2> DEFINE g == <<a, b>> \o Tail(p)
  <2>1. /\ g \in Seq(Octet) /\ Len(g) = Len(p) + 1 /\ g[1] = a /\ g[2] = b
        /\ Tail(g) = [p EXCEPT ![1] = b]
    <3>1. g = <<a, b>> \o Tail(p)
      OBVIOUS
    <3> HIDE DEF g
    <3> QED BY <1>2, <1>4, <1>5, <3>1, FirstReplaced
  <2>2. \A i \in 1 .. Len(p) - 1 : g[i + 2] = Tail(p)[i] /\ Tail(p)[i] = p[i + 1]
    <3> DEFINE u == Tail(p)
    <3>1. u \in Seq(Octet) /\ Len(u) = Len(p) - 1 /\ \A i \in 1 .. Len(u) : u[i] = p[i + 1]
      BY <1>4, <1>5, HeadTailProperties
    <3> HIDE DEF u
    <3>2. <<a, b>> \in Seq(Octet) /\ g = <<a, b>> \o u
      BY <1>2 DEF u
    <3>3. \A i \in 1 .. Len(p) - 1 : g[i + 2] = u[i] /\ u[i] = p[i + 1]
      BY <1>4, <3>1, <3>2
    <3> QED BY <3>3 DEF u
  <2> HIDE DEF g
  <2>3. Len(g) = Len(q)
    BY <1>1, <1>4, <2>1
  <2>4. ASSUME NEW i \in 1 .. Len(q) PROVE g[i] = q[i]
    <3>1. CASE i = 1
      BY <2>1, <3>1 DEF a
    <3>2. CASE i = 2
      BY <2>1, <3>2 DEF b
    <3>3. CASE i > 2
      <4> DEFINE j == i - 2
      <4>1. j \in 1 .. Len(p) - 1 /\ i = j + 2 /\ j + 1 \in 1 .. Len(p) /\ (j + 1) + 1 = i
        BY <1>1, <1>4, <3>3
      <4> HIDE DEF j
      <4>2. g[i] = p[j + 1]
        BY <2>2, <4>1
      <4>3. p[j + 1] = q[i]
        BY <1>4, <4>1
      <4> QED BY <4>2, <4>3
    <3> QED BY <1>1, <3>1, <3>2, <3>3
  <2>5. g = q
    BY <2>1, <2>3, <2>4, SeqEqual
  <2> QED BY <2>5 DEF g
<1>14. knx_tpdu_size(t) = Len(q)
  <2>1. knx_tpdu_size(t) = IF Len(p) + 1 > 2 THEN Len(p) + 1 ELSE 2
    BY <1>8, Zenon DEF knx_tpdu_size
  <2> QED BY <1>1, <1>4, <2>1
<1>15. t \in KnxTpdus
  BY <1>7, Zenon DEF KnxTpdus
<1> QED BY <1>11, <1>12, <1>13, <1>14, <1>15, Zenon

(* The octets of a recorded data unit: one for control, two or more else.  *)
DataUnit(t) ==
    /\ t \in Seq(Octet)
    /\ \/ Sized(t, 1) /\ t[1] >= 128
       \/ 2 <= Len(t) /\ Len(t) <= 256 /\ t[1] <= 127

(* Two octets are what is written for the number they make.                *)
LEMMA U16Back ==
    ASSUME NEW a \in Octet, NEW b \in Octet
    PROVE  a * 256 + b \in Word /\ U16(a * 256 + b) = <<a, b>>
<1> DEFINE w == a * 256 + b
<1>1. a \in Nat /\ a <= 255 /\ b \in Nat /\ b <= 255
  BY OctetIs
<1>2. w \in Nat /\ w < 256 * 256 /\ (w \div 256) % 256 = a /\ w % 256 = b
  BY <1>1
<1> HIDE DEF w
<1>3. w \in Word
  BY <1>2 DEF Word
<1>4. U16(w) = <<a, b>>
  BY <1>2, Zenon DEF U16
<1> QED BY <1>3, <1>4 DEF w

(* The first control octet says whether the frame is a standard one.       *)
FirstControl(t) == IF Len(t) <= 16 THEN 176 ELSE 48

(* The second one: hops, and a group or an individual address.             *)
SecondControls == {96, 224}

(* The L_Data frame of a recorded request is one that the library would    *)
(* generate.                                                               *)
LEMMA FrameRead ==
    ASSUME NEW t, DataUnit(t), NEW c2 \in SecondControls, NEW a \in Octet, NEW b \in Octet
    PROVE  \E d \in KnxLDatas :
              /\ KnownTpdu(d.tpdu) = d.tpdu
              /\ knx_ldata_generate(d)
                 = (((<<FirstControl(t), c2>> \o <<0, 0>>) \o <<a, b>>) \o <<Len(t) - 1>>) \o t
<1>1. PICK u \in KnxTpdus :
         knx_tpdu_generate(u) = t /\ knx_tpdu_size(u) = Len(t) /\ KnownTpdu(u) = u
  <2>1. t \in Seq(Octet)
    BY DEF DataUnit
  <2>2. CASE Sized(t, 1) /\ t[1] >= 128
    BY <2>1, <2>2, ControlRead, Zenon
  <2>3. CASE 2 <= Len(t) /\ Len(t) <= 256 /\ t[1] <= 127
    BY <2>1, <2>3, DataRead, Zenon
  <2> QED BY <2>2, <2>3 DEF DataUnit
<1> DEFINE x == IF c2 = 224 THEN 1 ELSE 0
           e == [repeat |-> FALSE, systemBroadcast |-> FALSE, priority |-> 0,
                 requestAck |-> FALSE, error |-> FALSE]
           g == [addressType |-> x, hops |-> 6]
           w == a * 256 + b
           d == [control1 |-> e, control2 |-> g, source |-> 0, destination |-> w, tpdu |-> u]
           n == Len(t)
           c1 == FirstControl(t)
<1>2. n \in Nat /\ n <= 256
  BY DEF DataUnit, Sized
<1>3. w \in Word /\ U16(w) = <<a, b>>
  BY U16Back
<1>4. 0 \in Word /\ U16(0) = <<0, 0>>
  BY DEF Word, U16
<1>5. e \in Control1s /\ g \in Control2s
  BY DEF Control1s, Control2s
<1>6. /\ Flag(n <= 16) * 128 + Flag(~e.repeat) * 32 + Flag(~e.systemBroadcast) * 16
           + e.priority * 4 + Flag(e.requestAck) * 2 + Flag(e.error) = c1
      /\ g.addressType * 128 + (g.hops % 8) * 16 = c2
  <2>1. /\ Flag(~e.repeat) = 1 /\ Flag(~e.systemBroadcast) = 1 /\ e.priority = 0
        /\ Flag(e.requestAck) = 0 /\ Flag(e.error) = 0
    BY DEF Flag
  <2>2. g.addressType = x /\ g.hops = 6
    OBVIOUS
  <2>3. Flag(n <= 16) * 128 + 1 * 32 + 1 * 16 + 0 * 4 + 0 * 2 + 0 = c1
    BY <1>2 DEF Flag, FirstControl
  <2>4. x * 128 + (6 % 8) * 16 = c2
    BY DEF SecondControls
  <2> HIDE DEF e, g, x, n
  <2> QED BY <2>1, <2>2, <2>3, <2>4, Zenon
<1> HIDE DEF e, g, w, n, c1
<1>7. d \in KnxLDatas
  BY <1>3, <1>4, <1>5 DEF KnxLDatas
<1>8. /\ d.control1 = e /\ d.control2 = g /\ d.source = 0 /\ d.destination = w
      /\ d.tpdu = u
  OBVIOUS
<1> HIDE DEF d
<1>9. knx_ldata_generate(d) = (((<<c1, c2>> \o <<0, 0>>) \o <<a, b>>) \o <<n - 1>>) \o t
  <2> DEFINE m == knx_tpdu_size(d.tpdu)
  <2>1. m = n
    BY <1>1, <1>8, Zenon DEF n
  <2>2. ~(m > 256)
    BY <1>2, <2>1
  <2>3. knx_ldata_generate(d)
        = << Flag(m <= 16) * 128 + Flag(~d.control1.repeat) * 32
               + Flag(~d.control1.systemBroadcast) * 16 + d.control1.priority * 4
               + Flag(d.control1.requestAck) * 2 + Flag(d.control1.error),
             d.control2.addressType * 128 + (d.control2.hops % 8) * 16 >>
          \o U16(d.source) \o U16(d.destination) \o <<m - 1>>
          \o knx_tpdu_generate(d.tpdu)
    BY <2>2, Zenon DEF knx_ldata_generate
  <2> HIDE DEF m
  <2> DEFINE x1 == Flag(m <= 16) * 128 + Flag(~d.control1.repeat) * 32
                     + Flag(~d.control1.systemBroadcast) * 16 + d.control1.priority * 4
                     + Flag(d.control1.requestAck) * 2 + Flag(d.control1.error)
             x2 == d.control2.addressType * 128 + (d.control2.hops % 8) * 16
  <2>4. x1 = c1
    BY <1>6, <1>8, <2>1, Zenon
  <2>5. x2 = c2
    BY <1>6, <1>8, Zenon
  <2>6. knx_ldata_generate(d)
        = <<x1, x2>> \o U16(d.source) \o U16(d.destination) \o <<m - 1>>
          \o knx_tpdu_generate(d.tpdu)
    BY <2>3, Zenon
  <2> HIDE DEF x1, x2
  <2>7. /\ U16(d.source) = <<0, 0>> /\ U16(d.destination) = <<a, b>>
        /\ knx_tpdu_generate(d.tpdu) = t
    BY <1>1, <1>3, <1>4, <1>8, Zenon
  <2> QED BY <2>1, <2>4, <2>5, <2>6, <2>7, Zenon
<1>10. KnownTpdu(d.tpdu) = d.tpdu
  BY <1>1, <1>8, Zenon
<1> QED BY <1>7, <1>9, <1>10, Zenon DEF n, c1

PeerBody(channel, seq, c1, c2, a, b, count, t) ==
    <<4, channel, seq, 0>> \o ((<<17, 0>> \o <<>>) \o
         ((((<<c1, c2>> \o <<0, 0>>) \o <<a, b>>) \o <<count>>) \o t))

IsRequest(g, channel, seq) ==
    \E p \in [channel : Octet, seq : Octet, data : KnxCemis] :
        /\ p.channel = channel /\ p.seq = seq
        /\ [p EXCEPT !.data.ldata.tpdu = KnownTpdu(@)] = p
        /\ knx_tunnel_request_generate(p) = g

(* The library would generate the body of a recorded request.              *)
LEMMA PeerRead ==
    ASSUME NEW t, DataUnit(t), NEW c2 \in SecondControls, NEW a \in Octet, NEW b \in Octet,
           NEW channel \in Octet, NEW seq \in Octet
    PROVE  IsRequest(PeerBody(channel, seq, FirstControl(t), c2, a, b, Len(t) - 1, t),
                     channel, seq)
<1>1. PICK d \in KnxLDatas :
              /\ KnownTpdu(d.tpdu) = d.tpdu
              /\ knx_ldata_generate(d)
                 = (((<<FirstControl(t), c2>> \o <<0, 0>>) \o <<a, b>>) \o <<Len(t) - 1>>) \o t
  BY FrameRead, Zenon
<1> DEFINE f == [service |-> 17, addInfo |-> <<>>, ldata |-> d]
           p == [channel |-> channel, seq |-> seq, data |-> f]
           k == <<>>
<1>2. k \in OctetsFrom(0) /\ Len(k) = 0
  BY DEF OctetsFrom
<1>3. f \in KnxCemis /\ f.service = 17 /\ f.addInfo = k /\ f.ldata = d
  BY <1>2 DEF KnxCemis, LData
<1>4. [f EXCEPT !.ldata.tpdu = KnownTpdu(@)] = f
  <2>1. [f EXCEPT !.ldata.tpdu = KnownTpdu(@)] = [f EXCEPT !.ldata = [d EXCEPT !.tpdu = KnownTpdu(d.tpdu)]]
    OBVIOUS
  <2>2. [d EXCEPT !.tpdu = KnownTpdu(d.tpdu)] = d
    BY <1>1, LdataFields
  <2>3. [f EXCEPT !.ldata = d] = f
    OBVIOUS
  <2> QED BY <2>1, <2>2, <2>3, Zenon
<1>5. knx_cemi_generate(f) = (<<17, 0>> \o <<>>) \o knx_ldata_generate(d)
  BY <1>2, <1>3, Zenon DEF knx_cemi_generate
<1> HIDE DEF f
<1>6. /\ p \in [channel : Octet, seq : Octet, data : KnxCemis]
      /\ p.channel = channel /\ p.seq = seq /\ p.data = f
  BY <1>3
<1>7. [p EXCEPT !.data.ldata.tpdu = KnownTpdu(@)] = p
  <2>1. [p EXCEPT !.data.ldata.tpdu = KnownTpdu(@)]
        = [channel |-> channel, seq |-> seq, data |-> [f EXCEPT !.ldata.tpdu = KnownTpdu(@)]]
    OBVIOUS
  <2> QED BY <1>4, <2>1
<1> HIDE DEF p
<1>8. knx_tunnel_request_generate(p) = <<4, channel, seq, 0>> \o knx_cemi_generate(f)
  BY <1>6, Zenon DEF knx_tunnel_request_generate
<1>9. knx_tunnel_request_generate(p)
      = PeerBody(channel, seq, FirstControl(t), c2, a, b, Len(t) - 1, t)
  BY <1>1, <1>5, <1>8, Zenon DEF PeerBody
<1> QED BY <1>6, <1>7, <1>9, Zenon DEF IsRequest

(* A recorded tunnelling request.                                          *)
IsPeer(q, t, c2, a, b) ==
    /\ DataUnit(t) /\ Len(t) <= 200
    /\ c2 \in SecondControls /\ a \in Octet /\ b \in Octet
    /\ q = Peer(19 + Len(t), FirstControl(t), c2, <<a, b>>, Len(t) - 1, t)

(* A recorded request, from its parts.                                     *)
LEMMA PeerIs ==
    ASSUME NEW t, DataUnit(t), NEW n \in Nat, n <= 200, Sized(t, n), NEW c2 \in SecondControls,
           NEW a \in Octet, NEW b \in Octet
    PROVE  IsPeer(Peer(19 + n, IF n <= 16 THEN 176 ELSE 48, c2, <<a, b>>, n - 1, t),
                  t, c2, a, b)
<1>1. Len(t) = n
  <2>1. Len(t) \in Nat
    BY LenProperties DEF DataUnit
  <2> DEFINE m == Len(t)
  <2>2. m \in Nat /\ n <= m /\ m <= n
    BY <2>1 DEF Sized
  <2> HIDE DEF m
  <2>3. m = n
    BY <2>2
  <2> QED BY <2>3 DEF m
<1> QED BY <1>1, Zenon DEF IsPeer, FirstControl

(* Octets that are zero.                                                   *)
LEMMA ZerosAre ==
    ASSUME NEW n \in Nat
    PROVE  Zeros(n) \in Seq(Octet) /\ Sized(Zeros(n), n)
BY DEF Zeros, Octet, Sized

AreReplaced(r, q, x, y) ==
    /\ r \in Seq(Octet) /\ Len(r) = Len(q) /\ r[8] = x /\ r[9] = y
    /\ \A i \in 1 .. Len(q) : i # 8 /\ i # 9 => r[i] = q[i]

(* A sequence in which two elements are replaced.                          *)
LEMMA TwoReplaced ==
    ASSUME NEW q \in Seq(Octet), 19 <= Len(q), NEW x \in Octet, NEW y \in Octet
    PROVE  AreReplaced([q EXCEPT ![8] = x, ![9] = y], q, x, y)
<1> DEFINE r == [q EXCEPT ![8] = x, ![9] = y]
<1>1. 8 \in 1 .. Len(q) /\ 9 \in 1 .. Len(q)
  BY LenProperties
<1>2. /\ r \in Seq(Octet) /\ Len(r) = Len(q) /\ r[8] = x /\ r[9] = y
      /\ \A i \in 1 .. Len(q) : i # 8 /\ i # 9 => r[i] = q[i]
  BY <1>1
<1> QED BY <1>2, Zenon DEF AreReplaced

(* The recorded data units.                                                *)
LEMMA ShortUnits ==
    /\ DataUnit(<<1, 0>>) /\ Sized(<<1, 0>>, 2)
    /\ DataUnit(<<0, 192, 17, 1>>) /\ Sized(<<0, 192, 17, 1>>, 4)
    /\ DataUnit(<<128>>) /\ Sized(<<128>>, 1)
    /\ DataUnit(<<67, 0>>) /\ Sized(<<67, 0>>, 2)
    /\ DataUnit(<<71, 213, 0, 11, 16, 1>>) /\ Sized(<<71, 213, 0, 11, 16, 1>>, 6)
    /\ DataUnit(<<75, 128>>) /\ Sized(<<75, 128>>, 2)
    /\ DataUnit(<<129>>) /\ Sized(<<129>>, 1)
    /\ DataUnit(<<75, 209, 0, 255, 255, 255, 255>>) /\ Sized(<<75, 209, 0, 255, 255, 255, 255>>, 7)
    /\ DataUnit(<<91, 128>>) /\ Sized(<<91, 128>>, 2)
    /\ DataUnit(<<71, 213, 0, 56, 16, 1>>) /\ Sized(<<71, 213, 0, 56, 16, 1>>, 6)
    /\ DataUnit(<<75, 215, 0, 54, 16, 1, 1>>) /\ Sized(<<75, 215, 0, 54, 16, 1, 1>>, 7)
    /\ DataUnit(<<75, 215, 0, 54, 16, 1, 0>>) /\ Sized(<<75, 215, 0, 54, 16, 1, 0>>, 7)
    /\ DataUnit(<<79, 213, 0, 54, 16, 1>>) /\ Sized(<<79, 213, 0, 54, 16, 1>>, 6)
BY DEF DataUnit, Sized, Octet

(* The long data units of the recorded requests.                           *)
LEMMA LongUnits ==
    /\ LET t == <<103, 215, 5, 5, 16, 1, 4>> \o Zeros(9) IN DataUnit(t) /\ Sized(t, 16)
    /\ LET t == <<110, 180, 24, 229, 4, 20, 19, 10, 128>> \o Zeros(16) \o <<128>> \o Zeros(17)
           \o <<128, 0, 0, 0, 64, 52, 66, 32, 53, 65, 32, 54, 67>>
       IN  DataUnit(t) /\ Sized(t, 56)
<1> DEFINE z == Zeros(9)
           u == Zeros(16)
           v == Zeros(17)
           w == <<110, 180, 24, 229, 4, 20, 19, 10, 128>>
           x == <<128, 0, 0, 0, 64, 52, 66, 32, 53, 65, 32, 54, 67>>
           y == <<103, 215, 5, 5, 16, 1, 4>>
           k == <<128>>
<1>1. /\ z \in Seq(Octet) /\ Sized(z, 9) /\ u \in Seq(Octet) /\ Sized(u, 16)
      /\ v \in Seq(Octet) /\ Sized(v, 17)
  BY ZerosAre
<1>2. /\ w \in Seq(Octet) /\ Sized(w, 9) /\ w[1] = 110
      /\ x \in Seq(Octet) /\ Sized(x, 13)
      /\ y \in Seq(Octet) /\ Sized(y, 7) /\ y[1] = 103
      /\ k \in Seq(Octet) /\ Sized(k, 1)
  BY DEF Octet, Sized
<1> HIDE DEF z, u, v, w, x, y, k
<1>3. DataUnit(y \o z) /\ Sized(y \o z, 16)
  BY <1>1, <1>2 DEF DataUnit, Sized
<1>4. DataUnit((((w \o u) \o k) \o v) \o x) /\ Sized((((w \o u) \o k) \o v) \o x, 56)
  BY <1>1, <1>2 DEF DataUnit, Sized
<1> QED BY <1>3, <1>4 DEF z, u, v, w, x, y, k

IsRecordedPeer(q) == \E t, c2, a, b : IsPeer(q, t, c2, a, b)

(* Every recorded request but one is a tunnelling request.                 *)
LEMMA RecordedIs ==
    ASSUME NEW q \in Recorded, q # KNXCTunnelRQ_Rs485DevConfigRq
    PROVE  IsRecordedPeer(q)
<1>1. 96 \in SecondControls /\ 224 \in SecondControls
  BY DEF SecondControls
<1>2. 0 \in Octet /\ 17 \in Octet /\ 1 \in Octet
  BY DEF Octet
<1>3. IsRecordedPeer(KNXCTunnelRQ_IndAddrRead_step1)
  <2>1. IsPeer(KNXCTunnelRQ_IndAddrRead_step1, <<1, 0>>, 224, 0, 0)
    BY <1>1, <1>2, ShortUnits, PeerIs DEF KNXCTunnelRQ_IndAddrRead_step1
  <2> QED BY <2>1, Zenon DEF IsRecordedPeer
<1>4. IsRecordedPeer(KNXCTunnelRQ_IndAddrWrite)
  <2>1. IsPeer(KNXCTunnelRQ_IndAddrWrite, <<0, 192, 17, 1>>, 224, 0, 0)
    BY <1>1, <1>2, ShortUnits, PeerIs DEF KNXCTunnelRQ_IndAddrWrite
  <2> QED BY <2>1, Zenon DEF IsRecordedPeer
<1>5. IsRecordedPeer(KNXCTunnelRQ_IndAddrRead_step2)
  <2>1. IsPeer(KNXCTunnelRQ_IndAddrRead_step2, <<1, 0>>, 224, 0, 0)
    BY <1>1, <1>2, ShortUnits, PeerIs DEF KNXCTunnelRQ_IndAddrRead_step2
  <2> QED BY <2>1, Zenon DEF IsRecordedPeer
<1>6. IsRecordedPeer(KNXCTunnelRQ_IndAddrConnect)
  <2>1. IsPeer(KNXCTunnelRQ_IndAddrConnect, <<128>>, 96, 17, 1)
    BY <1>1, <1>2, ShortUnits, PeerIs DEF KNXCTunnelRQ_IndAddrConnect
  <2> QED BY <2>1, Zenon DEF IsRecordedPeer
<1>7. IsRecordedPeer(KNXCTunnelRQ_IndAddrDevDescrRead)
  <2>1. IsPeer(KNXCTunnelRQ_IndAddrDevDescrRead, <<67, 0>>, 96, 17, 1)
    BY <1>1, <1>2, ShortUnits, PeerIs DEF KNXCTunnelRQ_IndAddrDevDescrRead
  <2> QED BY <2>1, Zenon DEF IsRecordedPeer
<1>8. IsRecordedPeer(KNXCTunnelRQ_IndAddrPropValueRead)
  <2>1. IsPeer(KNXCTunnelRQ_IndAddrPropValueRead, <<71, 213, 0, 11, 16, 1>>, 96, 17, 1)
    BY <1>1, <1>2, ShortUnits, PeerIs DEF KNXCTunnelRQ_IndAddrPropValueRead
  <2> QED BY <2>1, Zenon DEF IsRecordedPeer
<1>9. IsRecordedPeer(KNXCTunnelRQ_IndAddrRestart)
  <2>1. IsPeer(KNXCTunnelRQ_IndAddrRestart, <<75, 128>>, 96, 17, 1)
    BY <1>1, <1>2, ShortUnits, PeerIs DEF KNXCTunnelRQ_IndAddrRestart
  <2> QED BY <2>1, Zenon DEF IsRecordedPeer
<1>10. IsRecordedPeer(KNXCTunnelRQ_IndAddrDisconnect)
  <2>1. IsPeer(KNXCTunnelRQ_IndAddrDisconnect, <<129>>, 96, 17, 1)
    BY <1>1, <1>2, ShortUnits, PeerIs DEF KNXCTunnelRQ_IndAddrDisconnect
  <2> QED BY <2>1, Zenon DEF IsRecordedPeer
<1>11. IsRecordedPeer(KNXCTunnelRQ_EditConnect)
  <2>1. IsPeer(KNXCTunnelRQ_EditConnect, <<128>>, 96, 17, 1)
    BY <1>1, <1>2, ShortUnits, PeerIs DEF KNXCTunnelRQ_EditConnect
  <2> QED BY <2>1, Zenon DEF IsRecordedPeer
<1>12. IsRecordedPeer(KNXCTunnelRQ_EditAuthReq)
  <2>1. IsPeer(KNXCTunnelRQ_EditAuthReq, <<75, 209, 0, 255, 255, 255, 255>>, 96, 17, 1)
    BY <1>1, <1>2, ShortUnits, PeerIs DEF KNXCTunnelRQ_EditAuthReq
  <2> QED BY <2>1, Zenon DEF IsRecordedPeer
<1>13. IsRecordedPeer(KNXCTunnelRQ_EditPropValueWrite)
  <2>1. IsPeer(KNXCTunnelRQ_EditPropValueWrite, <<103, 215, 5, 5, 16, 1, 4>> \o Zeros(9), 96, 17, 1)
    BY <1>1, <1>2, LongUnits, PeerIs DEF KNXCTunnelRQ_EditPropValueWrite
  <2> QED BY <2>1, Zenon DEF IsRecordedPeer
<1>14. IsRecordedPeer(KNXCTunnelRQ_EditMemWrite)
  <2>1. IsPeer(KNXCTunnelRQ_EditMemWrite, <<110, 180, 24, 229, 4, 20, 19, 10, 128>> \o Zeros(16) \o <<128>> \o Zeros(17)
           \o <<128, 0, 0, 0, 64, 52, 66, 32, 53, 65, 32, 54, 67>>, 96, 17, 1)
    BY <1>1, <1>2, LongUnits, PeerIs DEF KNXCTunnelRQ_EditMemWrite
  <2> QED BY <2>1, Zenon DEF IsRecordedPeer
<1>15. IsRecordedPeer(KNXCTunnelRQ_EditRestart)
  <2>1. IsPeer(KNXCTunnelRQ_EditRestart, <<91, 128>>, 96, 17, 1)
    BY <1>1, <1>2, ShortUnits, PeerIs DEF KNXCTunnelRQ_EditRestart
  <2> QED BY <2>1, Zenon DEF IsRecordedPeer
<1>16. IsRecordedPeer(KNXCTunnelRQ_Rs485Connect)
  <2>1. IsPeer(KNXCTunnelRQ_Rs485Connect, <<128>>, 96, 17, 1)
    BY <1>1, <1>2, ShortUnits, PeerIs DEF KNXCTunnelRQ_Rs485Connect
  <2> QED BY <2>1, Zenon DEF IsRecordedPeer
<1>17. IsRecordedPeer(KNXCTunnelRQ_Rs485DevDescrRead)
  <2>1. IsPeer(KNXCTunnelRQ_Rs485DevDescrRead, <<67, 0>>, 96, 17, 1)
    BY <1>1, <1>2, ShortUnits, PeerIs DEF KNXCTunnelRQ_Rs485DevDescrRead
  <2> QED BY <2>1, Zenon DEF IsRecordedPeer
<1>18. IsRecordedPeer(KNXCTunnelRQ_Rs485PropValueRead)
  <2>1. IsPeer(KNXCTunnelRQ_Rs485PropValueRead, <<71, 213, 0, 56, 16, 1>>, 96, 17, 1)
    BY <1>1, <1>2, ShortUnits, PeerIs DEF KNXCTunnelRQ_Rs485PropValueRead
  <2> QED BY <2>1, Zenon DEF IsRecordedPeer
<1>19. IsRecordedPeer(KNXCTunnelRQ_Rs485PropValueWrite_open)
  <2>1. IsPeer(KNXCTunnelRQ_Rs485PropValueWrite_open, <<75, 215, 0, 54, 16, 1, 1>>, 96, 17, 1)
    BY <1>1, <1>2, ShortUnits, PeerIs DEF KNXCTunnelRQ_Rs485PropValueWrite_open
  <2> QED BY <2>1, Zenon DEF IsRecordedPeer
<1>20. IsRecordedPeer(KNXCTunnelRQ_Rs485PropValueWrite_close)
  <2>1. IsPeer(KNXCTunnelRQ_Rs485PropValueWrite_close, <<75, 215, 0, 54, 16, 1, 0>>, 96, 17, 1)
    BY <1>1, <1>2, ShortUnits, PeerIs DEF KNXCTunnelRQ_Rs485PropValueWrite_close
  <2> QED BY <2>1, Zenon DEF IsRecordedPeer
<1>21. IsRecordedPeer(KNXCTunnelRQ_Rs485PropValueRead_step2)
  <2>1. IsPeer(KNXCTunnelRQ_Rs485PropValueRead_step2, <<79, 213, 0, 54, 16, 1>>, 96, 17, 1)
    BY <1>1, <1>2, ShortUnits, PeerIs DEF KNXCTunnelRQ_Rs485PropValueRead_step2
  <2> QED BY <2>1, Zenon DEF IsRecordedPeer
<1>22. IsRecordedPeer(KNXCTunnelRQ_Rs485Disconnect)
  <2>1. IsPeer(KNXCTunnelRQ_Rs485Disconnect, <<129>>, 96, 17, 1)
    BY <1>1, <1>2, ShortUnits, PeerIs DEF KNXCTunnelRQ_Rs485Disconnect
  <2> QED BY <2>1, Zenon DEF IsRecordedPeer
<1> QED BY <1>3, <1>4, <1>5, <1>6, <1>7, <1>8, <1>9, <1>10, <1>11, <1>12, <1>13, <1>14, <1>15, <1>16, <1>17, <1>18, <1>19, <1>20, <1>21, <1>22, Zenon DEF Recorded

(* r is s, which has n octets, with t behind it.                           *)
IsAppended(r, s, n, t) ==
    /\ r \in Seq(Octet) /\ Len(r) = n + Len(t)
    /\ \A i \in 1 .. n : r[i] = s[i]
    /\ \A i \in 1 .. Len(t) : r[n + i] = t[i]

(* Two sequences in a row, by their elements.                              *)
LEMMA Appended ==
    ASSUME NEW s \in Seq(Octet), NEW n \in Nat, Sized(s, n), NEW t \in Seq(Octet)
    PROVE  IsAppended(s \o t, s, n, t)
BY DEF Sized, IsAppended

(* The octets of a tunnelling request as knx_tunnel_request_generate puts  *)
(* them together, and what they are one by one.                            *)
PeerBodyOctets(g, x, y, c1, c2, a, b, k, t) ==
    /\ g \in Seq(Octet) /\ Len(g) = 13 + Len(t)
    /\ g[1] = 4 /\ g[2] = x /\ g[3] = y /\ g[4] = 0 /\ g[5] = 17 /\ g[6] = 0
    /\ g[7] = c1 /\ g[8] = c2 /\ g[9] = 0 /\ g[10] = 0 /\ g[11] = a /\ g[12] = b
    /\ g[13] = k /\ \A i \in 1 .. Len(t) : g[13 + i] = t[i]

(* The octets of the body of a tunnelling request.                         *)
LEMMA PeerBodyIs ==
    ASSUME NEW x \in Octet, NEW y \in Octet, NEW c1 \in Octet, NEW c2 \in Octet,
           NEW a \in Octet, NEW b \in Octet, NEW k \in Octet, NEW t \in Seq(Octet)
    PROVE  PeerBodyOctets(PeerBody(x, y, c1, c2, a, b, k, t), x, y, c1, c2, a, b, k, t)
<1> DEFINE s1 == <<4, x, y, 0>>
           s2 == <<17, 0>>
           s3 == <<c1, c2>>
           s4 == <<0, 0>>
           s5 == <<a, b>>
           s6 == <<k>>
           g == s1 \o (s2 \o ((((s3 \o s4) \o s5) \o s6) \o t))
<1>1. /\ s1 \in Seq(Octet) /\ Sized(s1, 4) /\ s2 \in Seq(Octet) /\ Sized(s2, 2)
      /\ s3 \in Seq(Octet) /\ Sized(s3, 2) /\ s4 \in Seq(Octet) /\ Sized(s4, 2)
      /\ s5 \in Seq(Octet) /\ Sized(s5, 2) /\ s6 \in Seq(Octet) /\ Sized(s6, 1)
  BY DEF Octet, Sized
<1>2. /\ s1[1] = 4 /\ s1[2] = x /\ s1[3] = y /\ s1[4] = 0 /\ s2[1] = 17 /\ s2[2] = 0
      /\ s3[1] = c1 /\ s3[2] = c2 /\ s4[1] = 0 /\ s4[2] = 0 /\ s5[1] = a /\ s5[2] = b
      /\ s6[1] = k
  OBVIOUS
<1>3. PeerBody(x, y, c1, c2, a, b, k, t) = g
  <2>1. s2 \o <<>> = s2
    OBVIOUS
  <2> HIDE DEF s2
  <2>2. <<17, 0>> \o <<>> = s2
    BY <2>1 DEF s2
  <2> QED BY <2>2, Zenon DEF PeerBody
<1> HIDE DEF s1, s2, s3, s4, s5, s6
<1> DEFINE v == (s3 \o s4) \o s5
           w == (v \o s6) \o t
           z == s2 \o w
<1>4. /\ v \in Seq(Octet) /\ Sized(v, 6) /\ v[1] = c1 /\ v[2] = c2 /\ v[3] = 0 /\ v[4] = 0
      /\ v[5] = a /\ v[6] = b
  BY <1>1, <1>2 DEF Sized
<1>5. g = s1 \o z
  OBVIOUS
<1> HIDE DEF v
<1>6. /\ w \in Seq(Octet) /\ Len(w) = 7 + Len(t) /\ w[1] = c1 /\ w[2] = c2 /\ w[3] = 0
      /\ w[4] = 0 /\ w[5] = a /\ w[6] = b /\ w[7] = k /\ \A i \in 1 .. Len(t) : w[7 + i] = t[i]
  <2> DEFINE p == v \o s6
  <2>1. p \in Seq(Octet) /\ Sized(p, 7) /\ 7 \in Nat
    BY <1>1, <1>4 DEF Sized
  <2>2. p[1] = c1 /\ p[2] = c2 /\ p[3] = 0 /\ p[4] = 0 /\ p[5] = a /\ p[6] = b /\ p[7] = k
    BY <1>1, <1>2, <1>4, SMTT(40) DEF Sized
  <2>3. w = p \o t
    OBVIOUS
  <2> HIDE DEF p, w
  <2>4. /\ w \in Seq(Octet) /\ Len(w) = 7 + Len(t) /\ \A i \in 1 .. 7 : w[i] = p[i]
        /\ \A i \in 1 .. Len(t) : w[7 + i] = t[i]
    <3>1. w = p \o t /\ p \in Seq(Octet) /\ t \in Seq(Octet) /\ 7 \in Nat /\ Sized(p, 7)
      BY <2>1, <2>3
    <3>2. IsAppended(p \o t, p, 7, t)
      BY <3>1, Appended, Zenon
    <3>3. IsAppended(w, p, 7, t)
      BY <3>1, <3>2, Zenon
    <3> QED BY <3>3 DEF IsAppended
  <2> QED BY <2>2, <2>4
<1> HIDE DEF w
<1>7. /\ z \in Seq(Octet) /\ Len(z) = 9 + Len(t) /\ z[1] = 17 /\ z[2] = 0
      /\ z[3] = c1 /\ z[4] = c2 /\ z[5] = 0
      /\ z[6] = 0 /\ z[7] = a /\ z[8] = b /\ z[9] = k /\ \A i \in 1 .. Len(t) : z[9 + i] = t[i]
  <2>1. z = s2 \o w /\ 2 \in Nat
    OBVIOUS
  <2> HIDE DEF z
  <2>2. /\ z \in Seq(Octet) /\ Len(z) = 2 + Len(w) /\ \A i \in 1 .. 2 : z[i] = s2[i]
        /\ \A i \in 1 .. Len(w) : z[2 + i] = w[i]
    <3>1. z = s2 \o w /\ s2 \in Seq(Octet) /\ w \in Seq(Octet) /\ 2 \in Nat /\ Sized(s2, 2)
      BY <1>1, <1>6, <2>1
    <3>2. IsAppended(s2 \o w, s2, 2, w)
      BY <3>1, Appended, Zenon
    <3>3. IsAppended(z, s2, 2, w)
      BY <3>1, <3>2, Zenon
    <3> QED BY <3>3 DEF IsAppended
  <2> DEFINE n == Len(t)
             m == Len(w)
  <2>3. n \in Nat /\ m = 7 + n
    BY <1>6, LenProperties
  <2> HIDE DEF n, m
  <2>4. \A i \in 1 .. m : z[2 + i] = w[i]
    BY <2>2 DEF m
  <2>5. z[3] = w[1] /\ z[4] = w[2] /\ z[5] = w[3] /\ z[6] = w[4] /\ z[7] = w[5]
        /\ z[8] = w[6] /\ z[9] = w[7]
    BY <2>3, <2>4
  <2>6. \A i \in 1 .. n : z[9 + i] = w[7 + i]
    BY <2>3, <2>4
  <2>7. Len(z) = 9 + n
    BY <2>2, <2>3 DEF m
  <2> QED BY <1>2, <1>6, <2>2, <2>5, <2>6, <2>7 DEF n
<1> HIDE DEF z, g
<1>8. /\ g \in Seq(Octet) /\ Len(g) = 13 + Len(t)
      /\ g[1] = 4 /\ g[2] = x /\ g[3] = y /\ g[4] = 0 /\ g[5] = 17 /\ g[6] = 0
      /\ g[7] = c1 /\ g[8] = c2 /\ g[9] = 0 /\ g[10] = 0 /\ g[11] = a /\ g[12] = b
      /\ g[13] = k /\ \A i \in 1 .. Len(t) : g[13 + i] = t[i]
  <2>1. 4 \in Nat
    OBVIOUS
  <2>2. /\ g \in Seq(Octet) /\ Len(g) = 4 + Len(z) /\ \A i \in 1 .. 4 : g[i] = s1[i]
        /\ \A i \in 1 .. Len(z) : g[4 + i] = z[i]
    <3>1. g = s1 \o z /\ s1 \in Seq(Octet) /\ z \in Seq(Octet) /\ 4 \in Nat /\ Sized(s1, 4)
      BY <1>1, <1>5, <1>7, <2>1
    <3>2. IsAppended(s1 \o z, s1, 4, z)
      BY <3>1, Appended, Zenon
    <3>3. IsAppended(g, s1, 4, z)
      BY <3>1, <3>2, Zenon
    <3> QED BY <3>3 DEF IsAppended
  <2> DEFINE n == Len(t)
             m == Len(z)
  <2>3. n \in Nat /\ m = 9 + n
    BY <1>7, LenProperties
  <2> HIDE DEF n, m
  <2>4. \A i \in 1 .. m : g[4 + i] = z[i]
    BY <2>2 DEF m
  <2>5. g[5] = z[1] /\ g[6] = z[2] /\ g[7] = z[3] /\ g[8] = z[4] /\ g[9] = z[5]
        /\ g[10] = z[6] /\ g[11] = z[7] /\ g[12] = z[8] /\ g[13] = z[9]
    BY <2>3, <2>4
  <2>6. \A i \in 1 .. n : g[13 + i] = z[9 + i]
    BY <2>3, <2>4
  <2>7. Len(g) = 13 + n
    BY <2>2, <2>3 DEF m
  <2> QED BY <1>2, <1>7, <2>2, <2>5, <2>6, <2>7 DEF n
<1> QED BY <1>3, <1>8, Zenon DEF PeerBodyOctets

PeerOctets(q, l, c1, c2, a, b, k, t) ==
    /\ q \in Seq(Octet) /\ Len(q) = 19 + Len(t)
    /\ q[1] = 6 /\ q[2] = 16 /\ q[3] = 4 /\ q[4] = 32 /\ q[5] = 0 /\ q[6] = l
    /\ q[7] = 4 /\ q[10] = 0 /\ q[11] = 17 /\ q[12] = 0
    /\ q[13] = c1 /\ q[14] = c2 /\ q[15] = 0 /\ q[16] = 0 /\ q[17] = a /\ q[18] = b
    /\ q[19] = k /\ \A i \in 1 .. Len(t) : q[19 + i] = t[i]

(* The octets of a recorded request.                                       *)
LEMMA PeerElements ==
    ASSUME NEW l \in Octet, NEW c1 \in Octet, NEW c2 \in Octet,
           NEW a \in Octet, NEW b \in Octet, NEW k \in Octet, NEW t \in Seq(Octet)
    PROVE  PeerOctets(Peer(l, c1, c2, <<a, b>>, k, t), l, c1, c2, a, b, k, t)
<1> DEFINE s1 == <<6, 16, 4, 32, 0, l, 4, 21, 0, 0, 17, 0, c1, c2, 0, 0>>
           s2 == <<a, b>>
           s3 == <<k>>
           v == s1 \o s2
           q == (v \o s3) \o t
<1>1. /\ s1 \in Seq(Octet) /\ Sized(s1, 16) /\ s2 \in Seq(Octet) /\ Sized(s2, 2)
      /\ s3 \in Seq(Octet) /\ Sized(s3, 1)
  BY DEF Octet, Sized
<1>2. /\ s1[1] = 6 /\ s1[2] = 16 /\ s1[3] = 4 /\ s1[4] = 32 /\ s1[5] = 0 /\ s1[6] = l
      /\ s1[7] = 4 /\ s1[10] = 0 /\ s1[11] = 17 /\ s1[12] = 0 /\ s1[13] = c1 /\ s1[14] = c2
      /\ s1[15] = 0 /\ s1[16] = 0 /\ s2[1] = a /\ s2[2] = b /\ s3[1] = k
  OBVIOUS
<1>3. Peer(l, c1, c2, <<a, b>>, k, t) = q
  BY DEF Peer
<1> HIDE DEF s1, s2, s3
<1>4. /\ v \in Seq(Octet) /\ Sized(v, 18)
      /\ v[1] = 6 /\ v[2] = 16 /\ v[3] = 4 /\ v[4] = 32 /\ v[5] = 0 /\ v[6] = l
      /\ v[7] = 4 /\ v[10] = 0 /\ v[11] = 17 /\ v[12] = 0 /\ v[13] = c1 /\ v[14] = c2
      /\ v[15] = 0 /\ v[16] = 0 /\ v[17] = a /\ v[18] = b
  <2>1. v = s1 \o s2 /\ 16 \in Nat
    OBVIOUS
  <2> HIDE DEF v
  <2>2. /\ v \in Seq(Octet) /\ Len(v) = 16 + Len(s2) /\ \A i \in 1 .. 16 : v[i] = s1[i]
        /\ \A i \in 1 .. Len(s2) : v[16 + i] = s2[i]
    <3>1. v = s1 \o s2 /\ s1 \in Seq(Octet) /\ s2 \in Seq(Octet) /\ 16 \in Nat /\ Sized(s1, 16)
      BY <1>1, <2>1
    <3>2. IsAppended(s1 \o s2, s1, 16, s2)
      BY <3>1, Appended, Zenon
    <3>3. IsAppended(v, s1, 16, s2)
      BY <3>1, <3>2, Zenon
    <3> QED BY <3>3 DEF IsAppended
  <2> DEFINE m == Len(s2)
  <2>3. m \in Nat /\ 2 <= m /\ m <= 2 /\ Len(v) = 16 + m
    BY <1>1, <2>2, LenProperties DEF Sized
  <2> HIDE DEF m
  <2>4. Sized(v, 18)
    BY <2>3 DEF Sized
  <2>5. v[17] = s2[1] /\ v[18] = s2[2]
    <3>1. \A i \in 1 .. m : v[16 + i] = s2[i]
      BY <2>2 DEF m
    <3> QED BY <2>3, <3>1
  <2> QED BY <1>2, <2>2, <2>4, <2>5, SMTT(40)
<1> HIDE DEF v
<1>5. /\ q \in Seq(Octet) /\ Len(q) = 19 + Len(t)
      /\ q[1] = 6 /\ q[2] = 16 /\ q[3] = 4 /\ q[4] = 32 /\ q[5] = 0 /\ q[6] = l
      /\ q[7] = 4 /\ q[10] = 0 /\ q[11] = 17 /\ q[12] = 0
      /\ q[13] = c1 /\ q[14] = c2 /\ q[15] = 0 /\ q[16] = 0 /\ q[17] = a /\ q[18] = b
      /\ q[19] = k /\ \A i \in 1 .. Len(t) : q[19 + i] = t[i]
  <2> DEFINE p == v \o s3
  <2>1. p \in Seq(Octet) /\ Sized(p, 19) /\ 19 \in Nat
    BY <1>1, <1>4, SMTT(40) DEF Sized
  <2>2. p[19] = k /\ \A i \in 1 .. 18 : p[i] = v[i]
    <3>1. v \in Seq(Octet) /\ s3 \in Seq(Octet) /\ 18 \in Nat /\ Sized(v, 18)
      BY <1>1, <1>4
    <3>2. IsAppended(p, v, 18, s3)
      BY <3>1, Appended, Zenon
    <3>3. 1 <= Len(s3) /\ Len(s3) \in Nat
      BY <1>1 DEF Sized
    <3> HIDE DEF p
    <3>4. p[18 + 1] = s3[1]
      BY <3>2, <3>3 DEF IsAppended
    <3>5. \A i \in 1 .. 18 : p[i] = v[i]
      BY <3>2, Zenon DEF IsAppended
    <3> QED BY <1>2, <3>4, <3>5
  <2>3. q = p \o t
    OBVIOUS
  <2> HIDE DEF p, q
  <2>4. /\ q \in Seq(Octet) /\ Len(q) = 19 + Len(t) /\ \A i \in 1 .. 19 : q[i] = p[i]
        /\ \A i \in 1 .. Len(t) : q[19 + i] = t[i]
    <3>1. q = p \o t /\ p \in Seq(Octet) /\ t \in Seq(Octet) /\ 19 \in Nat /\ Sized(p, 19)
      BY <2>1, <2>3
    <3>2. IsAppended(p \o t, p, 19, t)
      BY <3>1, Appended, Zenon
    <3>3. IsAppended(q, p, 19, t)
      BY <3>1, <3>2, Zenon
    <3> QED BY <3>3 DEF IsAppended
  <2>5. \A i \in 1 .. 18 : q[i] = v[i]
    <3>1. ASSUME NEW i \in 1 .. 18 PROVE q[i] = v[i]
      <4>1. i \in 1 .. 19
        OBVIOUS
      <4> QED BY <2>2, <2>4, <4>1, Zenon
    <3> QED BY <3>1
  <2>6. q[19] = k
    BY <2>2, <2>4, SMTT(40)
  <2>7. /\ q[1] = 6 /\ q[2] = 16 /\ q[3] = 4 /\ q[4] = 32 /\ q[5] = 0 /\ q[6] = l
        /\ q[7] = 4 /\ q[10] = 0 /\ q[11] = 17 /\ q[12] = 0
        /\ q[13] = c1 /\ q[14] = c2 /\ q[15] = 0 /\ q[16] = 0 /\ q[17] = a /\ q[18] = b
    <3>1. /\ q[1] = v[1] /\ q[2] = v[2] /\ q[3] = v[3] /\ q[4] = v[4] /\ q[5] = v[5]
          /\ q[6] = v[6] /\ q[7] = v[7] /\ q[10] = v[10] /\ q[11] = v[11] /\ q[12] = v[12]
      BY <2>5
    <3>2. /\ q[13] = v[13] /\ q[14] = v[14] /\ q[15] = v[15] /\ q[16] = v[16]
          /\ q[17] = v[17] /\ q[18] = v[18]
      BY <2>5
    <3> QED BY <1>4, <3>1, <3>2, Zenon
  <2> QED BY <2>4, <2>6, <2>7, Zenon
<1> QED BY <1>3, <1>5, Zenon DEF PeerOctets

(* A recorded request with its channel and number replaced is a header and *)
(* the octets of a tunnelling request.                                     *)
ReplacedAs(q, r, n, g) ==
    /\ r = knx_header_generate(KNX_TUNNEL_REQUEST, n) \o g
    /\ n \in Nat /\ n <= 1000 /\ g \in Seq(Octet) /\ Sized(g, n)
    /\ From16(q, 3) = KNX_TUNNEL_REQUEST
    /\ KNX_TUNNEL_REQUEST \in Word

(* With the two octets replaced it is a header and such a body.            *)
LEMMA ReplacedIs ==
    ASSUME NEW q, NEW t, NEW c2, NEW a, NEW b, IsPeer(q, t, c2, a, b),
           NEW x \in Octet, NEW y \in Octet
    PROVE  ReplacedAs(q, [q EXCEPT ![8] = x, ![9] = y], 13 + Len(t),
                      PeerBody(x, y, FirstControl(t), c2, a, b, Len(t) - 1, t))
<1> DEFINE n == 13 + Len(t)
           k == Len(t) - 1
           l == 19 + Len(t)
           c1 == FirstControl(t)
           g == PeerBody(x, y, c1, c2, a, b, k, t)
           h == knx_header_generate(KNX_TUNNEL_REQUEST, n)
           r == [q EXCEPT ![8] = x, ![9] = y]
           m == Len(t)
<1>1. /\ t \in Seq(Octet) /\ m \in Nat /\ 1 <= m /\ m <= 200
      /\ c2 \in SecondControls /\ a \in Octet /\ b \in Octet
      /\ q = Peer(l, c1, c2, <<a, b>>, k, t)
  BY LenProperties DEF IsPeer, DataUnit, Sized
<1>2. c1 \in Octet /\ c2 \in Octet
  BY <1>1 DEF FirstControl, SecondControls, Octet
<1>3. /\ n \in Nat /\ n <= 1000 /\ k \in Octet /\ l \in Octet /\ n = 13 + m /\ l = 19 + m
      /\ n + 6 = l
  <2>1. m \in Nat /\ 1 <= m /\ m <= 200
    BY <1>1
  <2> HIDE DEF m
  <2>2. 13 + m \in Nat /\ 13 + m <= 1000 /\ m - 1 \in Octet /\ 19 + m \in Octet
    BY <2>1, OctetIs
  <2>3. (13 + m) + 6 = 19 + m
    BY <2>1
  <2> QED BY <2>2, <2>3 DEF m
<1> HIDE DEF c1, k, l, n, m
<1>4. /\ g \in Seq(Octet) /\ Len(g) = 13 + m
      /\ g[1] = 4 /\ g[2] = x /\ g[3] = y /\ g[4] = 0 /\ g[5] = 17 /\ g[6] = 0
      /\ g[7] = c1 /\ g[8] = c2 /\ g[9] = 0 /\ g[10] = 0 /\ g[11] = a /\ g[12] = b
      /\ g[13] = k /\ \A i \in 1 .. m : g[13 + i] = t[i]
  <2>1. PeerBodyOctets(g, x, y, c1, c2, a, b, k, t)
    BY <1>1, <1>2, <1>3, PeerBodyIs, Zenon
  <2> HIDE DEF g
  <2> QED BY <2>1, Zenon DEF PeerBodyOctets, m
<1>5. /\ q \in Seq(Octet) /\ Len(q) = 19 + m
      /\ q[1] = 6 /\ q[2] = 16 /\ q[3] = 4 /\ q[4] = 32 /\ q[5] = 0 /\ q[6] = l
      /\ q[7] = 4 /\ q[10] = 0 /\ q[11] = 17 /\ q[12] = 0
      /\ q[13] = c1 /\ q[14] = c2 /\ q[15] = 0 /\ q[16] = 0 /\ q[17] = a /\ q[18] = b
      /\ q[19] = k /\ \A i \in 1 .. m : q[19 + i] = t[i]
  <2>1. PeerOctets(q, l, c1, c2, a, b, k, t)
    BY <1>1, <1>2, <1>3, PeerElements, Zenon
  <2> QED BY <2>1, Zenon DEF PeerOctets, m
<1>6. KNX_TUNNEL_REQUEST \in Word /\ KNX_TUNNEL_REQUEST = 4 * 256 + 32
  BY DEF KNX_TUNNEL_REQUEST, Word
<1>7. From16(q, 3) = KNX_TUNNEL_REQUEST
  <2>1. q[3] = 4 /\ q[4] = 32 /\ From16(q, 3) = q[3] * 256 + q[4]
    BY <1>5 DEF From16
  <2> QED BY <1>6, <2>1
<1>8. /\ h \in Seq(Octet) /\ Sized(h, 6) /\ h[1] = 6 /\ h[2] = 16 /\ h[3] = 4 /\ h[4] = 32
      /\ h[5] = 0 /\ h[6] = l
  <2>1. 4 \in Octet /\ 32 \in Octet /\ 0 \in Octet
    BY DEF Octet
  <2>2. U16(KNX_TUNNEL_REQUEST) = <<4, 32>>
    BY <1>6, <2>1, U16Back
  <2>3. U16(l) = <<0, l>>
    <3>1. 0 * 256 + l = l
      BY <1>3, OctetIs
    <3>2. U16(0 * 256 + l) = <<0, l>>
      BY <1>3, <2>1, U16Back, Zenon
    <3> QED BY <3>1, <3>2, Zenon
  <2>4. h = (<<6, 16>> \o <<4, 32>>) \o <<0, l>>
    <3>1. ~(n > 65535 - KNX_HEADER_SIZE) /\ n + KNX_HEADER_SIZE = l
      BY <1>3 DEF KNX_HEADER_SIZE
    <3> DEFINE u == n + KNX_HEADER_SIZE
    <3>2. h = (<<6, 16>> \o U16(KNX_TUNNEL_REQUEST)) \o U16(u)
      BY <3>1 DEF knx_header_generate, KNX_HEADER_SIZE
    <3> HIDE DEF u, h
    <3>3. u = l
      BY <3>1 DEF u
    <3> QED BY <2>2, <2>3, <3>2, <3>3, Zenon
  <2> DEFINE s1 == <<6, 16>>
             s2 == <<4, 32>>
             s3 == <<0, l>>
  <2>5. /\ s1 \in Seq(Octet) /\ Sized(s1, 2) /\ s1[1] = 6 /\ s1[2] = 16
        /\ s2 \in Seq(Octet) /\ Sized(s2, 2) /\ s2[1] = 4 /\ s2[2] = 32
        /\ s3 \in Seq(Octet) /\ Sized(s3, 2) /\ s3[1] = 0 /\ s3[2] = l
    BY <1>3 DEF Octet, Sized
  <2>6. h = (s1 \o s2) \o s3
    BY <2>4
  <2> HIDE DEF s1, s2, s3, h
  <2>7. h \in Seq(Octet) /\ Sized(h, 6)
    BY <2>5, <2>6 DEF Sized
  <2>8. /\ h[1] = s1[1] /\ h[2] = s1[2] /\ h[3] = s2[1] /\ h[4] = s2[2]
        /\ h[5] = s3[1] /\ h[6] = s3[2]
    BY <2>5, <2>6 DEF Sized
  <2> QED BY <2>5, <2>7, <2>8, Zenon
<1>9. /\ r \in Seq(Octet) /\ Len(r) = Len(q) /\ r[8] = x /\ r[9] = y
      /\ \A i \in 1 .. Len(q) : i # 8 /\ i # 9 => r[i] = q[i]
  <2>1. 19 <= Len(q)
    BY <1>1, <1>5, SMTT(40)
  <2>2. AreReplaced(r, q, x, y)
    BY <1>5, <2>1, TwoReplaced, Zenon
  <2> HIDE DEF r
  <2> QED BY <2>2, Zenon DEF AreReplaced
<1> HIDE DEF g, h, r
<1> DEFINE s == h \o g
<1>10. /\ s \in Seq(Octet) /\ Len(s) = 6 + Len(g) /\ \A i \in 1 .. 6 : s[i] = h[i]
       /\ \A i \in 1 .. Len(g) : s[6 + i] = g[i]
  <2>1. 6 \in Nat
    OBVIOUS
  <2>2. IsAppended(s, h, 6, g)
    BY <1>4, <1>8, <2>1, Appended, Zenon
  <2> HIDE DEF s
  <2> QED BY <2>2 DEF IsAppended
<1> HIDE DEF s
<1>11. Len(s) = Len(r) /\ Len(r) = 19 + m
  BY <1>1, <1>4, <1>5, <1>9, <1>10
<1>12. ASSUME NEW i \in 1 .. Len(r) PROVE r[i] = s[i]
  <2>1. i \in Nat /\ i >= 1 /\ i <= 19 + m /\ (i # 8 /\ i # 9 => r[i] = q[i])
    <3>1. i \in 1 .. Len(q)
      BY <1>9, Zenon
    <3>2. i \in 1 .. 19 + m
      BY <1>11, Zenon
    <3>3. i # 8 /\ i # 9 => r[i] = q[i]
      BY <1>9, <3>1, Zenon
    <3> QED BY <1>1, <3>2, <3>3
  <2>2. \A j \in 1 .. 13 + m : s[6 + j] = g[j]
    BY <1>4, <1>10
  <2>3. CASE i <= 6
    <3>1. s[i] = h[i]
      BY <1>10, <2>1, <2>3
    <3>2. r[i] = q[i]
      BY <2>1, <2>3
    <3>3. q[i] = h[i]
      <4>1. i = 1 \/ i = 2 \/ i = 3 \/ i = 4 \/ i = 5 \/ i = 6
        BY <2>1, <2>3
      <4> QED BY <1>5, <1>8, <4>1
    <3> QED BY <3>1, <3>2, <3>3
  <2>4. CASE i > 6 /\ i <= 19
    <3>1. PICK j \in 1 .. 13 : i = 6 + j
      <4>1. i - 6 \in 1 .. 13 /\ i = 6 + (i - 6)
        BY <2>1, <2>4
      <4> QED BY <4>1
    <3>2. s[i] = g[j]
      <4>1. j \in 1 .. 13 + m
        BY <1>1, <3>1
      <4> QED BY <2>2, <3>1, <4>1
    <3>3. r[i] = g[j]
      <4>1. \/ j = 1 \/ j = 2 \/ j = 3 \/ j = 4 \/ j = 5 \/ j = 6 \/ j = 7 \/ j = 8 \/ j = 9
            \/ j = 10 \/ j = 11 \/ j = 12 \/ j = 13
        BY <3>1
      <4>2. /\ q[7] = g[1] /\ r[8] = g[2] /\ r[9] = g[3] /\ q[10] = g[4] /\ q[11] = g[5]
            /\ q[12] = g[6] /\ q[13] = g[7] /\ q[14] = g[8] /\ q[15] = g[9] /\ q[16] = g[10]
            /\ q[17] = g[11] /\ q[18] = g[12] /\ q[19] = g[13]
        BY <1>4, <1>5, <1>9, Zenon
      <4>3. CASE j = 2 \/ j = 3
        <5>1. (j = 2 => i = 8) /\ (j = 3 => i = 9)
          BY <3>1
        <5> QED BY <4>2, <4>3, <5>1, Zenon
      <4>4. CASE j # 2 /\ j # 3
        <5>1. r[i] = q[i]
          BY <2>1, <3>1, <4>4
        <5>2. q[i] = g[j]
          <6>1. \/ j = 1 \/ j = 4 \/ j = 5 \/ j = 6 \/ j = 7 \/ j = 8 \/ j = 9
                \/ j = 10 \/ j = 11 \/ j = 12 \/ j = 13
            BY <4>1, <4>4
          <6>2. /\ (j = 1 => i = 7) /\ (j = 4 => i = 10) /\ (j = 5 => i = 11)
                /\ (j = 6 => i = 12) /\ (j = 7 => i = 13) /\ (j = 8 => i = 14)
                /\ (j = 9 => i = 15) /\ (j = 10 => i = 16) /\ (j = 11 => i = 17)
                /\ (j = 12 => i = 18) /\ (j = 13 => i = 19)
            BY <3>1
          <6> QED BY <4>2, <6>1, <6>2, ZenonT(60)
        <5> QED BY <5>1, <5>2
      <4> QED BY <4>3, <4>4
    <3> QED BY <3>2, <3>3
  <2>5. CASE i > 19
    <3>1. PICK j \in 1 .. m : i = 19 + j
      <4>1. i - 19 \in 1 .. m /\ i = 19 + (i - 19)
        BY <1>1, <2>1, <2>5
      <4> QED BY <4>1
    <3>2. r[i] = q[i] /\ q[i] = t[j]
      BY <1>5, <2>1, <2>5, <3>1
    <3>3. s[i] = t[j]
      <4>1. 13 + j \in 1 .. 13 + m /\ 6 + (13 + j) = i
        BY <1>1, <3>1
      <4>2. s[i] = g[13 + j]
        BY <2>2, <4>1
      <4>3. g[13 + j] = t[j]
        BY <1>4, <3>1, Zenon
      <4> QED BY <4>2, <4>3
    <3> QED BY <3>2, <3>3
  <2> QED BY <2>1, <2>3, <2>4, <2>5
<1>13. r = s
  BY <1>9, <1>10, <1>11, <1>12, SeqEqual
<1>14. Sized(g, n)
  BY <1>1, <1>3, <1>4 DEF Sized
<1>15. r = h \o g
  BY <1>13, Zenon DEF s
<1>16. ReplacedAs(q, r, n, g)
  BY <1>3, <1>4, <1>6, <1>7, <1>14, <1>15, Zenon DEF ReplacedAs, h
<1> QED BY <1>16, Zenon DEF g, n, r, c1, k

(* The library takes a recorded tunnelling request for one on the channel  *)
(* and with the number it was sent with, and would give it the same octets *)
(* behind the header.                                                      *)
IsReplay(q, r, x, y, out) ==
    /\ DOMAIN out = {"ok", "service", "payload"}
    /\ out.service = From16(q, 3)
    /\ out.service \notin {KNX_SEARCH_RESPONSE, KNX_CONNECTION_RESPONSE}
    /\ out.service = KNX_TUNNEL_REQUEST =>
          /\ out.ok /\ out.payload.channel = x /\ out.payload.seq = y
          /\ From(knx_generate(KNX_TUNNEL_REQUEST, out.payload), 7) = From(r, 7)

ReceivedReplay(q, r, x, y, left) ==
    /\ r \in Seq(Octet) /\ Len(r) >= 6
    /\ IsReplay(q, r, x, y, knx_parse(r \o left))

(* A recorded tunnelling request is received.                              *)
LEMMA TunnellingReceived ==
    ASSUME NEW q, IsRecordedPeer(q), NEW x \in Octet, NEW y \in Octet, NEW left \in Seq(Cell)
    PROVE  ReceivedReplay(q, [q EXCEPT ![8] = x, ![9] = y], x, y, left)
<1> DEFINE r == [q EXCEPT ![8] = x, ![9] = y]
<1>1. PICK t, c2, a, b : IsPeer(q, t, c2, a, b)
  BY Zenon DEF IsRecordedPeer
<1> DEFINE n == 13 + Len(t)
           g == PeerBody(x, y, FirstControl(t), c2, a, b, Len(t) - 1, t)
           h == knx_header_generate(KNX_TUNNEL_REQUEST, n)
<1>2. /\ r = h \o g
      /\ n \in Nat /\ n <= 1000 /\ g \in Seq(Octet) /\ Sized(g, n)
      /\ From16(q, 3) = KNX_TUNNEL_REQUEST
      /\ KNX_TUNNEL_REQUEST \in Word
  <2>1. ReplacedAs(q, r, n, g)
    BY <1>1, ReplacedIs, Zenon
  <2> HIDE DEF r, n, g
  <2> QED BY <2>1, Zenon DEF ReplacedAs, h
<1>3. PICK p \in [channel : Octet, seq : Octet, data : KnxCemis] :
         /\ p.channel = x /\ p.seq = y
         /\ [p EXCEPT !.data.ldata.tpdu = KnownTpdu(@)] = p
         /\ knx_tunnel_request_generate(p) = g
  <2>1. DataUnit(t) /\ c2 \in SecondControls /\ a \in Octet /\ b \in Octet
    BY <1>1 DEF IsPeer
  <2>2. IsRequest(g, x, y)
    BY <2>1, PeerRead, Zenon
  <2> HIDE DEF g
  <2> QED BY <2>2, Zenon DEF IsRequest
<1> HIDE DEF n, g, h, r
<1>4. h \in Seq(Octet) /\ Sized(h, 6)
  BY <1>2, HeaderGenerated, Zenon DEF h
<1>5. r \in Seq(Octet) /\ Len(r) >= 6
  BY <1>2, <1>4 DEF Sized
<1>6. From(r, 7) = g
  <2>1. 7 \in Nat /\ Sized(h, 7 - 1)
    BY <1>4
  <2>2. From(h \o g, 7) = g
    BY <1>2, <1>4, <2>1, CutEnd, Zenon
  <2> QED BY <1>2, <2>2, Zenon
<1>7. knx_parse(r \o left) = ParsePacket(KNX_TUNNEL_REQUEST, g)
  <2>1. g \in Seq(Cell)
    BY <1>2, CellSeq
  <2>2. knx_parse((knx_header_generate(KNX_TUNNEL_REQUEST, n) \o g) \o left)
        = ParsePacket(KNX_TUNNEL_REQUEST, g)
    BY <1>2, <2>1, HeaderParsed, Zenon
  <2> QED BY <1>2, <2>2, Zenon DEF h
<1>8. /\ p \in KnxPayloads(KNX_TUNNEL_REQUEST)
      /\ knx_payload_size(KNX_TUNNEL_REQUEST, p) = knx_tunnel_request_size(p)
      /\ PayloadGenerate(KNX_TUNNEL_REQUEST, p) = knx_tunnel_request_generate(p)
      /\ PayloadParse(KNX_TUNNEL_REQUEST, g) = knx_tunnel_request_parse(g)
  BY DEF KnxPayloads, knx_payload_size, PayloadGenerate, PayloadParse, HostServices,
          StatusHostServices, StatusServices, KNX_SEARCH_REQUEST,
          KNX_DESCRIPTION_REQUEST, KNX_DESCRIPTION_RESPONSE, KNX_CONNECTION_REQUEST,
          KNX_CONNECTION_RESPONSE, KNX_CONNECTION_STATE_REQUEST,
          KNX_CONNECTION_STATE_RESPONSE, KNX_DISCONNECT_REQUEST, KNX_DISCONNECT_RESPONSE,
          KNX_TUNNEL_REQUEST, KNX_TUNNEL_RESPONSE, KNX_ROUTING_INDICATION
<1>9. <<>> \in Seq(Cell) /\ g \o <<>> = g
  BY <1>2
<1>10. /\ knx_tunnel_request_size(p) \in Nat /\ knx_tunnel_request_size(p) <= 704
       /\ knx_tunnel_request_parse(g) = Valid(p)
  <2>1. /\ knx_tunnel_request_size(p) \in Nat /\ knx_tunnel_request_size(p) <= 704
        /\ knx_tunnel_request_parse(knx_tunnel_request_generate(p) \o <<>>)
           = Valid([p EXCEPT !.data.ldata.tpdu = KnownTpdu(@)])
    BY <1>9, TunnelRequestKept, ZenonT(60)
  <2> QED BY <1>3, <1>9, <2>1, Zenon
<1>11. knx_parse(r \o left) = [ok |-> TRUE, service |-> KNX_TUNNEL_REQUEST, payload |-> p]
  <2> DEFINE u == PayloadParse(KNX_TUNNEL_REQUEST, g)
  <2>1. u = Valid(p)
    BY <1>8, <1>10, Zenon
  <2>2. "value" \in DOMAIN u /\ u.ok = TRUE /\ u.value = p
    <3> HIDE DEF u
    <3> QED BY <2>1 DEF Valid
  <2>3. ParsePacket(KNX_TUNNEL_REQUEST, g)
        = [ok |-> u.ok, service |-> KNX_TUNNEL_REQUEST, payload |-> u.value]
    BY <2>2, Zenon DEF ParsePacket
  <2> QED BY <1>7, <2>2, <2>3, Zenon
<1>12. From(knx_generate(KNX_TUNNEL_REQUEST, p), 7) = g
  <2> DEFINE m == knx_tunnel_request_size(p)
             v == knx_header_generate(KNX_TUNNEL_REQUEST, m)
  <2>1. v \in Seq(Octet) /\ Sized(v, 6)
    <3> HIDE DEF m
    <3>1. m \in Nat /\ m <= 1000
      BY <1>10 DEF m
    <3> QED BY <1>2, <3>1, HeaderGenerated, Zenon
  <2>2. knx_generate(KNX_TUNNEL_REQUEST, p) = v \o g
    <3>1. v # <<>>
      <4> HIDE DEF v
      <4> QED BY <2>1, EmptySeq DEF Sized
    <3> QED BY <1>3, <1>8, <3>1, Zenon DEF knx_generate
  <2> HIDE DEF v
  <2>3. 7 \in Nat /\ Sized(v, 7 - 1)
    BY <2>1
  <2>4. From(v \o g, 7) = g
    BY <1>2, <2>1, <2>3, CutEnd, Zenon
  <2> QED BY <2>2, <2>4, Zenon
<1>13. IsReplay(q, r, x, y, knx_parse(r \o left))
  <2> DEFINE u == knx_parse(r \o left)
  <2>1. u = [ok |-> TRUE, service |-> KNX_TUNNEL_REQUEST, payload |-> p]
    BY <1>11
  <2> HIDE DEF u
  <2>2. /\ DOMAIN u = {"ok", "service", "payload"} /\ u.ok = TRUE
        /\ u.service = KNX_TUNNEL_REQUEST /\ u.payload = p
    BY <2>1
  <2>3. KNX_TUNNEL_REQUEST \notin {KNX_SEARCH_RESPONSE, KNX_CONNECTION_RESPONSE}
    BY DEF KNX_TUNNEL_REQUEST, KNX_SEARCH_RESPONSE, KNX_CONNECTION_RESPONSE
  <2>4. From16(q, 3) = KNX_TUNNEL_REQUEST
    BY <1>2
  <2>5. IsReplay(q, r, x, y, u)
    BY <1>3, <1>6, <1>12, <2>2, <2>3, <2>4, Zenon DEF IsReplay
  <2> QED BY <2>5 DEF u
<1> QED BY <1>5, <1>13, Zenon DEF r, ReceivedReplay

(* The one that is not a tunnelling request is not parsed.                 *)
LEMMA ConfigurationReceived ==
    ASSUME NEW x \in Octet, NEW y \in Octet, NEW left \in Seq(Cell)
    PROVE  ReceivedReplay(KNXCTunnelRQ_Rs485DevConfigRq,
                          [KNXCTunnelRQ_Rs485DevConfigRq EXCEPT ![8] = x, ![9] = y],
                          x, y, left)
<1> DEFINE q == KNXCTunnelRQ_Rs485DevConfigRq
           r == [q EXCEPT ![8] = x, ![9] = y]
           s == r \o left
<1>1. /\ q \in Seq(Octet) /\ Sized(q, 17) /\ q[1] = 6 /\ q[2] = 16 /\ q[3] = 3 /\ q[4] = 16
      /\ q[5] = 0 /\ q[6] = 17
  BY DEF KNXCTunnelRQ_Rs485DevConfigRq, Octet, Sized
<1> HIDE DEF q
<1>2. 8 \in 1 .. Len(q) /\ 9 \in 1 .. Len(q) /\ \A i \in 1 .. 6 : i \in 1 .. Len(q)
  BY <1>1 DEF Sized
<1>3. /\ r \in Seq(Octet) /\ Len(r) = Len(q)
      /\ \A i \in 1 .. Len(q) : i # 8 /\ i # 9 => r[i] = q[i]
  BY <1>1, <1>2
<1> HIDE DEF r
<1>4. /\ r[1] = 6 /\ r[2] = 16 /\ r[3] = 3 /\ r[4] = 16 /\ r[5] = 0 /\ r[6] = 17
  BY <1>1, <1>2, <1>3
<1>5. r \in Seq(Cell) /\ Sized(r, 17)
  BY <1>1, <1>3, CellSeq DEF Sized
<1>6. /\ Len(s) >= 17 /\ s[1] = 6 /\ s[2] = 16 /\ s[3] = 3 /\ s[4] = 16 /\ s[5] = 0
      /\ s[6] = 17
  BY <1>4, <1>5 DEF Sized
<1> HIDE DEF s
<1>7. From16(s, 3) = KNX_DEVICE_CONFIGURATION_REQUEST /\ From16(s, 5) = 17
  BY <1>6 DEF From16, KNX_DEVICE_CONFIGURATION_REQUEST
<1>8. /\ ~(Len(s) < 6 \/ s[1] # 6 \/ s[2] # 16)
      /\ ~(From16(s, 5) < 6) /\ ~(From16(s, 5) > Len(s))
  BY <1>6, <1>7
<1>9. knx_parse(s) = ParsePacket(From16(s, 3), SubSeq(s, 6 + 1, From16(s, 5)))
  BY <1>8, Zenon DEF knx_parse, KNX_HEADER_SIZE
<1>10. ASSUME NEW z
       PROVE  ParsePacket(KNX_DEVICE_CONFIGURATION_REQUEST, z)
              = NotParsed(KNX_DEVICE_CONFIGURATION_REQUEST)
  <2>1. PayloadParse(KNX_DEVICE_CONFIGURATION_REQUEST, z) = [ok |-> FALSE]
    BY DEF PayloadParse, Invalid, KNX_DEVICE_CONFIGURATION_REQUEST,
          KNX_DESCRIPTION_REQUEST, KNX_DESCRIPTION_RESPONSE, KNX_CONNECTION_REQUEST,
          KNX_CONNECTION_RESPONSE, KNX_CONNECTION_STATE_REQUEST,
          KNX_CONNECTION_STATE_RESPONSE, KNX_DISCONNECT_REQUEST, KNX_DISCONNECT_RESPONSE,
          KNX_TUNNEL_REQUEST, KNX_TUNNEL_RESPONSE, KNX_ROUTING_INDICATION
  <2>2. "value" \notin DOMAIN [ok |-> FALSE]
    OBVIOUS
  <2> QED BY <2>1, <2>2, Zenon DEF ParsePacket
<1>11. From16(q, 3) = KNX_DEVICE_CONFIGURATION_REQUEST
  BY <1>1 DEF From16, KNX_DEVICE_CONFIGURATION_REQUEST
<1>12. Len(r) >= 6
  BY <1>5 DEF Sized
<1>13. IsReplay(q, r, x, y, knx_parse(s))
  <2> DEFINE u == knx_parse(s)
  <2>1. u = NotParsed(KNX_DEVICE_CONFIGURATION_REQUEST)
    BY <1>7, <1>9, <1>10, Zenon
  <2> HIDE DEF u
  <2>2. /\ DOMAIN u = {"ok", "service", "payload"}
        /\ u.service = KNX_DEVICE_CONFIGURATION_REQUEST
    BY <2>1 DEF NotParsed
  <2>3. KNX_DEVICE_CONFIGURATION_REQUEST
          \notin {KNX_SEARCH_RESPONSE, KNX_CONNECTION_RESPONSE, KNX_TUNNEL_REQUEST}
    BY DEF KNX_TUNNEL_REQUEST, KNX_SEARCH_RESPONSE, KNX_CONNECTION_RESPONSE,
           KNX_DEVICE_CONFIGURATION_REQUEST
  <2>4. IsReplay(q, r, x, y, u)
    BY <1>11, <2>2, <2>3 DEF IsReplay
  <2> QED BY <2>4 DEF u
<1>14. ReceivedReplay(q, r, x, y, left)
  BY <1>3, <1>12, <1>13, Zenon DEF ReceivedReplay, s
<1> QED BY <1>14, Zenon DEF q, r

(* Any recorded request is received.                                       *)
LEMMA RecordedReceived ==
    ASSUME NEW q \in Recorded, NEW channel \in Nat, NEW seq \in Nat, NEW left \in Seq(Cell)
    PROVE  ReceivedReplay(q, Replaced(q, channel, seq), channel % 256, seq % 256, left)
<1> DEFINE x == channel % 256
           y == seq % 256
<1>1. x \in Octet /\ y \in Octet
  BY DEF Octet
<1>2. Replaced(q, channel, seq) = [q EXCEPT ![8] = x, ![9] = y]
  BY Zenon DEF Replaced
<1> HIDE DEF x, y
<1>3. ReceivedReplay(q, [q EXCEPT ![8] = x, ![9] = y], x, y, left)
  <2>1. CASE q = KNXCTunnelRQ_Rs485DevConfigRq
    BY <1>1, <2>1, ConfigurationReceived, Zenon
  <2>2. CASE q # KNXCTunnelRQ_Rs485DevConfigRq
    BY <1>1, <2>2, RecordedIs, TunnellingReceived, Zenon
  <2> QED BY <2>1, <2>2
<1> QED BY <1>2, <1>3, Zenon DEF x, y

-----------------------------------------------------------------------------
(* The gateway's answers: the octets on the device and of the list of      *)
(* services, one by one.                                                   *)
LEMMA DeviceIs ==
    Device \in Seq(Octet) /\ Sized(Device, 54) /\ Device[1] = 54 /\ Device[2] = 1
<1>1. \A i \in 1 .. 54 : i + 30 \in Octet
  BY DEF Octet
<1>2. 54 \in Octet /\ 1 \in Octet
  BY DEF Octet
<1> QED BY <1>1, <1>2 DEF Device, Sized

ListOctets(s, n) ==
    /\ s \in Seq(Octet) /\ Sized(s, 2 + 2 * n) /\ s[1] = 2 * n + 2 /\ s[2] = 2
    /\ \A j \in 1 .. 2 * n : s[2 + j] = 100 + j

(* The list of n services, by its octets.                                  *)
LEMMA ServiceListIs ==
    ASSUME NEW n \in Nat, n <= 77
    PROVE  ListOctets(ServiceList(n), n)
<1> DEFINE m == 2 * n
           s == <<m + 2, 2>>
           t == [i \in 1 .. m |-> 100 + i]
<1>1. m \in Nat /\ m <= 154 /\ m + 2 = 2 + m
  OBVIOUS
<1>2. ServiceList(n) = s \o t
  BY DEF ServiceList
<1> HIDE DEF m
<1>3. m + 2 \in Octet /\ 2 \in Octet
  BY <1>1, OctetIs
<1>4. \A i \in 1 .. m : 100 + i \in Octet
  BY <1>1, OctetIs
<1>5. s \in Seq(Octet) /\ Sized(s, 2) /\ s[1] = m + 2 /\ s[2] = 2
  BY <1>3 DEF Sized
<1>6. t \in Seq(Octet) /\ Len(t) = m /\ \A i \in 1 .. m : t[i] = 100 + i
  BY <1>1, <1>4
<1> HIDE DEF s, t
<1>7. IsAppended(s \o t, s, 2, t)
  BY <1>5, <1>6, Appended
<1> DEFINE r == s \o t
<1>8. IsAppended(r, s, 2, t)
  BY <1>7
<1> HIDE DEF r
<1>9. ListOctets(r, n)
  <2>1. /\ r \in Seq(Octet) /\ Len(r) = 2 + m /\ r[1] = m + 2 /\ r[2] = 2
        /\ \A j \in 1 .. m : r[2 + j] = 100 + j
    <3>1. /\ r \in Seq(Octet) /\ Len(r) = 2 + Len(t)
          /\ \A i \in 1 .. 2 : r[i] = s[i]
          /\ \A i \in 1 .. Len(t) : r[2 + i] = t[i]
      BY <1>8, Zenon DEF IsAppended
    <3>2. 1 \in 1 .. 2 /\ 2 \in 1 .. 2
      OBVIOUS
    <3>3. r[1] = m + 2 /\ r[2] = 2
      BY <1>5, <3>1, <3>2, Zenon
    <3>4. ASSUME NEW j \in 1 .. m PROVE r[2 + j] = 100 + j
      BY <1>6, <3>1, Zenon
    <3>5. Len(r) = 2 + m
      BY <1>6, <3>1, Zenon
    <3> QED BY <3>1, <3>3, <3>4, <3>5, Zenon
  <2>2. Sized(r, 2 + m)
    BY <1>1, <2>1 DEF Sized
  <2> QED BY <2>1, <2>2, Zenon DEF ListOctets, m
<1> QED BY <1>2, <1>9 DEF r

(* What the client makes of an answer of a gateway.                        *)
ServicesOf(n) ==
    [i \in 1 .. n |-> <<99 + 2 * i, 100 + 2 * i>>] \o <<<<Unwritten, Unwritten>>>>

AnswerIs(service, host, n, q, out) ==
    /\ DOMAIN out = {"ok", "service", "payload"} /\ out.service = service
    /\ service = KNX_SEARCH_RESPONSE => knx_host_info_parse(From(q, 7)).value = host
    /\ service = KNX_DESCRIPTION_RESPONSE =>
          out.ok /\ out.payload.services = ServicesOf(n)

AnswerReceived(service, host, n, q, left) ==
    /\ q \in Seq(Octet) /\ Len(q) >= 6
    /\ AnswerIs(service, host, n, q, knx_parse(q \o left))

(* An answer is its header and octets that go to the parser of its service.*)
LEMMA AnswerParsed ==
    ASSUME NEW service \in Word, NEW g \in Seq(Octet), Len(g) <= 1000,
           NEW left \in Seq(Cell)
    PROVE  LET q == knx_header_generate(service, Len(g)) \o g IN
           /\ q \in Seq(Octet) /\ Len(q) >= 6 /\ From(q, 7) = g
           /\ knx_parse(q \o left) = ParsePacket(service, g)
<1> DEFINE n == Len(g)
           h == knx_header_generate(service, n)
<1>1. n \in Nat /\ n <= 1000 /\ Sized(g, n) /\ g \in Seq(Cell)
  BY CellSeq, LenProperties DEF Sized
<1>2. knx_parse((h \o g) \o left) = ParsePacket(service, g)
  <2> HIDE DEF n
  <2> QED BY <1>1, HeaderParsed, ZenonT(60)
<1>3. h \in Seq(Octet) /\ Sized(h, 6)
  <2> HIDE DEF n
  <2> QED BY <1>1, HeaderGenerated, Zenon
<1> HIDE DEF h
<1>4. h \o g \in Seq(Octet) /\ Len(h \o g) >= 6
  BY <1>3 DEF Sized
<1>5. 7 \in Nat /\ Sized(h, 7 - 1)
  BY <1>3
<1>6. From(h \o g, 7) = g
  BY <1>3, <1>5, CutEnd, Zenon
<1> QED BY <1>2, <1>4, <1>6, Zenon DEF h, n

SearchOctets(h, n) == <<8, h.protocol>> \o h.address \o h.port \o Device \o ServiceList(n)

(* A search response leaves the address of its sender.                     *)
LEMMA SearchReceived ==
    ASSUME NEW h \in KnxHostInfos, NEW n \in Nat, n <= 77, NEW left \in Seq(Cell)
    PROVE  LET g == SearchOctets(h, n) IN
           AnswerReceived(KNX_SEARCH_RESPONSE, h, n,
                          knx_header_generate(KNX_SEARCH_RESPONSE, Len(g)) \o g, left)
<1> DEFINE k == knx_host_info_generate(h)
           s == ServiceList(n)
           g == SearchOctets(h, n)
           q == knx_header_generate(KNX_SEARCH_RESPONSE, Len(g)) \o g
<1>1. g = (k \o Device) \o s
  BY DEF SearchOctets, knx_host_info_generate, KNX_HOST_INFO_SIZE
<1>2. k \in Seq(Octet) /\ Sized(k, 8)
  BY HostGenerated, Zenon
<1>3. s \in Seq(Octet) /\ Sized(s, 2 + 2 * n)
  BY ServiceListIs, Zenon DEF ListOctets
<1>4. Device \in Seq(Octet) /\ Sized(Device, 54)
  BY DeviceIs
<1> HIDE DEF k, s, g
<1>5. g \in Seq(Octet) /\ Len(g) <= 1000
  BY <1>1, <1>2, <1>3, <1>4 DEF Sized
<1>6. g = k \o (Device \o s)
  BY <1>1, <1>2, <1>3, <1>4, SMTT(40)
<1>7. Device \o s \in Seq(Cell)
  BY <1>3, <1>4, CellSeq
<1>8. KNX_SEARCH_RESPONSE \in Word
  BY DEF KNX_SEARCH_RESPONSE, Word
<1>9. /\ q \in Seq(Octet) /\ Len(q) >= 6 /\ From(q, 7) = g
      /\ knx_parse(q \o left) = ParsePacket(KNX_SEARCH_RESPONSE, g)
  BY <1>5, <1>8, AnswerParsed, Zenon
<1>10. knx_host_info_parse(From(q, 7)).value = h
  <2>1. knx_host_info_parse(g) = Valid(h)
    BY <1>6, <1>7, HostParsed, Zenon DEF k
  <2>2. Valid(h).value = h
    BY DEF Valid
  <2> QED BY <1>9, <2>1, <2>2, Zenon
<1> DEFINE u == knx_parse(q \o left)
<1>11. u = NotParsed(KNX_SEARCH_RESPONSE)
  <2>1. PayloadParse(KNX_SEARCH_RESPONSE, g) = [ok |-> FALSE]
    BY DEF PayloadParse, Invalid, KNX_SEARCH_RESPONSE,
          KNX_DESCRIPTION_REQUEST, KNX_DESCRIPTION_RESPONSE, KNX_CONNECTION_REQUEST,
          KNX_CONNECTION_RESPONSE, KNX_CONNECTION_STATE_REQUEST,
          KNX_CONNECTION_STATE_RESPONSE, KNX_DISCONNECT_REQUEST, KNX_DISCONNECT_RESPONSE,
          KNX_TUNNEL_REQUEST, KNX_TUNNEL_RESPONSE, KNX_ROUTING_INDICATION
  <2>2. "value" \notin DOMAIN [ok |-> FALSE]
    OBVIOUS
  <2>3. ParsePacket(KNX_SEARCH_RESPONSE, g) = NotParsed(KNX_SEARCH_RESPONSE)
    BY <2>1, <2>2, Zenon DEF ParsePacket
  <2> QED BY <1>9, <2>3, Zenon
<1> HIDE DEF u
<1>12. DOMAIN u = {"ok", "service", "payload"} /\ u.service = KNX_SEARCH_RESPONSE
  BY <1>11 DEF NotParsed
<1>13. KNX_SEARCH_RESPONSE # KNX_DESCRIPTION_RESPONSE
  BY DEF KNX_SEARCH_RESPONSE, KNX_DESCRIPTION_RESPONSE
<1>14. AnswerIs(KNX_SEARCH_RESPONSE, h, n, q, u)
  <2> HIDE DEF q
  <2> QED BY <1>10, <1>12, <1>13, Zenon DEF AnswerIs
<1> QED BY <1>9, <1>14, Zenon DEF AnswerReceived, u, g

(* The octets of a description response: 54 on the device, then the list.  *)
DescriptionOctets(n) == Device \o ServiceList(n)

(* The octets of a description.                                            *)
LEMMA DescriptionIs ==
    ASSUME NEW n \in Nat, n <= 77
    PROVE  /\ DescriptionOctets(n) \in Seq(Octet) /\ Len(DescriptionOctets(n)) = 56 + 2 * n
           /\ DescriptionOctets(n)[1] = 54 /\ DescriptionOctets(n)[2] = 1
           /\ DescriptionOctets(n)[55] = 2 * n + 2 /\ DescriptionOctets(n)[56] = 2
           /\ \A j \in 1 .. 2 * n : DescriptionOctets(n)[56 + j] = 100 + j
<1> DEFINE s == ServiceList(n)
           d == Device
           g == d \o s
           m == 2 * n
<1>1. /\ s \in Seq(Octet) /\ Sized(s, 2 + m) /\ s[1] = m + 2 /\ s[2] = 2
      /\ \A j \in 1 .. m : s[2 + j] = 100 + j
  BY ServiceListIs, Zenon DEF ListOctets
<1>2. d \in Seq(Octet) /\ Sized(d, 54) /\ d[1] = 54 /\ d[2] = 1
  BY DeviceIs
<1>3. m \in Nat
  OBVIOUS
<1> HIDE DEF s, d, m
<1>4. IsAppended(g, d, 54, s)
  BY <1>1, <1>2, Appended
<1> HIDE DEF g
<1>5. /\ g \in Seq(Octet) /\ Len(g) = 54 + Len(s)
      /\ \A i \in 1 .. 54 : g[i] = d[i]
      /\ \A i \in 1 .. Len(s) : g[54 + i] = s[i]
  BY <1>4, Zenon DEF IsAppended
<1>6. Len(s) = 2 + m
  BY <1>1, <1>3 DEF Sized
<1>7. Len(g) = 56 + m
  BY <1>3, <1>5, <1>6
<1>8. g[1] = 54 /\ g[2] = 1
  <2>1. 1 \in 1 .. 54 /\ 2 \in 1 .. 54
    OBVIOUS
  <2> QED BY <1>2, <1>5, <2>1, Zenon
<1>9. \A i \in 1 .. 2 + m : g[54 + i] = s[i]
  BY <1>5, <1>6, Zenon
<1>10. g[54 + 1] = m + 2 /\ g[54 + 2] = 2
  <2>1. 1 \in 1 .. 2 + m /\ 2 \in 1 .. 2 + m
    BY <1>3
  <2> QED BY <1>1, <1>9, <2>1, Zenon
<1>11. g[55] = m + 2 /\ g[56] = 2
  BY <1>10
<1>12. ASSUME NEW j \in 1 .. m PROVE g[56 + j] = 100 + j
  <2>1. 2 + j \in 1 .. 2 + m /\ 54 + (2 + j) = 56 + j
    BY <1>3
  <2>2. g[54 + (2 + j)] = s[2 + j]
    BY <1>9, <2>1, Zenon
  <2> QED BY <1>1, <2>1, <2>2, Zenon
<1> QED BY <1>5, <1>7, <1>8, <1>11, <1>12, Zenon DEF DescriptionOctets, g, d, s, m

(* The list that is made of them has the services and an entry more.       *)
LEMMA ServicesAre ==
    ASSUME NEW n \in Nat, n <= 77
    PROVE  Services(DescriptionOctets(n), n + 1) = ServicesOf(n)
<1> DEFINE g == DescriptionOctets(n)
           a == Services(g, n + 1)
           e == <<Unwritten, Unwritten>>
           k == [i \in 1 .. n |-> <<99 + 2 * i, 100 + 2 * i>>]
           b == k \o <<e>>
<1>1. Len(g) = 56 + 2 * n /\ \A j \in 1 .. 2 * n : g[56 + j] = 100 + j
  BY DescriptionIs, Zenon
<1> HIDE DEF g
<1>2. a = [i \in 1 .. n + 1 |-> IF 56 + 2 * i <= Len(g) THEN <<g[55 + 2 * i], g[56 + 2 * i]>>
                                                     ELSE e]
  BY DEF Services
<1> HIDE DEF a, e
<1>3. /\ Len(k) = n /\ DOMAIN k = 1 .. n /\ \A i \in 1 .. n : k[i] = <<99 + 2 * i, 100 + 2 * i>>
  OBVIOUS
<1>4. /\ DOMAIN b = 1 .. n + 1 /\ b[n + 1] = e
      /\ \A i \in 1 .. n : b[i] = <<99 + 2 * i, 100 + 2 * i>>
  OBVIOUS
<1> HIDE DEF k, b
<1>5. ASSUME NEW i \in 1 .. n + 1 PROVE a[i] = b[i]
  <2>1. CASE i <= n
    <3>1. i \in 1 .. n /\ 56 + 2 * i <= Len(g)
      BY <1>1, <2>1
    <3>2. a[i] = <<g[55 + 2 * i], g[56 + 2 * i]>>
      BY <1>2, <3>1
    <3>3. 2 * i - 1 \in 1 .. 2 * n /\ 2 * i \in 1 .. 2 * n
      BY <3>1
    <3>4. g[56 + (2 * i - 1)] = 100 + (2 * i - 1) /\ g[56 + 2 * i] = 100 + 2 * i
      BY <1>1, <3>3, Zenon
    <3>5. 56 + (2 * i - 1) = 55 + 2 * i /\ 100 + (2 * i - 1) = 99 + 2 * i
      BY <3>1
    <3>6. g[55 + 2 * i] = 99 + 2 * i
      BY <3>4, <3>5, Zenon
    <3>7. a[i] = <<99 + 2 * i, 100 + 2 * i>>
      BY <3>2, <3>4, <3>6, Zenon
    <3>8. b[i] = <<99 + 2 * i, 100 + 2 * i>>
      BY <1>4, <3>1, Zenon
    <3> QED BY <3>7, <3>8, Zenon
  <2>2. CASE ~(i <= n)
    <3>1. i = n + 1 /\ ~(56 + 2 * i <= Len(g))
      BY <1>1, <2>2
    <3>2. a[i] = e
      BY <1>2, <3>1
    <3> QED BY <1>4, <3>1, <3>2, Zenon
  <2> QED BY <2>1, <2>2, Zenon
<1>6. a = b
  <2>1. a = [i \in 1 .. n + 1 |-> a[i]]
    BY <1>2
  <2>2. b = [i \in 1 .. n + 1 |-> b[i]]
    BY <1>4 DEF b, k
  <2> QED BY <1>5, <2>1, <2>2, Zenon
<1> QED BY <1>6, Zenon DEF a, b, g, e, k, ServicesOf

(* A description response is received with the services it lists.          *)
LEMMA DescriptionReceived ==
    ASSUME NEW n \in Nat, n <= 77, NEW left \in Seq(Cell)
    PROVE  LET g == DescriptionOctets(n) IN
           AnswerReceived(KNX_DESCRIPTION_RESPONSE, NoHost, n,
                          knx_header_generate(KNX_DESCRIPTION_RESPONSE, Len(g)) \o g, left)
<1> DEFINE g == DescriptionOctets(n)
           q == knx_header_generate(KNX_DESCRIPTION_RESPONSE, Len(g)) \o g
           v == [medium |-> g[3], status |-> g[4], address |-> From16(g, 5),
                 id |-> From16(g, 7), serial |-> SubSeq(g, 9, 14),
                 multicast |-> SubSeq(g, 15, 18), mac |-> SubSeq(g, 19, 24),
                 name |-> SubSeq(g, 25, 53), services |-> Services(g, g[55] \div 2)]
           z == PayloadParse(KNX_DESCRIPTION_RESPONSE, g)
           u == knx_parse(q \o left)
<1>1. /\ g \in Seq(Octet) /\ Len(g) = 56 + 2 * n
      /\ g[1] = 54 /\ g[2] = 1 /\ g[55] = 2 * n + 2 /\ g[56] = 2
  BY DescriptionIs, Zenon
<1>2. Services(g, n + 1) = ServicesOf(n)
  BY ServicesAre, Zenon
<1> HIDE DEF g
<1>3. Len(g) <= 1000
  BY <1>1
<1>4. KNX_DESCRIPTION_RESPONSE \in Word
  BY DEF KNX_DESCRIPTION_RESPONSE, Word
<1>5. /\ q \in Seq(Octet) /\ Len(q) >= 6 /\ From(q, 7) = g
      /\ u = ParsePacket(KNX_DESCRIPTION_RESPONSE, g)
  BY <1>1, <1>3, <1>4, AnswerParsed, Zenon
<1>6. z = knx_description_response_parse(g)
  BY DEF PayloadParse,
          KNX_DESCRIPTION_REQUEST, KNX_DESCRIPTION_RESPONSE, KNX_CONNECTION_REQUEST,
          KNX_CONNECTION_RESPONSE, KNX_CONNECTION_STATE_REQUEST,
          KNX_CONNECTION_STATE_RESPONSE, KNX_DISCONNECT_REQUEST, KNX_DISCONNECT_RESPONSE,
          KNX_TUNNEL_REQUEST, KNX_TUNNEL_RESPONSE, KNX_ROUTING_INDICATION
<1>7. (2 * n + 2) % 2 = 0 /\ (2 * n + 2) \div 2 = n + 1
  OBVIOUS
<1>8. g[55] % 2 = 0 /\ g[55] \div 2 = n + 1
  BY <1>1, <1>7, Zenon
<1>9. ~(\/ Len(g) < 56 \/ g[1] # 54 \/ g[2] # 1 \/ g[55] % 2 # 0 \/ g[56] # 2)
  BY <1>1, <1>8
<1>10. knx_description_response_parse(g) = Valid(v)
  BY <1>9, Zenon DEF knx_description_response_parse
<1>11. v.services = ServicesOf(n)
  <2>1. v.services = Services(g, g[55] \div 2)
    OBVIOUS
  <2> QED BY <1>2, <1>8, <2>1, Zenon
<1> HIDE DEF v, z
<1>12. z = Valid(v)
  BY <1>6, <1>10, Zenon
<1>13. "value" \in DOMAIN z /\ z.ok = TRUE /\ z.value = v
  BY <1>12 DEF Valid
<1> HIDE DEF u, q
<1>14. u = [ok |-> z.ok, service |-> KNX_DESCRIPTION_RESPONSE, payload |-> z.value]
  BY <1>5, <1>13, Zenon DEF ParsePacket, z
<1>15. /\ DOMAIN u = {"ok", "service", "payload"} /\ u.ok = TRUE
       /\ u.service = KNX_DESCRIPTION_RESPONSE /\ u.payload = v
  BY <1>13, <1>14
<1>16. KNX_DESCRIPTION_RESPONSE # KNX_SEARCH_RESPONSE
  BY DEF KNX_SEARCH_RESPONSE, KNX_DESCRIPTION_RESPONSE
<1>17. AnswerIs(KNX_DESCRIPTION_RESPONSE, NoHost, n, q, u)
  BY <1>11, <1>15, <1>16, Zenon DEF AnswerIs
<1> QED BY <1>5, <1>17, Zenon DEF AnswerReceived, u, q, g

-----------------------------------------------------------------------------
(* Datapoint values.  A value in hundredths has an exponent, the least one *)
(* that brings it into 12 bits.                                            *)
FloatFits(x, e) == -2048 * 2^e <= x /\ x <= 2047 * 2^e

Power(e) == 2^e

(* The powers of two that exponents make.                                  *)
LEMMA Powers ==
    /\ Power(0) = 1 /\ Power(1) = 2 /\ Power(2) = 4 /\ Power(3) = 8 /\ Power(4) = 16
    /\ Power(5) = 32 /\ Power(6) = 64 /\ Power(7) = 128 /\ Power(8) = 256
    /\ Power(9) = 512 /\ Power(10) = 1024 /\ Power(11) = 2048 /\ Power(12) = 4096
    /\ Power(13) = 8192 /\ Power(14) = 16384 /\ Power(15) = 32768
BY SMT DEF Power

(* A power of two is a positive number.                                    *)
LEMMA PowerIs ==
    ASSUME NEW e \in 0 .. 15
    PROVE  2^e \in Nat /\ 2^e >= 1
<1>1. \/ e = 0 \/ e = 1 \/ e = 2 \/ e = 3 \/ e = 4 \/ e = 5 \/ e = 6 \/ e = 7 \/ e = 8
      \/ e = 9 \/ e = 10 \/ e = 11 \/ e = 12 \/ e = 13 \/ e = 14 \/ e = 15
  OBVIOUS
<1>2. Power(e) \in Nat /\ Power(e) >= 1
  BY <1>1, Powers, SMT
<1> QED BY <1>2 DEF Power

(* What Exponent chooses, with the powers of two as they are written.      *)
Smaller(x, f) == x < -2048 * 2^f \/ x > 2047 * 2^f
LeastFit(x, e) ==
    /\ -2048 * 2^e <= x /\ x <= 2047 * 2^e
    /\ \A f \in 0 .. (e - 1) : x < -2048 * 2^f \/ x > 2047 * 2^f
NoneBelow(x, k) == \A f \in 0 .. (k - 1) : Smaller(x, f)

(* The conditions on an exponent, without their literals.                  *)
LEMMA SmallerIs ==
    ASSUME NEW x \in Floats, NEW e \in 0 .. 15
    PROVE  /\ Smaller(x, e) <=> ~FloatFits(x, e)
           /\ LeastFit(x, e) <=> FloatFits(x, e) /\ NoneBelow(x, e)
<1> DEFINE p == 2^e
           lo == -2048 * p
           hi == 2047 * p
<1>1. p \in Nat /\ x \in Int
  <2>1. p \in Nat
    BY PowerIs, Zenon
  <2> QED BY <2>1, SMT DEF Floats
<1>2. (Smaller(x, e) <=> x < lo \/ x > hi) /\ (FloatFits(x, e) <=> lo <= x /\ x <= hi)
  BY Zenon DEF Smaller, FloatFits
<1>3. LeastFit(x, e) <=> FloatFits(x, e) /\ NoneBelow(x, e)
  BY Zenon DEF LeastFit, FloatFits, NoneBelow, Smaller
<1> HIDE DEF p
<1>4. lo \in Int /\ hi \in Int
  BY <1>1
<1> HIDE DEF lo, hi
<1>5. (x < lo \/ x > hi) <=> ~(lo <= x /\ x <= hi)
  BY <1>1, <1>4
<1> QED BY <1>2, <1>3, <1>5, Zenon

(* An exponent that is not the least one does not fit.                     *)
LEMMA NextBelow ==
    ASSUME NEW x \in Floats, NEW k \in 0 .. 15, NoneBelow(x, k), ~LeastFit(x, k)
    PROVE  NoneBelow(x, k + 1)
<1>1. Smaller(x, k)
  BY SmallerIs, Zenon
<1>2. ASSUME NEW f \in 0 .. ((k + 1) - 1) PROVE f = k \/ f \in 0 .. (k - 1)
  OBVIOUS
<1>3. ASSUME NEW f \in 0 .. ((k + 1) - 1) PROVE Smaller(x, f)
  BY <1>1, <1>2, <1>3, Zenon DEF NoneBelow
<1> QED BY <1>3, Zenon DEF NoneBelow

(* The exponent that is chosen is the least one that fits.                 *)
LEMMA ExponentIs ==
    ASSUME NEW x \in Floats
    PROVE  /\ Exponent(x) \in 0 .. 15 /\ FloatFits(x, Exponent(x))
           /\ \A f \in 0 .. (Exponent(x) - 1) : ~FloatFits(x, f)
<1>1. \E e \in 0 .. 15 : LeastFit(x, e)
  <2>1. SUFFICES ASSUME \A e \in 0 .. 15 : ~LeastFit(x, e)
                 PROVE  FALSE
    OBVIOUS
  <2>2. NoneBelow(x, 0)
    BY DEF NoneBelow
  <2>3. ASSUME NEW k \in 0 .. 15, NoneBelow(x, k) PROVE NoneBelow(x, k + 1)
    BY <2>1, <2>3, NextBelow, Zenon
  <2>4. NoneBelow(x, 1) /\ NoneBelow(x, 2) /\ NoneBelow(x, 3) /\ NoneBelow(x, 4)
    BY <2>2, <2>3
  <2>5. NoneBelow(x, 5) /\ NoneBelow(x, 6) /\ NoneBelow(x, 7) /\ NoneBelow(x, 8)
    BY <2>3, <2>4
  <2>6. NoneBelow(x, 9) /\ NoneBelow(x, 10) /\ NoneBelow(x, 11) /\ NoneBelow(x, 12)
    BY <2>3, <2>5
  <2>7. NoneBelow(x, 16)
    BY <2>3, <2>6
  <2>8. 15 \in 0 .. (16 - 1) /\ 15 \in 0 .. 15
    OBVIOUS
  <2>9. ~FloatFits(x, 15)
    BY <2>7, <2>8, SmallerIs, Zenon DEF NoneBelow
  <2>10. FloatFits(x, 15)
    <3> DEFINE p == 2^15
               lo == -2048 * p
               hi == 2047 * p
    <3>1. p = 32768
      BY Powers, SMT DEF Power
    <3>2. FloatFits(x, 15) <=> lo <= x /\ x <= hi
      BY Zenon DEF FloatFits
    <3> HIDE DEF p
    <3>3. lo <= x /\ x <= hi
      BY <3>1, SMT DEF Floats
    <3> HIDE DEF lo, hi
    <3> QED BY <3>2, <3>3, Zenon
  <2> QED BY <2>9, <2>10
<1> DEFINE z == Exponent(x)
<1>2. z = CHOOSE e \in 0 .. 15 : LeastFit(x, e)
  BY Zenon DEF Exponent, LeastFit
<1>3. z \in 0 .. 15 /\ LeastFit(x, z)
  <2> HIDE DEF z
  <2> QED BY <1>1, <1>2, Zenon
<1> HIDE DEF z
<1>4. FloatFits(x, z) /\ NoneBelow(x, z)
  BY <1>3, SmallerIs, Zenon
<1>5. ASSUME NEW f \in 0 .. (z - 1) PROVE ~FloatFits(x, f)
  <2>1. f \in 0 .. 15
    BY <1>3
  <2> QED BY <1>4, <2>1, SmallerIs, Zenon DEF NoneBelow
<1> QED BY <1>3, <1>4, <1>5, Zenon DEF z

(* A 16-bit float is two octets.                                           *)
LEMMA FloatOctets ==
    ASSUME NEW x \in Floats
    PROVE  /\ knx_dpt_generate_float16(x) \in Seq(Octet)
           /\ Sized(knx_dpt_generate_float16(x), 2)
<1> DEFINE e == Exponent(x)
           cut == Mantissa(x, e)
           m == IF cut < 0 THEN cut - 1 ELSE cut
           first == (IF m < 0 THEN 128 ELSE 0) + e * 8 + ((m % 2048) \div 256)
           second == m % 256
<1>1. Clip(x) = x
  BY DEF Clip, Floats
<1>2. e \in 0 .. 15 /\ 2^e \in Nat /\ 2^e >= 1
  BY ExponentIs, PowerIs, Zenon
<1>3. knx_dpt_generate_float16(x) = <<first, second>>
  BY <1>1 DEF knx_dpt_generate_float16
<1> HIDE DEF e
<1>4. cut \in Int
  <2> DEFINE p == 2^e
  <2>1. p \in Nat /\ p >= 1
    BY <1>2
  <2> HIDE DEF p
  <2>2. x \div p \in Int /\ (-x) \div p \in Int
    BY <2>1 DEF Floats
  <2> QED BY <2>2 DEF Mantissa, p
<1> HIDE DEF cut
<1>5. m \in Int
  BY <1>4
<1> HIDE DEF m
<1>6. first \in Octet /\ second \in Octet
  <2>1. m % 2048 \in 0 .. 2047 /\ m % 256 \in 0 .. 255
    BY <1>5
  <2>2. (m % 2048) \div 256 \in 0 .. 7
    BY <2>1
  <2> DEFINE r == (m % 2048) \div 256
             s == IF m < 0 THEN 128 ELSE 0
  <2>3. s \in {0, 128}
    OBVIOUS
  <2> HIDE DEF r, s
  <2>4. s + e * 8 + r \in Octet
    BY <1>2, <2>2, <2>3, OctetIs DEF r
  <2> QED BY <2>1, <2>4 DEF r, s, Octet
<1> HIDE DEF first, second
<1> QED BY <1>3, <1>6 DEF Sized

(* The APDU of a value, and as it is received: the apci of a request to    *)
(* write is in the high bits of its first octet.                           *)
Apdu(v) == knx_dpt_to_apdu(v.type, v.value, 0)
Marked(a) == [a EXCEPT ![1] = (@ % 64) + 64 * 2]

IsMarked(r, a) ==
    /\ r \in Seq(Octet) /\ Len(r) = Len(a) /\ r[1] = (a[1] % 64) + 128
    /\ \A i \in 2 .. Len(a) : r[i] = a[i]

(* The apci changes the first octet only.                                  *)
LEMMA MarkedIs ==
    ASSUME NEW a \in Seq(Octet), 1 <= Len(a)
    PROVE  IsMarked(Marked(a), a)
<1> DEFINE x == (a[1] % 64) + 64 * 2
           r == [a EXCEPT ![1] = x]
<1>1. Marked(a) = r
  BY DEF Marked
<1>2. a[1] \in Nat
  <2>1. a[1] \in Octet
    OBVIOUS
  <2> QED BY <2>1, OctetIs
<1>3. x = (a[1] % 64) + 128 /\ x \in Octet
  <2> DEFINE b == a[1]
  <2>0. b \in Nat
    BY <1>2
  <2> HIDE DEF b
  <2> DEFINE y == b % 64
  <2>2. y \in Nat /\ y <= 63
    BY <2>0
  <2> HIDE DEF y
  <2>3. y + 64 * 2 = y + 128 /\ y + 128 \in Octet
    BY <2>2, OctetIs
  <2>4. y + 64 * 2 \in Octet
    BY <2>3, Zenon
  <2> QED BY <2>3, <2>4, Zenon DEF b, y
<1> HIDE DEF x
<1>4. r \in Seq(Octet) /\ Len(r) = Len(a) /\ r[1] = x /\ \A i \in 2 .. Len(a) : r[i] = a[i]
  BY <1>3
<1> HIDE DEF r
<1> QED BY <1>1, <1>3, <1>4, Zenon DEF IsMarked

(* What is claimed of a value.                                             *)
IsKept(v) ==
    /\ Apdu(v) \in OctetsFrom(1)
    /\ ReceivedValue(v, knx_dpt_from_apdu(Marked(Apdu(v)), v.type, v.size))

(* Types of one octet.                                                     *)
OneOctet(a, x) == a \in Seq(Octet) /\ Len(a) = 1 /\ a[1] = x

(* A sequence of 1 to 255 octets is a payload.                             *)
LEMMA OctetsFromIs ==
    ASSUME NEW a \in Seq(Octet), NEW n \in 1 .. 255, Len(a) = n
    PROVE  a \in OctetsFrom(1)
<1>1. n \in Nat /\ 1 <= n /\ n <= 255
  OBVIOUS
<1>2. 1 <= Len(a) /\ Len(a) <= 255
  BY <1>1, Zenon
<1> QED BY <1>2 DEF OctetsFrom

(* A small number in one octet survives the apci.                          *)
LEMMA OneMarked ==
    ASSUME NEW a, NEW x \in Nat, x <= 63, OneOctet(a, x)
    PROVE  /\ a \in OctetsFrom(1) /\ Len(Marked(a)) = 1 /\ Marked(a)[1] = x + 128
<1>1. IsMarked(Marked(a), a)
  BY MarkedIs DEF OneOctet
<1>2. x % 64 = x
  OBVIOUS
<1>3. Len(a) = 1 /\ a[1] = x
  BY DEF OneOctet
<1>4. Len(Marked(a)) = 1 /\ Marked(a)[1] = x + 128
  BY <1>1, <1>2, <1>3, Zenon DEF IsMarked
<1>5. a \in OctetsFrom(1)
  <2> DEFINE n == Len(a)
  <2>1. n \in Nat /\ 1 <= n /\ n <= 255
    BY <1>3
  <2>2. a \in Seq(Octet)
    BY Zenon DEF OneOctet
  <2> HIDE DEF n
  <2>3. 1 <= n /\ n <= 255
    BY <2>1
  <2> QED BY <2>2, <2>3, Zenon DEF OctetsFrom, n
<1> QED BY <1>4, <1>5, Zenon

(* Type bool is kept.                                                      *)
LEMMA BoolKept ==
    ASSUME NEW v \in [type : {"bool"}, value : 0 .. 1, size : {0}]
    PROVE  IsKept(v)
<1> DEFINE x == v.value
           a == Apdu(v)
           r == Marked(a)
<1>1. v.type = "bool" /\ v.size = 0 /\ x \in 0 .. 1
  OBVIOUS
<1> HIDE DEF x
<1>2. a = <<x>>
  <2>1. knx_dpt_to_apdu("bool", x, 0) = <<64 * (0 \div 64) + x>>
    BY DEF knx_dpt_to_apdu
  <2>2. 64 * (0 \div 64) + x = x
    BY <1>1
  <2> QED BY <1>1, <2>1, <2>2, Zenon DEF Apdu, x
<1> HIDE DEF a
<1>3. x \in Nat /\ x <= 63 /\ OneOctet(a, x)
  BY <1>1, <1>2 DEF OneOctet, Octet
<1>4. a \in OctetsFrom(1) /\ Len(r) = 1 /\ r[1] = x + 128
  BY <1>3, OneMarked, Zenon
<1> HIDE DEF r
<1>5. r[1] % 2 = x
  BY <1>1, <1>4
<1> DEFINE got == knx_dpt_from_apdu(r, "bool", 0)
<1>6. got = Valid(r[1] % 2)
  BY <1>4 DEF knx_dpt_from_apdu, LongEnough, knx_dpt_size
<1>7. got.ok = TRUE /\ got.value = x
  <2> HIDE DEF got
  <2> QED BY <1>5, <1>6 DEF Valid
<1> HIDE DEF got
<1>8. ReceivedValue(v, got)
  BY <1>1, <1>7 DEF ReceivedValue, x
<1> QED BY <1>1, <1>4, <1>8, Zenon DEF IsKept, got, r, a

(* Type cvalue is kept.                                                    *)
LEMMA ControlledKept ==
    ASSUME NEW v \in [type : {"cvalue"}, value : [control : 0 .. 1, value : 0 .. 1], size : {0}]
    PROVE  IsKept(v)
<1> DEFINE c == v.value.control
           y == v.value.value
           x == 2 * c + y
           a == Apdu(v)
           r == Marked(a)
<1>1. /\ v.type = "cvalue" /\ v.size = 0 /\ c \in 0 .. 1 /\ y \in 0 .. 1
      /\ v.value = [control |-> c, value |-> y]
  OBVIOUS
<1>2. a = <<x>>
  <2>1. knx_dpt_to_apdu("cvalue", v.value, 0) = <<64 * (0 \div 64) + 2 * c + y>>
    BY DEF knx_dpt_to_apdu
  <2>2. 64 * (0 \div 64) + 2 * c + y = x
    BY <1>1
  <2> QED BY <1>1, <2>1, <2>2, Zenon DEF Apdu
<1> HIDE DEF a, c, y
<1>3. x \in Nat /\ x <= 63 /\ x <= 255
  BY <1>1
<1>4. (x + 128) % 2 = y /\ ((x + 128) \div 2) % 2 = c
  BY <1>1
<1> HIDE DEF x
<1>5. x \in Octet
  BY <1>3, OctetIs, Zenon
<1>6. OneOctet(a, x)
  BY <1>2, <1>5 DEF OneOctet
<1>7. a \in OctetsFrom(1) /\ Len(r) = 1 /\ r[1] = x + 128
  BY <1>3, <1>6, OneMarked, Zenon
<1> HIDE DEF r
<1>8. r[1] \in Nat /\ r[1] % 2 = y /\ (r[1] \div 2) % 2 = c
  BY <1>3, <1>4, <1>7
<1>9. Bit(r[1], 1) = c
  BY <1>8, Bits, Zenon
<1> DEFINE got == knx_dpt_from_apdu(r, "cvalue", 0)
<1>10. got = Valid([control |-> Bit(r[1], 1), value |-> r[1] % 2])
  BY <1>7 DEF knx_dpt_from_apdu, LongEnough, knx_dpt_size
<1>11. got = Valid(v.value)
  BY <1>1, <1>8, <1>9, <1>10, Zenon
<1>12. got.ok = TRUE /\ got.value = v.value
  <2> HIDE DEF got
  <2> QED BY <1>11 DEF Valid
<1> HIDE DEF got
<1>13. ReceivedValue(v, got)
  BY <1>1, <1>12 DEF ReceivedValue
<1> QED BY <1>1, <1>7, <1>13, Zenon DEF IsKept, got, r, a

(* Type cstep is kept.                                                     *)
LEMMA StepKept ==
    ASSUME NEW v \in [type : {"cstep"}, value : [control : 0 .. 1, step : 0 .. 7], size : {0}]
    PROVE  IsKept(v)
<1> DEFINE c == v.value.control
           y == v.value.step
           x == 8 * c + y
           a == Apdu(v)
           r == Marked(a)
<1>1. /\ v.type = "cstep" /\ v.size = 0 /\ c \in 0 .. 1 /\ y \in 0 .. 7
      /\ v.value = [control |-> c, step |-> y]
  OBVIOUS
<1>2. a = <<x>>
  <2>1. knx_dpt_to_apdu("cstep", v.value, 0) = <<64 * (0 \div 64) + (8 * c + (y % 8))>>
    BY DEF knx_dpt_to_apdu, knx_dpt_generate_cstep
  <2>2. 64 * (0 \div 64) + (8 * c + (y % 8)) = x
    BY <1>1
  <2> QED BY <1>1, <2>1, <2>2, Zenon DEF Apdu
<1> HIDE DEF a, c, y
<1>3. x \in Nat /\ x <= 63 /\ x <= 255
  BY <1>1
<1>4. (x + 128) % 8 = y /\ ((x + 128) \div 8) % 2 = c
  BY <1>1
<1> HIDE DEF x
<1>5. x \in Octet
  BY <1>3, OctetIs, Zenon
<1>6. OneOctet(a, x)
  BY <1>2, <1>5 DEF OneOctet
<1>7. a \in OctetsFrom(1) /\ Len(r) = 1 /\ r[1] = x + 128
  BY <1>3, <1>6, OneMarked, Zenon
<1> HIDE DEF r
<1>8. r[1] \in Nat /\ r[1] % 8 = y /\ (r[1] \div 8) % 2 = c
  BY <1>3, <1>4, <1>7
<1>9. Bit(r[1], 3) = c
  BY <1>8, Bits, Zenon
<1> DEFINE got == knx_dpt_from_apdu(r, "cstep", 0)
<1>10. got = Valid([control |-> Bit(r[1], 3), step |-> r[1] % 8])
  BY <1>7 DEF knx_dpt_from_apdu, LongEnough, knx_dpt_size
<1>11. got = Valid(v.value)
  BY <1>1, <1>8, <1>9, <1>10, Zenon
<1>12. got.ok = TRUE /\ got.value = v.value
  <2> HIDE DEF got
  <2> QED BY <1>11 DEF Valid
<1> HIDE DEF got
<1>13. ReceivedValue(v, got)
  BY <1>1, <1>12 DEF ReceivedValue
<1> QED BY <1>1, <1>7, <1>13, Zenon DEF IsKept, got, r, a

(* The types that are copied are kept.                                     *)
LEMMA CopiedKept ==
    ASSUME NEW v \in [type : {"asis"}, value : Seq(Octet), size : {1, 2, 4}], Len(v.value) = v.size
    PROVE  IsKept(v)
<1> DEFINE q == v.value
           n == v.size
           s == <<0>>
           a == Apdu(v)
           r == Marked(a)
<1>1. v.type = "asis" /\ q \in Seq(Octet) /\ n \in {1, 2, 4} /\ Len(q) = n
  OBVIOUS
<1>2. n \in Nat /\ n >= 1 /\ n <= 4
  BY <1>1
<1>3. a = s \o q
  <2>1. knx_dpt_to_apdu("asis", q, 0) = <<64 * (0 \div 64)>> \o q
    BY DEF knx_dpt_to_apdu
  <2>2. 64 * (0 \div 64) = 0
    OBVIOUS
  <2> QED BY <1>1, <2>1, <2>2, Zenon DEF Apdu
<1>4. s \in Seq(Octet) /\ Sized(s, 1)
  BY DEF Octet, Sized
<1> HIDE DEF q, n, s, a
<1>5. IsAppended(a, s, 1, q)
  BY <1>1, <1>3, <1>4, Appended
<1>6. /\ a \in Seq(Octet) /\ Len(a) = 1 + n /\ \A i \in 1 .. n : a[1 + i] = q[i]
  BY <1>1, <1>5, Zenon DEF IsAppended
<1>7. a \in OctetsFrom(1) /\ 1 <= Len(a)
  <2>1. 1 <= Len(a) /\ Len(a) <= 255
    BY <1>2, <1>6
  <2> QED BY <1>6, <2>1 DEF OctetsFrom
<1>8. IsMarked(r, a)
  BY <1>6, <1>7, MarkedIs, Zenon
<1> HIDE DEF r
<1>9. r \in Seq(Octet) /\ Len(r) = 1 + n /\ \A i \in 1 .. n : r[1 + i] = q[i]
  <2>1. r \in Seq(Octet) /\ Len(r) = Len(a) /\ \A i \in 2 .. Len(a) : r[i] = a[i]
    BY <1>8, Zenon DEF IsMarked
  <2>2. ASSUME NEW i \in 1 .. n PROVE r[1 + i] = q[i]
    <3>1. 1 + i \in 2 .. Len(a)
      BY <1>2, <1>6
    <3> QED BY <1>6, <2>1, <3>1, Zenon
  <2> QED BY <1>6, <2>1, <2>2, Zenon
<1>10. SubSeq(r, 2, n + 1) = q
  <2>1. Sized(q, ((n + 1) - 2) + 1)
    BY <1>1, <1>2 DEF Sized
  <2>2. ASSUME NEW i \in 1 .. ((n + 1) - 2) + 1 PROVE r[(2 + i) - 1] = q[i]
    <3>1. i \in 1 .. n /\ (2 + i) - 1 = 1 + i
      BY <1>2
    <3> QED BY <1>9, <3>1, Zenon
  <2>3. 2 \in Nat /\ 2 >= 1 /\ n + 1 \in Nat /\ n + 1 <= Len(r)
    BY <1>2, <1>9
  <2> HIDE DEF r
  <2> QED BY <1>1, <1>9, <2>1, <2>2, <2>3, CutIs
<1> DEFINE got == knx_dpt_from_apdu(r, "asis", n)
<1>11. got = Valid(SubSeq(r, 2, n + 1))
  <2>1. Len(r) >= n + 1
    BY <1>2, <1>9
  <2> QED BY <2>1 DEF knx_dpt_from_apdu, LongEnough
<1>12. got = Valid(q)
  BY <1>10, <1>11, Zenon
<1>13. got.ok = TRUE /\ got.value = q
  <2> HIDE DEF got
  <2> QED BY <1>12 DEF Valid
<1> HIDE DEF got
<1>14. ReceivedValue(v, got)
  BY <1>1, <1>13 DEF ReceivedValue, q
<1> QED BY <1>1, <1>7, <1>14, Zenon DEF IsKept, got, r, a, n

(* Types of three octets behind the first.                                 *)
FourOctets(a, x, y, z) ==
    /\ a \in OctetsFrom(1) /\ Len(Marked(a)) = 4
    /\ Marked(a)[2] = x /\ Marked(a)[3] = y /\ Marked(a)[4] = z

(* The three octets behind the first one.                                  *)
LEMMA FourMarked ==
    ASSUME NEW x \in Octet, NEW y \in Octet, NEW z \in Octet
    PROVE  FourOctets(<<0, x, y, z>>, x, y, z)
<1> DEFINE a == <<0, x, y, z>>
           r == Marked(a)
<1>1. 0 \in Octet
  BY DEF Octet
<1>2. /\ a \in Seq(Octet) /\ Len(a) = 4 /\ a[2] = x /\ a[3] = y /\ a[4] = z
  BY <1>1
<1> HIDE DEF a
<1>3. 4 \in 1 .. 255
  OBVIOUS
<1>4. a \in OctetsFrom(1)
  BY <1>2, <1>3, OctetsFromIs, Zenon
<1>5. IsMarked(r, a)
  <2>1. 1 <= Len(a)
    BY <1>2
  <2> QED BY <1>2, <2>1, MarkedIs, Zenon
<1> HIDE DEF r
<1>6. 2 \in 2 .. 4 /\ 3 \in 2 .. 4 /\ 4 \in 2 .. 4
  OBVIOUS
<1>7. Len(r) = 4 /\ r[2] = x /\ r[3] = y /\ r[4] = z
  BY <1>2, <1>5, <1>6, Zenon DEF IsMarked
<1>8. FourOctets(a, x, y, z)
  BY <1>4, <1>7, Zenon DEF FourOctets, r
<1> QED BY <1>8 DEF a

(* A time of day is kept, without its day of the week.                     *)
LEMMA TimeKept ==
    ASSUME NEW v \in [type : {"time"}, size : {0}, value :
                         [day : 0 .. 7, hour : 0 .. 23, minute : 0 .. 59, second : 0 .. 59]]
    PROVE  IsKept(v)
<1> DEFINE d == v.value.day
           h == v.value.hour
           m == v.value.minute
           s == v.value.second
           a == Apdu(v)
           r == Marked(a)
<1>1. /\ v.type = "time" /\ v.size = 0
      /\ v.value = [day |-> d, hour |-> h, minute |-> m, second |-> s]
  OBVIOUS
<1>2. /\ d \in Nat /\ d <= 7 /\ h \in Nat /\ h <= 23 /\ m \in Nat /\ m <= 59
      /\ s \in Nat /\ s <= 59
  OBVIOUS
<1>3. knx_dpt_to_apdu("time", v.value, 0)
      = <<64 * (0 \div 64), ((d % 8) \div 32) + (h % 24), m % 60, s % 60>>
  BY DEF knx_dpt_to_apdu
<1> HIDE DEF d, h, m, s
<1>4. /\ 64 * (0 \div 64) = 0 /\ ((d % 8) \div 32) + (h % 24) = h /\ m % 60 = m /\ s % 60 = s
  <2>1. 64 * (0 \div 64) = 0
    OBVIOUS
  <2>2. (d % 8) \div 32 = 0
    BY <1>2
  <2>3. h % 24 = h /\ m % 60 = m /\ s % 60 = s
    BY <1>2
  <2>4. 0 + h = h
    BY <1>2
  <2> QED BY <2>1, <2>2, <2>3, <2>4, Zenon
<1>5. a = <<0, h, m, s>>
  BY <1>1, <1>3, <1>4, Zenon DEF Apdu
<1>6. h \in Octet /\ m \in Octet /\ s \in Octet
  BY <1>2, OctetIs
<1> HIDE DEF a
<1>7. a \in OctetsFrom(1) /\ Len(r) = 4 /\ r[2] = h /\ r[3] = m /\ r[4] = s
  <2>1. FourOctets(a, h, m, s)
    BY <1>5, <1>6, FourMarked, Zenon
  <2> QED BY <2>1, Zenon DEF FourOctets, r
<1> HIDE DEF r
<1>8. /\ h \div 32 = 0 /\ (h % 32) % 24 = h /\ (m % 64) % 60 = m /\ (s % 64) % 60 = s
  BY <1>2
<1> DEFINE got == knx_dpt_from_apdu(r, "time", 0)
<1>9. got = Valid([day |-> r[2] \div 32, hour |-> (r[2] % 32) % 24,
                   minute |-> (r[3] % 64) % 60, second |-> (r[4] % 64) % 60])
  BY <1>7 DEF knx_dpt_from_apdu, LongEnough, knx_dpt_size
<1>10. got = Valid([day |-> 0, hour |-> h, minute |-> m, second |-> s])
  BY <1>7, <1>8, <1>9, Zenon
<1>11. [v.value EXCEPT !.day = 0] = [day |-> 0, hour |-> h, minute |-> m, second |-> s]
  BY <1>1
<1>12. got.ok = TRUE /\ got.value = [v.value EXCEPT !.day = 0]
  <2> HIDE DEF got
  <2>1. got = Valid([v.value EXCEPT !.day = 0])
    BY <1>10, <1>11, Zenon
  <2> QED BY <2>1 DEF Valid
<1> HIDE DEF got
<1>13. ReceivedValue(v, got)
  BY <1>1, <1>12 DEF ReceivedValue
<1> QED BY <1>1, <1>7, <1>13, Zenon DEF IsKept, got, r, a

(* A date is kept.                                                         *)
LEMMA DateKept ==
    ASSUME NEW v \in [type : {"date"}, size : {0}, value :
                         [day : 0 .. 31, month : 0 .. 12, year : 0 .. 99]]
    PROVE  IsKept(v)
<1> DEFINE d == v.value.day
           m == v.value.month
           y == v.value.year
           a == Apdu(v)
           r == Marked(a)
<1>1. /\ v.type = "date" /\ v.size = 0
      /\ v.value = [day |-> d, month |-> m, year |-> y]
  OBVIOUS
<1>2. d \in Nat /\ d <= 31 /\ m \in Nat /\ m <= 12 /\ y \in Nat /\ y <= 99
  OBVIOUS
<1>3. knx_dpt_to_apdu("date", v.value, 0) = <<64 * (0 \div 64), d % 32, m % 13, y % 100>>
  BY DEF knx_dpt_to_apdu
<1> HIDE DEF d, m, y
<1>4. /\ 64 * (0 \div 64) = 0 /\ d % 32 = d /\ m % 13 = m /\ y % 100 = y
  BY <1>2
<1>5. a = <<0, d, m, y>>
  BY <1>1, <1>3, <1>4, Zenon DEF Apdu
<1>6. d \in Octet /\ m \in Octet /\ y \in Octet
  BY <1>2, OctetIs
<1> HIDE DEF a
<1>7. a \in OctetsFrom(1) /\ Len(r) = 4 /\ r[2] = d /\ r[3] = m /\ r[4] = y
  <2>1. FourOctets(a, d, m, y)
    BY <1>5, <1>6, FourMarked, Zenon
  <2> QED BY <2>1, Zenon DEF FourOctets, r
<1> HIDE DEF r
<1>8. d % 32 = d /\ (m % 16) % 13 = m /\ (y % 128) % 100 = y
  BY <1>2
<1> DEFINE got == knx_dpt_from_apdu(r, "date", 0)
<1>9. got = Valid([day |-> r[2] % 32, month |-> (r[3] % 16) % 13, year |-> (r[4] % 128) % 100])
  BY <1>7 DEF knx_dpt_from_apdu, LongEnough, knx_dpt_size
<1>10. got = Valid(v.value)
  BY <1>1, <1>7, <1>8, <1>9, Zenon
<1>11. got.ok = TRUE /\ got.value = v.value
  <2> HIDE DEF got
  <2> QED BY <1>10 DEF Valid
<1> HIDE DEF got
<1>12. ReceivedValue(v, got)
  BY <1>1, <1>11 DEF ReceivedValue
<1> QED BY <1>1, <1>7, <1>12, Zenon DEF IsKept, got, r, a

(* 16-bit floats.                                                          *)
LEMMA Quotient ==
    ASSUME NEW a \in Nat, NEW p \in Nat, p >= 1
    PROVE  a \div p \in Nat /\ (a \div p) * p <= a /\ a < (a \div p) * p + p
OBVIOUS

(* Products of a number and a positive one keep their order.               *)
LEMMA Times ==
    ASSUME NEW k \in Nat, NEW n \in Nat, NEW p \in Nat, p >= 1, k * p < n * p
    PROVE  k < n
OBVIOUS

(* Half a power of two is the one before.                                  *)
LEMMA PowerDoubled ==
    ASSUME NEW e \in 0 .. 15, e # 0
    PROVE  2^e = 2 * 2^(e - 1)
<1>1. \/ e = 1 \/ e = 2 \/ e = 3 \/ e = 4 \/ e = 5 \/ e = 6 \/ e = 7 \/ e = 8
      \/ e = 9 \/ e = 10 \/ e = 11 \/ e = 12 \/ e = 13 \/ e = 14 \/ e = 15
  OBVIOUS
<1>2. Power(e) = 2 * Power(e - 1)
  BY <1>1, Powers, SMT
<1> QED BY <1>2, Zenon DEF Power

(* The power of its exponent, one for the values that need none, leaves    *)
(* eleven bits of a value, and half of it would not.                       *)
Within(x, p) == -2048 * p <= x /\ x <= 2047 * p
Halved(x, p) == p = 1 \/ \E h \in Nat : p = 2 * h /\ ~Within(x, h)

(* To fit an exponent is to be within its power of two.                    *)
LEMMA FitsWithin == \A x, e : FloatFits(x, e) <=> Within(x, 2^e)
BY DEF FloatFits, Within

(* Of the least exponent that fits, half the power does not.               *)
LEMMA PowerFits ==
    ASSUME NEW x \in Floats
    PROVE  LET p == 2^Exponent(x) IN p \in Nat /\ p >= 1 /\ Within(x, p) /\ Halved(x, p)
<1> DEFINE e == Exponent(x)
           p == 2^e
           h == 2^(e - 1)
<1>1. e \in 0 .. 15 /\ FloatFits(x, e) /\ \A f \in 0 .. (e - 1) : ~FloatFits(x, f)
  BY ExponentIs, Zenon
<1> HIDE DEF e
<1>2. p \in Nat /\ p >= 1
  BY <1>1, PowerIs, Zenon
<1>3. Within(x, p)
  BY <1>1, FitsWithin, Zenon
<1>4. CASE e = 0
  <2>1. Power(e) = 1
    BY <1>4, Powers, SMT
  <2>2. p = 1
    BY <2>1, Zenon DEF Power
  <2>3. Halved(x, p)
    BY <2>2, Zenon DEF Halved
  <2> QED BY <1>2, <1>3, <2>3, Zenon DEF e
<1>5. CASE e # 0
  <2>1. e - 1 \in 0 .. (e - 1) /\ e - 1 \in 0 .. 15
    BY <1>1, <1>5
  <2>2. p = 2 * h
    BY <1>1, <1>5, PowerDoubled, Zenon
  <2>3. h \in Nat
    BY <2>1, PowerIs, Zenon
  <2>4. ~Within(x, h)
    BY <1>1, <2>1, FitsWithin, Zenon
  <2> HIDE DEF h, p
  <2>5. Halved(x, p)
    BY <2>2, <2>3, <2>4, Zenon DEF Halved
  <2> QED BY <1>2, <1>3, <2>5, Zenon DEF e, p
<1> QED BY <1>4, <1>5

(* A value cut to a multiple of a power that it needs is near it.          *)
LEMMA NearIs ==
    ASSUME NEW x \in Int, NEW y \in Int, NEW p \in Nat,
           IF x < 0 THEN y < x /\ x <= y + p ELSE y <= x /\ x < y + p,
           Halved(x, p)
    PROVE  Near(x, y)
<1>1. CASE p = 1
  BY <1>1 DEF Near
<1>2. ASSUME NEW h \in Nat, p = 2 * h, x < -2048 * h \/ x > 2047 * h
      PROVE  Near(x, y)
  <2>1. CASE x < 0
    <3>1. ~(x > y) \/ (x - y) * 1000 <= -x
      BY <1>2, <2>1
    <3> QED BY <2>1, <3>1 DEF Near
  <2>2. CASE ~(x < 0)
    <3>1. (x - y) * 1000 <= x
      BY <1>2, <2>2
    <3> QED BY <2>2, <3>1 DEF Near
  <2> QED BY <2>1, <2>2
<1>3. CASE p # 1
  <2>1. PICK h \in Nat : p = 2 * h /\ ~Within(x, h)
    BY <1>3, Zenon DEF Halved
  <2>2. x < -2048 * h \/ x > 2047 * h
    BY <2>1 DEF Within
  <2> QED BY <1>2, <2>1, <2>2
<1> QED BY <1>1, <1>3

(* The mantissa of a value has its sign and eleven bits, and with the      *)
(* exponent it is near the value, unless it is the least one.              *)
Cut(x) == LET cut == Mantissa(x, Exponent(x)) IN IF cut < 0 THEN cut - 1 ELSE cut

IsCut(m) == m \in Int /\ -2048 <= m /\ m <= 2047

Least(e) == -2048 * 2^e

(* The least mantissa, without the literals.                               *)
LEMMA LeastIs == \A x : LeastMantissa(x) <=> \E e \in 0 .. 15 : x = Least(e)
BY DEF LeastMantissa, Least

(* A mantissa that is cut off is near the value.                           *)
LEMMA CutNear ==
    ASSUME NEW x \in Floats
    PROVE  LeastMantissa(x) \/ (IsCut(Cut(x)) /\ Near(x, Cut(x) * 2^Exponent(x)))
<1> DEFINE e == Exponent(x)
           p == 2^e
           a == IF x < 0 THEN -x ELSE x
           k == a \div p
<1>1. p \in Nat /\ p >= 1 /\ Within(x, p) /\ Halved(x, p)
  BY PowerFits, Zenon
<1>2. x \in Int /\ a \in Nat /\ (x < 0 => a = -x) /\ (~(x < 0) => a = x)
  BY SMT DEF Floats
<1>3. CASE x = -2048 * p
  <2>1. e \in 0 .. 15
    BY ExponentIs, Zenon
  <2>2. LeastMantissa(x)
    <3>1. x = Least(e)
      BY <1>3 DEF Least
    <3> HIDE DEF e
    <3> QED BY <2>1, <3>1, LeastIs, Zenon
  <2> QED BY <2>2
<1>4. CASE x # -2048 * p
  <2>1. Mantissa(x, e) = IF x < 0 THEN -((-x) \div p) ELSE x \div p
    BY Zenon DEF Mantissa
  <2> HIDE DEF p
  <2>2. Mantissa(x, e) = IF x < 0 THEN -k ELSE k
    BY <1>2, <2>1, Zenon
  <2> HIDE DEF a
  <2>3. k \in Nat /\ k * p <= a /\ a < k * p + p
    <3>1. p \in Nat /\ p >= 1 /\ a \in Nat
      BY <1>1, <1>2
    <3> QED BY <3>1, Quotient, Zenon
  <2> HIDE DEF k
  <2>4. k < 2048
    <3>1. a < 2048 * p
      BY <1>1, <1>2, <1>4 DEF Within
    <3>2. k * p < 2048 * p /\ 2048 \in Nat
      BY <1>1, <1>2, <2>3, <3>1
    <3> QED BY <1>1, <2>3, <3>2, Times
  <2>5. x < 0 => k # 0
    <3>1. SUFFICES ASSUME x < 0 PROVE a >= p
      BY <1>1, <1>2, <2>3
    <3>2. CASE p = 1
      BY <1>2, <3>1, <3>2
    <3>3. ASSUME NEW h \in Nat, p = 2 * h, x < -2048 * h \/ x > 2047 * h
          PROVE  a >= p
      BY <1>2, <3>1, <3>3
    <3>4. CASE p # 1
      <4>1. PICK h \in Nat : p = 2 * h /\ ~Within(x, h)
        BY <1>1, <3>4, Zenon DEF Halved
      <4>2. x < -2048 * h \/ x > 2047 * h
        BY <1>2, <4>1 DEF Within
      <4> QED BY <3>3, <4>1, <4>2
    <3> QED BY <3>2, <3>4
  <2> DEFINE m == IF x < 0 THEN -k - 1 ELSE k
  <2>6. Cut(x) = m
    <3> HIDE DEF e
    <3>1. Mantissa(x, e) < 0 <=> x < 0
      BY <1>2, <2>2, <2>3, <2>5
    <3>2. (IF Mantissa(x, e) < 0 THEN Mantissa(x, e) - 1 ELSE Mantissa(x, e)) = m
      BY <2>2, <3>1
    <3> QED BY <3>2, Zenon DEF Cut, e
  <2>7. m \in Int /\ -2048 <= m /\ m <= 2047
    BY <2>3, <2>4
  <2> DEFINE w == k * p
  <2>8. w \in Nat /\ (x < 0 => m * p = -w - p) /\ (~(x < 0) => m * p = w)
    BY <1>1, <2>3
  <2>9. m * p \in Int
    BY <1>1, <2>8
  <2>10. w <= a /\ a < w + p
    BY <2>3
  <2> HIDE DEF w, m
  <2>11. IF x < 0 THEN m * p < x /\ x <= m * p + p ELSE m * p <= x /\ x < m * p + p
    <3> DEFINE y == m * p
    <3>1. (x < 0 => y = -w - p) /\ (~(x < 0) => y = w)
      BY <2>8
    <3> HIDE DEF y
    <3>2. IF x < 0 THEN y < x /\ x <= y + p ELSE y <= x /\ x < y + p
      BY <1>1, <1>2, <2>8, <2>10, <3>1
    <3> QED BY <3>2 DEF y
  <2>12. Near(x, m * p)
    <3> DEFINE y == m * p
    <3>1. /\ x \in Int /\ y \in Int /\ p \in Nat /\ Halved(x, p)
          /\ IF x < 0 THEN y < x /\ x <= y + p ELSE y <= x /\ x < y + p
      BY <1>1, <1>2, <2>9, <2>11
    <3> HIDE DEF y
    <3>2. Near(x, y)
      BY <3>1, NearIs, Zenon
    <3> QED BY <3>2 DEF y
  <2>13. IsCut(m)
    BY <2>7 DEF IsCut
  <2>14. IsCut(Cut(x)) /\ Near(x, Cut(x) * p)
    BY <2>6, <2>12, <2>13, Zenon
  <2> QED BY <2>14, Zenon DEF p
<1> QED BY <1>3, <1>4

(* The two octets give back exponent and mantissa.                         *)
FloatFirst(m, e) == (IF m < 0 THEN 128 ELSE 0) + e * 8 + ((m % 2048) \div 256)

(* What a float is read back as.                                           *)
LEMMA FloatBack ==
    ASSUME NEW m, IsCut(m), NEW e \in Nat, e <= 15, NEW r,
           r[2] = FloatFirst(m, e), r[3] = m % 256
    PROVE  knx_dpt_float16_parse(r) = m * 2^e
<1> DEFINE b == r[2]
           q == (m % 2048) \div 256
           s == IF m < 0 THEN 1 ELSE 0
<1>1. m \in Int /\ -2048 <= m /\ m <= 2047
  BY DEF IsCut
<1>2. q \in Nat /\ q <= 7 /\ q * 256 + (m % 256) = m + 2048 * s /\ s \in Nat /\ s <= 1
  BY <1>1
<1>3. b = s * 128 + e * 8 + q
  <2>1. (IF m < 0 THEN 128 ELSE 0) = s * 128
    OBVIOUS
  <2> QED BY <2>1 DEF FloatFirst
<1> DEFINE c == r[3]
<1>4. c \in Nat /\ q * 256 + c = m + 2048 * s
  BY <1>1, <1>2
<1> HIDE DEF q, s, b, c
<1>5. b \in Nat /\ b % 8 = q /\ (b \div 8) % 16 = e /\ (b \div 128) % 2 = s
  BY <1>2, <1>3
<1>6. Bit(b, 7) = s
  BY <1>5, Bits, Zenon
<1>7. knx_dpt_float16_parse(r) = ((b % 8) * 256 + c - 2048 * Bit(b, 7)) * 2^((b \div 8) % 16)
  BY DEF knx_dpt_float16_parse, b, c
<1>8. knx_dpt_float16_parse(r) = (q * 256 + c - 2048 * s) * 2^e
  BY <1>5, <1>6, <1>7
<1>9. q * 256 + c - 2048 * s = m
  BY <1>1, <1>2, <1>4
<1> QED BY <1>8, <1>9

(* A 16-bit float is kept.                                                 *)
LEMMA FloatKept ==
    ASSUME NEW v \in [type : {"float16"}, value : Floats, size : {0}]
    PROVE  IsKept(v)
<1> DEFINE x == v.value
           e == Exponent(x)
           m == Cut(x)
           f == FloatFirst(m, e)
           c == m % 256
           g == knx_dpt_generate_float16(x)
           a == Apdu(v)
           r == Marked(a)
           s == <<0>>
<1>1. v.type = "float16" /\ v.size = 0 /\ x \in Floats
  OBVIOUS
<1> HIDE DEF x
<1>2. g \in Seq(Octet) /\ Sized(g, 2)
  BY <1>1, FloatOctets, Zenon
<1>3. g = <<f, c>>
  <2>1. Clip(x) = x
    BY <1>1, SMT DEF Clip, Floats
  <2>2. knx_dpt_generate_float16(x)
        = LET e1 == Exponent(x)
              cut == Mantissa(x, e1)
              m1 == IF cut < 0 THEN cut - 1 ELSE cut
          IN  << (IF m1 < 0 THEN 128 ELSE 0) + e1 * 8 + ((m1 % 2048) \div 256), m1 % 256 >>
    BY <2>1 DEF knx_dpt_generate_float16
  <2> QED BY <2>2 DEF FloatFirst, Cut
<1>4. a = s \o g
  <2>1. knx_dpt_to_apdu("float16", x, 0) = <<64 * (0 \div 64)>> \o knx_dpt_generate_float16(x)
    BY DEF knx_dpt_to_apdu
  <2>2. 64 * (0 \div 64) = 0
    OBVIOUS
  <2> QED BY <1>1, <2>1, <2>2, Zenon DEF Apdu, x
<1>5. s \in Seq(Octet) /\ Sized(s, 1)
  BY DEF Octet, Sized
<1>6. g[1] = f /\ g[2] = c
  <2> HIDE DEF g, f, c
  <2> QED BY <1>3
<1> HIDE DEF a, f, c, g, s
<1>7. IsAppended(a, s, 1, g)
  BY <1>2, <1>4, <1>5, Appended
<1>8. a \in Seq(Octet) /\ Len(a) = 3 /\ a[2] = f /\ a[3] = c
  <2>1. a \in Seq(Octet) /\ Len(a) = 1 + Len(g) /\ \A i \in 1 .. Len(g) : a[1 + i] = g[i]
    BY <1>7, Zenon DEF IsAppended
  <2>2. Len(g) = 2
    BY <1>3
  <2>3. Len(a) = 3
    BY <2>1, <2>2
  <2>4. 1 \in 1 .. 2 /\ 2 \in 1 .. 2 /\ 1 + 1 = 2 /\ 1 + 2 = 3
    OBVIOUS
  <2>5. a[1 + 1] = g[1] /\ a[1 + 2] = g[2]
    BY <2>1, <2>2, <2>4, Zenon
  <2>6. a[2] = f /\ a[3] = c
    BY <1>6, <2>5
  <2> QED BY <2>1, <2>3, <2>6, Zenon
<1>9. a \in OctetsFrom(1)
  <2>1. 3 \in 1 .. 255
    OBVIOUS
  <2> QED BY <1>8, <2>1, OctetsFromIs, Zenon
<1>10. IsMarked(r, a)
  <2>1. 1 <= Len(a)
    BY <1>8
  <2> QED BY <1>8, <2>1, MarkedIs, Zenon
<1> HIDE DEF r
<1>11. Len(r) = 3 /\ r[2] = f /\ r[3] = c
  <2>1. 2 \in 2 .. 3 /\ 3 \in 2 .. 3
    OBVIOUS
  <2> QED BY <1>8, <1>10, <2>1, Zenon DEF IsMarked
<1> DEFINE got == knx_dpt_from_apdu(r, "float16", 0)
<1>12. got = Valid(knx_dpt_float16_parse(r))
  BY <1>11 DEF knx_dpt_from_apdu, LongEnough, knx_dpt_size
<1>13. got.ok = TRUE /\ got.value = knx_dpt_float16_parse(r)
  <2> HIDE DEF got
  <2> QED BY <1>12 DEF Valid
<1> HIDE DEF got
<1>14. LeastMantissa(x) \/ Near(x, got.value)
  <2>1. LeastMantissa(x) \/ (IsCut(m) /\ Near(x, m * 2^e))
    BY <1>1, CutNear, Zenon
  <2>2. e \in 0 .. 15
    BY <1>1, ExponentIs, Zenon
  <2> HIDE DEF e, m
  <2>3. e \in Nat /\ e <= 15
    BY <2>2
  <2>4. ASSUME IsCut(m) PROVE knx_dpt_float16_parse(r) = m * 2^e
    BY <1>11, <2>3, <2>4, FloatBack DEF f, c
  <2> QED BY <1>13, <2>1, <2>4, Zenon
<1>15. ReceivedValue(v, got)
  BY <1>1, <1>13, <1>14 DEF ReceivedValue, x
<1> QED BY <1>1, <1>9, <1>15, Zenon DEF IsKept, got, r, a

(* Every datapoint value is kept.                                          *)
LEMMA EveryKept ==
    ASSUME NEW v \in DatapointValues
    PROVE  IsKept(v)
BY BoolKept, ControlledKept, StepKept, CopiedKept, TimeKept, DateKept, FloatKept
   DEF DatapointValues

-----------------------------------------------------------------------------
(* The inductive invariant: what the client has stored are addresses and a *)
(* channel, and the datagram under way is what its sender made of what it  *)
(* sent.                                                                   *)
AnswerOctets(service, host, n) ==
    LET g == IF service = KNX_SEARCH_RESPONSE THEN SearchOctets(host, n)
                                              ELSE DescriptionOctets(n)
    IN  knx_header_generate(service, Len(g)) \o g

StoredRight ==
    /\ remote \in KnxHostInfos \cup {NoHost} /\ chid \in Octet
    /\ DOMAIN packet = {"ok", "service", "payload"}

NothingSent == sent.kind = "none" => sent = None /\ datagram = <<>>

PacketSent ==
    sent.kind \in {"packet", "value"} =>
        /\ sent.payload \in KnxPayloads(sent.service)
        /\ datagram = Packet(sent.service, sent.payload)

ValueSent ==
    sent.kind = "value" =>
        /\ sent.value \in DatapointValues /\ sent.service = KNX_TUNNEL_REQUEST
        /\ sent.payload.data.ldata.tpdu
           = [tpci |-> 0, seq |-> 0, apci |-> 2, payload |-> Apdu(sent.value)]

RecordedSent ==
    sent.kind = "recorded" =>
        /\ sent.peer \in Recorded /\ sent.channel = chid /\ sent.seq \in Octet
        /\ datagram = Replaced(sent.peer, sent.channel, sent.seq)

AnswerSent ==
    sent.kind = "answer" =>
        /\ sent.service \in {KNX_SEARCH_RESPONSE, KNX_DESCRIPTION_RESPONSE}
        /\ sent.service = KNX_SEARCH_RESPONSE => sent.host \in KnxHostInfos
        /\ sent.services \in Nat /\ sent.services <= 77
        /\ datagram = AnswerOctets(sent.service, sent.host, sent.services)

IInv ==
    /\ StoredRight
    /\ sent.kind \in {"none", "packet", "value", "recorded", "answer"}
    /\ NothingSent /\ PacketSent /\ ValueSent /\ RecordedSent /\ AnswerSent

(* The invariant holds initially.                                          *)
LEMMA InitRight ==
    ASSUME Init PROVE IInv
<1>1. StoredRight
  BY DEF Init, StoredRight, Blank, Octet
<1>2. sent = None /\ datagram = <<>> /\ sent.kind = "none"
  BY DEF Init, None
<1> QED BY <1>1, <1>2 DEF IInv, NothingSent, PacketSent, ValueSent, RecordedSent, AnswerSent

(* The payloads of the client are payloads of their services.              *)
LEMMA PayloadsAre ==
    \A p :
        /\ p \in KnxPayloads(KNX_SEARCH_REQUEST)
           <=> p \in [control : KnxHostInfos]
        /\ p \in KnxPayloads(KNX_DESCRIPTION_REQUEST)
           <=> p \in [control : KnxHostInfos]
        /\ p \in KnxPayloads(KNX_CONNECTION_REQUEST)
           <=> p \in [type : {4}, layer : {2}, control : KnxHostInfos,
                      tunnel : KnxHostInfos]
        /\ p \in KnxPayloads(KNX_CONNECTION_RESPONSE)
           <=> p \in [channel : Octet, status : Octet, host : KnxHostInfos,
                      extended : Octets(3)]
        /\ p \in KnxPayloads(KNX_CONNECTION_STATE_REQUEST)
           <=> p \in [channel : Octet, status : Octet, host : KnxHostInfos]
        /\ p \in KnxPayloads(KNX_TUNNEL_REQUEST)
           <=> p \in [channel : Octet, seq : Octet, data : KnxCemis]
<1>1. \A p : p \in KnxPayloads(KNX_SEARCH_REQUEST)
              <=> p \in [control : KnxHostInfos]
  BY DEF KnxPayloads, HostServices, StatusHostServices, StatusServices, KNX_SEARCH_REQUEST,
         KNX_DESCRIPTION_REQUEST, KNX_CONNECTION_REQUEST, KNX_CONNECTION_RESPONSE,
         KNX_CONNECTION_STATE_REQUEST, KNX_CONNECTION_STATE_RESPONSE,
         KNX_DISCONNECT_REQUEST, KNX_DISCONNECT_RESPONSE, KNX_TUNNEL_REQUEST,
         KNX_TUNNEL_RESPONSE, KNX_ROUTING_INDICATION
<1>2. \A p : p \in KnxPayloads(KNX_DESCRIPTION_REQUEST)
              <=> p \in [control : KnxHostInfos]
  BY DEF KnxPayloads, HostServices, StatusHostServices, StatusServices, KNX_SEARCH_REQUEST,
         KNX_DESCRIPTION_REQUEST, KNX_CONNECTION_REQUEST, KNX_CONNECTION_RESPONSE,
         KNX_CONNECTION_STATE_REQUEST, KNX_CONNECTION_STATE_RESPONSE,
         KNX_DISCONNECT_REQUEST, KNX_DISCONNECT_RESPONSE, KNX_TUNNEL_REQUEST,
         KNX_TUNNEL_RESPONSE, KNX_ROUTING_INDICATION
<1>3. \A p : p \in KnxPayloads(KNX_CONNECTION_REQUEST)
              <=> p \in [type : {4}, layer : {2}, control : KnxHostInfos,
                       tunnel : KnxHostInfos]
  BY DEF KnxPayloads, HostServices, StatusHostServices, StatusServices, KNX_SEARCH_REQUEST,
         KNX_DESCRIPTION_REQUEST, KNX_CONNECTION_REQUEST, KNX_CONNECTION_RESPONSE,
         KNX_CONNECTION_STATE_REQUEST, KNX_CONNECTION_STATE_RESPONSE,
         KNX_DISCONNECT_REQUEST, KNX_DISCONNECT_RESPONSE, KNX_TUNNEL_REQUEST,
         KNX_TUNNEL_RESPONSE, KNX_ROUTING_INDICATION
<1>4. \A p : p \in KnxPayloads(KNX_CONNECTION_RESPONSE)
              <=> p \in [channel : Octet, status : Octet, host : KnxHostInfos,
                       extended : Octets(3)]
  BY DEF KnxPayloads, HostServices, StatusHostServices, StatusServices, KNX_SEARCH_REQUEST,
         KNX_DESCRIPTION_REQUEST, KNX_CONNECTION_REQUEST, KNX_CONNECTION_RESPONSE,
         KNX_CONNECTION_STATE_REQUEST, KNX_CONNECTION_STATE_RESPONSE,
         KNX_DISCONNECT_REQUEST, KNX_DISCONNECT_RESPONSE, KNX_TUNNEL_REQUEST,
         KNX_TUNNEL_RESPONSE, KNX_ROUTING_INDICATION
<1>5. \A p : p \in KnxPayloads(KNX_CONNECTION_STATE_REQUEST)
              <=> p \in [channel : Octet, status : Octet, host : KnxHostInfos]
  BY DEF KnxPayloads, HostServices, StatusHostServices, StatusServices, KNX_SEARCH_REQUEST,
         KNX_DESCRIPTION_REQUEST, KNX_CONNECTION_REQUEST, KNX_CONNECTION_RESPONSE,
         KNX_CONNECTION_STATE_REQUEST, KNX_CONNECTION_STATE_RESPONSE,
         KNX_DISCONNECT_REQUEST, KNX_DISCONNECT_RESPONSE, KNX_TUNNEL_REQUEST,
         KNX_TUNNEL_RESPONSE, KNX_ROUTING_INDICATION
<1>6. \A p : p \in KnxPayloads(KNX_TUNNEL_REQUEST)
              <=> p \in [channel : Octet, seq : Octet, data : KnxCemis]
  BY DEF KnxPayloads, HostServices, StatusHostServices, StatusServices, KNX_SEARCH_REQUEST,
         KNX_DESCRIPTION_REQUEST, KNX_CONNECTION_REQUEST, KNX_CONNECTION_RESPONSE,
         KNX_CONNECTION_STATE_REQUEST, KNX_CONNECTION_STATE_RESPONSE,
         KNX_DISCONNECT_REQUEST, KNX_DISCONNECT_RESPONSE, KNX_TUNNEL_REQUEST,
         KNX_TUNNEL_RESPONSE, KNX_ROUTING_INDICATION
<1> QED BY <1>1, <1>2, <1>3, <1>4, <1>5, <1>6, Zenon

(* The payloads that the client makes of its stored hosts.                 *)
LEMMA LocalPayloads ==
    /\ SearchPayload \in KnxPayloads(KNX_SEARCH_REQUEST)
    /\ SearchPayload \in KnxPayloads(KNX_DESCRIPTION_REQUEST)
    /\ ConnectPayload \in KnxPayloads(KNX_CONNECTION_REQUEST)
    /\ chid \in Octet => StatePayload \in KnxPayloads(KNX_CONNECTION_STATE_REQUEST)
<1>1. LocalHost \in KnxHostInfos /\ TunnelHost \in KnxHostInfos
  BY ExchangeAssumption, Zenon
<1>2. SearchPayload \in [control : KnxHostInfos]
  BY <1>1 DEF SearchPayload
<1>3. /\ SearchPayload \in KnxPayloads(KNX_SEARCH_REQUEST)
      /\ SearchPayload \in KnxPayloads(KNX_DESCRIPTION_REQUEST)
  BY <1>2, PayloadsAre, Zenon
<1>4. ConnectPayload \in KnxPayloads(KNX_CONNECTION_REQUEST)
  <2>1. ConnectPayload
        \in [type : {4}, layer : {2}, control : KnxHostInfos, tunnel : KnxHostInfos]
    BY <1>1 DEF ConnectPayload
  <2> QED BY <2>1, PayloadsAre, Zenon
<1>5. ASSUME chid \in Octet PROVE StatePayload \in KnxPayloads(KNX_CONNECTION_STATE_REQUEST)
  <2>1. chid % 256 \in Octet /\ 0 \in Octet
    BY <1>5, OctetIs
  <2>2. StatePayload \in [channel : Octet, status : Octet, host : KnxHostInfos]
    BY <1>1, <2>1 DEF StatePayload
  <2> QED BY <2>2, PayloadsAre, Zenon
<1> QED BY <1>3, <1>4, <1>5, Zenon

(* A request to write is a payload, with its data in the TPDU.             *)
LEMMA WritePayload ==
    ASSUME chid \in Octet, NEW source \in Word, NEW destination \in Word,
           NEW priority \in 0 .. 3, NEW apci \in 0 .. 15, NEW payload \in OctetsFrom(1)
    PROVE  LET p == WriteRequest(source, destination, priority, apci, payload) IN
           /\ p \in KnxPayloads(KNX_TUNNEL_REQUEST)
           /\ p.data.ldata.tpdu = [tpci |-> 0, seq |-> 0, apci |-> apci, payload |-> payload]
<1> DEFINE t == [tpci |-> 0, seq |-> 0, apci |-> apci, payload |-> payload]
           c1 == [repeat |-> FALSE, systemBroadcast |-> FALSE, priority |-> priority,
                  requestAck |-> FALSE, error |-> FALSE]
           c2 == [addressType |-> 1, hops |-> 6]
           d == [control1 |-> c1, control2 |-> c2, source |-> source,
                 destination |-> destination, tpdu |-> t]
           q == <<>>
           f == [service |-> 17, addInfo |-> q, ldata |-> d]
           p == [channel |-> chid % 256, seq |-> 0, data |-> f]
<1>1. t \in KnxTpdus /\ c1 \in Control1s /\ c2 \in Control2s
  BY DEF KnxTpdus, Control1s, Control2s
<1>2. q \in OctetsFrom(0)
  BY DEF OctetsFrom
<1> HIDE DEF t, c1, c2, q
<1>3. d \in KnxLDatas /\ d.tpdu = t
  BY <1>1 DEF KnxLDatas
<1> HIDE DEF d
<1>4. f \in KnxCemis /\ f.ldata = d
  BY <1>2, <1>3 DEF KnxCemis, LData
<1> HIDE DEF f
<1>5. chid % 256 \in Octet /\ 0 \in Octet
  BY OctetIs
<1>6. p \in [channel : Octet, seq : Octet, data : KnxCemis] /\ p.data = f
  BY <1>4, <1>5
<1> HIDE DEF p
<1>7. p \in KnxPayloads(KNX_TUNNEL_REQUEST)
  BY <1>6, PayloadsAre, Zenon
<1>8. p \in KnxPayloads(KNX_TUNNEL_REQUEST) /\ p.data.ldata.tpdu = t
  BY <1>3, <1>4, <1>6, <1>7, Zenon
<1> QED BY <1>8, Zenon DEF WriteRequest, p, f, d, c1, c2, q, t

(* Generating a packet keeps the invariant.                                *)
LEMMA GenerateRight ==
    ASSUME IInv, NEW kind \in {"packet", "value"}, NEW service,
           NEW payload \in KnxPayloads(service), NEW value,
           kind = "value" =>
              /\ value \in DatapointValues /\ service = KNX_TUNNEL_REQUEST
              /\ payload.data.ldata.tpdu
                 = [tpci |-> 0, seq |-> 0, apci |-> 2, payload |-> Apdu(value)],
           Generate(kind, service, payload, value)
    PROVE  IInv'
<1>1. StoredRight'
  BY DEF IInv, StoredRight, Generate, Blank
<1>2. /\ sent' = [kind |-> kind, service |-> service, payload |-> payload, value |-> value]
      /\ datagram' = Packet(service, payload)
  BY Zenon DEF Generate, Packet
<1>3. /\ sent'.kind = kind /\ sent'.service = service /\ sent'.payload = payload
      /\ sent'.value = value
  BY <1>2
<1>4. PacketSent'
  BY <1>2, <1>3, Zenon DEF PacketSent
<1>5. ValueSent'
  BY <1>3, Zenon DEF ValueSent
<1>6. NothingSent' /\ RecordedSent' /\ AnswerSent'
  BY <1>3 DEF NothingSent, RecordedSent, AnswerSent
<1>7. sent'.kind \in {"none", "packet", "value", "recorded", "answer"}
  BY <1>3
<1> QED BY <1>1, <1>4, <1>5, <1>6, <1>7, Zenon DEF IInv

(* So does a request, whatever its service.                                *)
LEMMA RequestRight ==
    ASSUME IInv, NEW service, NEW payload \in KnxPayloads(service), Request(service, payload)
    PROVE  IInv'
<1>1. Generate("packet", service, payload, <<>>)
  BY Zenon DEF Request
<1>2. "packet" # "value"
  OBVIOUS
<1> QED BY <1>1, <1>2, GenerateRight, Zenon

(* Repeating a recorded request keeps the invariant.                       *)
LEMMA ReplayRight ==
    ASSUME IInv, Replay
    PROVE  IInv'
<1>1. PICK peer \in Recorded, seq \in Numbers :
         /\ sent' = [kind |-> "recorded", peer |-> peer, channel |-> chid % 256,
                     seq |-> seq % 256]
         /\ datagram' = Replaced(peer, chid, seq)
         /\ packet' = Blank /\ UNCHANGED <<remote, chid>>
  BY Zenon DEF Replay
<1>2. StoredRight'
  BY <1>1 DEF IInv, StoredRight, Blank
<1>3. seq \in Nat /\ chid \in Nat /\ chid <= 255
  BY ExchangeAssumption, OctetIs DEF IInv, StoredRight
<1> DEFINE y == seq % 256
<1>4. y \in Octet /\ y % 256 = y /\ chid % 256 = chid
  <2>1. y \in Nat /\ y <= 255
    BY <1>3
  <2> HIDE DEF y
  <2> QED BY <1>3, <2>1, OctetIs
<1>5. sent'.kind = "recorded" /\ sent'.peer = peer /\ sent'.channel = chid /\ sent'.seq = y
  BY <1>1, <1>4
<1>6. Replaced(peer, chid, seq) = Replaced(peer, chid, y)
  <2>1. Replaced(peer, chid, seq) = [peer EXCEPT ![8] = chid % 256, ![9] = y]
    BY Zenon DEF Replaced
  <2>2. Replaced(peer, chid, y) = [peer EXCEPT ![8] = chid % 256, ![9] = y % 256]
    BY Zenon DEF Replaced
  <2> HIDE DEF y
  <2> QED BY <1>4, <2>1, <2>2, Zenon
<1> HIDE DEF y
<1>7. RecordedSent'
  <2>1. chid' = chid
    BY <1>1
  <2> QED BY <1>1, <1>4, <1>5, <1>6, <2>1, ZenonT(60) DEF RecordedSent
<1>8. /\ NothingSent' /\ PacketSent' /\ ValueSent' /\ AnswerSent'
      /\ sent'.kind \in {"none", "packet", "value", "recorded", "answer"}
  BY <1>5 DEF NothingSent, PacketSent, ValueSent, AnswerSent
<1> QED BY <1>2, <1>7, <1>8, Zenon DEF IInv

(* Sending a value keeps the invariant.                                    *)
LEMMA ValueRight ==
    ASSUME IInv, LibraryValue
    PROVE  IInv'
<1> DEFINE source == 0
           destination == 2564
           priority == 3
           apci == 2
<1>1. PICK v \in Values :
         Generate("value", KNX_TUNNEL_REQUEST,
                  WriteRequest(source, destination, priority, apci, Apdu(v)), v)
  BY DEF LibraryValue, Apdu
<1>2. v \in DatapointValues
  BY ExchangeAssumption, Zenon
<1> DEFINE a == Apdu(v)
           p == WriteRequest(source, destination, priority, apci, a)
<1>3. a \in OctetsFrom(1)
  BY <1>2, EveryKept, Zenon DEF IsKept
<1>4. /\ source \in Word /\ destination \in Word /\ priority \in 0 .. 3 /\ apci \in 0 .. 15
      /\ chid \in Octet /\ "value" \in {"packet", "value"} /\ apci = 2
  BY DEF Word, IInv, StoredRight
<1> HIDE DEF a, source, destination, priority, apci
<1>5. /\ p \in KnxPayloads(KNX_TUNNEL_REQUEST)
      /\ p.data.ldata.tpdu = [tpci |-> 0, seq |-> 0, apci |-> apci, payload |-> a]
  BY <1>3, <1>4, WritePayload, SMT
<1>6. Generate("value", KNX_TUNNEL_REQUEST, p, v)
  BY <1>1, Zenon DEF a
<1> HIDE DEF p
<1>7. p.data.ldata.tpdu = [tpci |-> 0, seq |-> 0, apci |-> 2, payload |-> Apdu(v)]
  BY <1>4, <1>5, Zenon DEF a
<1> QED BY <1>2, <1>4, <1>5, <1>6, <1>7, GenerateRight, Zenon

(* Answering a connection request keeps the invariant.                     *)
LEMMA ConnectRight ==
    ASSUME IInv, GwConnect
    PROVE  IInv'
<1>1. PICK h \in Endpoints, c \in ChannelIds, status \in {0, 36} :
         Request(KNX_CONNECTION_RESPONSE,
                 [channel |-> IF status = 0 THEN c ELSE 0, status |-> status, host |-> h,
                  extended |-> <<4, 17, 250>>])
  BY Zenon DEF GwConnect
<1> DEFINE e == <<4, 17, 250>>
           d == IF status = 0 THEN c ELSE 0
           p == [channel |-> d, status |-> status, host |-> h, extended |-> e]
<1>2. h \in KnxHostInfos /\ c \in Octet
  BY ExchangeAssumption, Zenon
<1>3. e \in Octets(3)
  BY DEF Octets, Octet
<1>4. d \in Octet /\ status \in Octet
  BY <1>2 DEF Octet
<1> HIDE DEF e, d
<1>5. p \in [channel : Octet, status : Octet, host : KnxHostInfos, extended : Octets(3)]
  BY <1>2, <1>3, <1>4
<1>6. Request(KNX_CONNECTION_RESPONSE, p)
  BY <1>1, Zenon DEF e, d
<1> HIDE DEF p
<1>7. p \in KnxPayloads(KNX_CONNECTION_RESPONSE)
  BY <1>5, PayloadsAre, Zenon
<1> QED BY <1>6, <1>7, RequestRight, Zenon

(* An answer of a gateway keeps the invariant.                             *)
LEMMA AnswerRight ==
    ASSUME IInv, NEW service \in {KNX_SEARCH_RESPONSE, KNX_DESCRIPTION_RESPONSE},
           NEW host, service = KNX_SEARCH_RESPONSE => host \in KnxHostInfos,
           NEW n \in 0 .. MaxServices, NEW octets, Answer(service, host, n, octets),
           octets = IF service = KNX_SEARCH_RESPONSE THEN SearchOctets(host, n)
                                                     ELSE DescriptionOctets(n)
    PROVE  IInv'
<1>1. n \in Nat /\ n <= 77
  BY ExchangeAssumption
<1>2. StoredRight'
  BY DEF IInv, StoredRight, Answer, Blank
<1>3. /\ sent' = [kind |-> "answer", service |-> service, host |-> host, services |-> n]
      /\ datagram' = knx_header_generate(service, Len(octets)) \o octets
  BY Zenon DEF Answer
<1>4. /\ sent'.kind = "answer" /\ sent'.service = service /\ sent'.host = host
      /\ sent'.services = n
  BY <1>3
<1>5. datagram' = AnswerOctets(service, host, n)
  BY <1>3, Zenon DEF AnswerOctets
<1>6. AnswerSent'
  BY <1>1, <1>4, <1>5, Zenon DEF AnswerSent
<1>7. /\ NothingSent' /\ PacketSent' /\ ValueSent' /\ RecordedSent'
      /\ sent'.kind \in {"none", "packet", "value", "recorded", "answer"}
  BY <1>4 DEF NothingSent, PacketSent, ValueSent, RecordedSent
<1> QED BY <1>2, <1>6, <1>7, Zenon DEF IInv

(* Both answers are such.                                                  *)
LEMMA GatewayRight ==
    ASSUME IInv, GwSearch \/ GwDescription
    PROVE  IInv'
<1>1. /\ KNX_SEARCH_RESPONSE # KNX_DESCRIPTION_RESPONSE
      /\ KNX_SEARCH_RESPONSE \in {KNX_SEARCH_RESPONSE, KNX_DESCRIPTION_RESPONSE}
      /\ KNX_DESCRIPTION_RESPONSE \in {KNX_SEARCH_RESPONSE, KNX_DESCRIPTION_RESPONSE}
  BY DEF KNX_SEARCH_RESPONSE, KNX_DESCRIPTION_RESPONSE
<1>2. CASE GwSearch
  <2>1. PICK h \in Endpoints, n \in 0 .. MaxServices :
           Answer(KNX_SEARCH_RESPONSE, h, n, SearchOctets(h, n))
    BY <1>2, Zenon DEF GwSearch, SearchOctets
  <2>2. h \in KnxHostInfos
    BY ExchangeAssumption, Zenon
  <2> QED BY <1>1, <2>1, <2>2, AnswerRight, Zenon
<1>3. CASE GwDescription
  <2>1. PICK n \in 0 .. MaxServices :
           Answer(KNX_DESCRIPTION_RESPONSE, NoHost, n, DescriptionOctets(n))
    BY <1>3, Zenon DEF GwDescription, DescriptionOctets
  <2> QED BY <1>1, <2>1, AnswerRight, Zenon
<1> QED BY <1>2, <1>3

(* What is received of a packet, and of an answer.                         *)
LEMMA PacketArrives ==
    ASSUME IInv, sent.kind \in {"packet", "value"}, NEW left \in Seq(Cell)
    PROVE  /\ sent.payload \in KnxPayloads(sent.service)
           /\ knx_parse(datagram \o left)
              = IF sent.service = KNX_SEARCH_REQUEST THEN NotParsed(sent.service)
                ELSE [ok |-> TRUE, service |-> sent.service,
                      payload |-> Known(sent.service, sent.payload)]
<1>1. sent.payload \in KnxPayloads(sent.service) /\ datagram = Packet(sent.service, sent.payload)
  BY Zenon DEF IInv, PacketSent
<1> QED BY <1>1, PacketReceived, Zenon

(* What is received of an answer.                                          *)
LEMMA AnswerArrives ==
    ASSUME IInv, sent.kind = "answer", NEW left \in Seq(Cell)
    PROVE  AnswerReceived(sent.service, sent.host, sent.services, datagram, left)
<1> DEFINE s == sent.service
           h == sent.host
           n == sent.services
<1>1. /\ s \in {KNX_SEARCH_RESPONSE, KNX_DESCRIPTION_RESPONSE}
      /\ s = KNX_SEARCH_RESPONSE => h \in KnxHostInfos
      /\ n \in Nat /\ n <= 77 /\ datagram = AnswerOctets(s, h, n)
  BY Zenon DEF IInv, AnswerSent
<1>2. KNX_SEARCH_RESPONSE # KNX_DESCRIPTION_RESPONSE
  BY DEF KNX_SEARCH_RESPONSE, KNX_DESCRIPTION_RESPONSE
<1> HIDE DEF s, h, n
<1>3. CASE s = KNX_SEARCH_RESPONSE
  <2> DEFINE g == SearchOctets(h, n)
  <2>1. datagram = knx_header_generate(KNX_SEARCH_RESPONSE, Len(g)) \o g
    BY <1>1, <1>3, Zenon DEF AnswerOctets
  <2>2. AnswerReceived(KNX_SEARCH_RESPONSE, h, n,
                       knx_header_generate(KNX_SEARCH_RESPONSE, Len(g)) \o g, left)
    BY <1>1, <1>3, SearchReceived, Zenon
  <2> QED BY <1>3, <2>1, <2>2, Zenon DEF s, h, n
<1>4. CASE s = KNX_DESCRIPTION_RESPONSE
  <2> DEFINE g == DescriptionOctets(n)
             q == knx_header_generate(KNX_DESCRIPTION_RESPONSE, Len(g)) \o g
  <2>1. datagram = q
    BY <1>1, <1>2, <1>4, Zenon DEF AnswerOctets
  <2>2. AnswerReceived(KNX_DESCRIPTION_RESPONSE, NoHost, n, q, left)
    BY <1>1, DescriptionReceived, Zenon
  <2> HIDE DEF q
  <2>3. AnswerReceived(KNX_DESCRIPTION_RESPONSE, h, n, q, left)
    BY <1>2, <2>2, Zenon DEF AnswerReceived, AnswerIs
  <2> QED BY <1>4, <2>1, <2>3, Zenon DEF s, h, n
<1> QED BY <1>1, <1>3, <1>4, Zenon

(* What is received of a recorded request.                                 *)
LEMMA ReplayArrives ==
    ASSUME IInv, sent.kind = "recorded", NEW left \in Seq(Cell)
    PROVE  ReceivedReplay(sent.peer, datagram, chid, sent.seq, left)
<1> DEFINE c == sent.channel
           y == sent.seq
           q == sent.peer
<1>1. /\ q \in Recorded /\ c = chid /\ y \in Octet /\ datagram = Replaced(q, c, y)
      /\ c \in Octet
  BY Zenon DEF IInv, RecordedSent, StoredRight
<1> HIDE DEF c, y, q
<1>2. c \in Nat /\ y \in Nat /\ c % 256 = c /\ y % 256 = y
  BY <1>1, OctetIs
<1>3. ReceivedReplay(q, Replaced(q, c, y), c % 256, y % 256, left)
  BY <1>1, <1>2, RecordedReceived, ZenonT(60)
<1> QED BY <1>1, <1>2, <1>3, Zenon DEF q, y

(* A connection response is known with the channel it was sent with.       *)
LEMMA ConnectionKnown ==
    ASSUME NEW p \in KnxPayloads(KNX_CONNECTION_RESPONSE)
    PROVE  LET k == Known(KNX_CONNECTION_RESPONSE, p) IN
           k # <<>> /\ k.channel = p.channel /\ p.channel \in Octet
<1> DEFINE k == Known(KNX_CONNECTION_RESPONSE, p)
           z == [channel |-> p.channel, status |-> p.status, host |-> NoHost,
                 extended |-> <<0, 0, 0>>]
<1>1. p \in [channel : Octet, status : Octet, host : KnxHostInfos, extended : Octets(3)]
  BY PayloadsAre, Zenon
<1>2. k = IF p.status = 0 THEN p ELSE z
  BY DEF Known, KNX_CONNECTION_RESPONSE, KNX_TUNNEL_REQUEST, KNX_ROUTING_INDICATION
<1>3. "channel" \in DOMAIN p /\ p.channel \in Octet
  BY <1>1
<1>4. "channel" \in DOMAIN z /\ z.channel = p.channel
  OBVIOUS
<1> HIDE DEF z, k
<1>5. "channel" \in DOMAIN k /\ k.channel = p.channel
  BY <1>2, <1>3, <1>4, Zenon
<1>6. k # <<>>
  <2>1. "channel" \notin DOMAIN <<>>
    OBVIOUS
  <2> QED BY <1>5, <2>1, Zenon
<1> QED BY <1>3, <1>5, <1>6, Zenon DEF k

(* The client's requests to hosts keep the invariant.                      *)
LEMMA RequestsRight ==
    ASSUME IInv, KNXCSearchRQ \/ KNXCDescription \/ KNXCConnectRQ \/ KNXCConStateRQ
    PROVE  IInv'
<1>1. chid \in Octet
  BY DEF IInv, StoredRight
<1>2. CASE KNXCSearchRQ
  BY <1>2, LocalPayloads, RequestRight, Zenon DEF KNXCSearchRQ
<1>3. CASE KNXCDescription
  BY <1>3, LocalPayloads, RequestRight, Zenon DEF KNXCDescription
<1>4. CASE KNXCConnectRQ
  BY <1>4, LocalPayloads, RequestRight, Zenon DEF KNXCConnectRQ
<1>5. CASE KNXCConStateRQ
  BY <1>1, <1>5, LocalPayloads, RequestRight, Zenon DEF KNXCConStateRQ
<1> QED BY <1>2, <1>3, <1>4, <1>5, Zenon

(* The client's tunnelling requests keep the invariant.                    *)
LEMMA WritesRight ==
    ASSUME IInv, KNXCTunnelRQ_OpenLight \/ KNXCTunnelRQ_AddrWrite
    PROVE  IInv'
<1>1. chid \in Octet
  BY DEF IInv, StoredRight
<1>2. OpenLightPayload \in KnxPayloads(KNX_TUNNEL_REQUEST)
  <2> DEFINE source == 65521
             destination == 2564
             priority == 3
             apci == 2
             payload == <<1>>
  <2>1. /\ source \in Word /\ destination \in Word /\ priority \in 0 .. 3 /\ apci \in 0 .. 15
        /\ payload \in OctetsFrom(1)
    BY DEF Word, OctetsFrom, Octet
  <2>2. OpenLightPayload = WriteRequest(source, destination, priority, apci, payload)
    BY SMT DEF OpenLightPayload
  <2> HIDE DEF source, destination, priority, apci, payload
  <2> QED BY <1>1, <2>1, <2>2, WritePayload, Zenon
<1>3. AddrWritePayload \in KnxPayloads(KNX_TUNNEL_REQUEST)
  <2> DEFINE source == 4356
             destination == 0
             priority == 0
             apci == 3
             payload == <<0, 16>>
  <2>1. /\ source \in Word /\ destination \in Word /\ priority \in 0 .. 3 /\ apci \in 0 .. 15
        /\ payload \in OctetsFrom(1)
    BY DEF Word, OctetsFrom, Octet
  <2>2. AddrWritePayload = WriteRequest(source, destination, priority, apci, payload)
    BY SMT DEF AddrWritePayload
  <2> HIDE DEF source, destination, priority, apci, payload
  <2> QED BY <1>1, <2>1, <2>2, WritePayload, Zenon
<1>4. CASE KNXCTunnelRQ_OpenLight
  BY <1>2, <1>4, RequestRight, Zenon DEF KNXCTunnelRQ_OpenLight
<1>5. CASE KNXCTunnelRQ_AddrWrite
  BY <1>3, <1>5, RequestRight, Zenon DEF KNXCTunnelRQ_AddrWrite
<1> QED BY <1>4, <1>5, Zenon

(* Packets of library users keep the invariant.                            *)
LEMMA LibraryPacketRight ==
    ASSUME IInv, LibraryPacket
    PROVE  IInv'
<1>1. PICK p \in Packets : Request(p.service, p.payload)
  BY Zenon DEF LibraryPacket
<1>2. p.payload \in KnxPayloads(p.service)
  BY ExchangeAssumption, Zenon
<1> QED BY <1>1, <1>2, RequestRight, Zenon

(* What the client has stored when it has received what is under way.      *)
FollowedRemote ==
    IF sent.kind = "answer" /\ sent.service = KNX_SEARCH_RESPONSE THEN sent.host ELSE remote
FollowedChannel ==
    IF sent.kind = "packet" /\ sent.service = KNX_CONNECTION_RESPONSE
    THEN sent.payload.channel ELSE chid

Follows(out) ==
    /\ DOMAIN out = {"ok", "service", "payload"}
    /\ FollowedRemote = IF out.service = KNX_SEARCH_RESPONSE
                        THEN knx_host_info_parse(From(datagram, 7)).value ELSE remote
    /\ FollowedChannel = IF out.service # KNX_CONNECTION_RESPONSE THEN chid
                         ELSE IF out.payload = <<>> THEN 0 ELSE out.payload.channel

(* Services that the client tells apart.                                   *)
LEMMA ServicesDiffer ==
    /\ KNX_SEARCH_RESPONSE # KNX_DESCRIPTION_RESPONSE
    /\ KNX_SEARCH_RESPONSE # KNX_CONNECTION_RESPONSE
    /\ KNX_DESCRIPTION_RESPONSE # KNX_CONNECTION_RESPONSE
    /\ KNX_SEARCH_REQUEST # KNX_CONNECTION_RESPONSE
    /\ KNX_TUNNEL_REQUEST # KNX_CONNECTION_RESPONSE
    /\ KNX_TUNNEL_REQUEST # KNX_SEARCH_REQUEST
BY DEF KNX_SEARCH_RESPONSE, KNX_DESCRIPTION_RESPONSE, KNX_CONNECTION_RESPONSE,
       KNX_SEARCH_REQUEST, KNX_TUNNEL_REQUEST

(* What the client stores of a packet.                                     *)
LEMMA PacketFollows ==
    ASSUME IInv, sent.kind \in {"packet", "value"}, NEW left \in Seq(Cell)
    PROVE  Follows(knx_parse(datagram \o left))
<1> DEFINE s == sent.service
           p == sent.payload
           k == Known(s, p)
           full == [ok |-> TRUE, service |-> s, payload |-> k]
           out == knx_parse(datagram \o left)
<1>1. p \in KnxPayloads(s) /\ out = IF s = KNX_SEARCH_REQUEST THEN NotParsed(s) ELSE full
  BY PacketArrives, Zenon
<1>2. s # KNX_SEARCH_RESPONSE
  BY <1>1, AnyService DEF KNX_SEARCH_RESPONSE, KNX_SEARCH_REQUEST, KNX_DESCRIPTION_REQUEST,
         KNX_CONNECTION_REQUEST, KNX_CONNECTION_RESPONSE,
         KNX_CONNECTION_STATE_REQUEST, KNX_CONNECTION_STATE_RESPONSE,
         KNX_DISCONNECT_REQUEST, KNX_DISCONNECT_RESPONSE, KNX_TUNNEL_REQUEST,
         KNX_TUNNEL_RESPONSE, KNX_ROUTING_INDICATION
<1>3. sent.kind = "value" => s = KNX_TUNNEL_REQUEST
  BY Zenon DEF IInv, ValueSent
<1>4. s = KNX_CONNECTION_RESPONSE => k # <<>> /\ k.channel = p.channel
  BY <1>1, ConnectionKnown, Zenon
<1>5. "packet" # "answer" /\ "value" # "answer"
  OBVIOUS
<1> HIDE DEF k
<1>6. /\ DOMAIN full = {"ok", "service", "payload"} /\ full.service = s /\ full.payload = k
      /\ DOMAIN NotParsed(s) = {"ok", "service", "payload"} /\ NotParsed(s).service = s
  BY DEF NotParsed
<1> HIDE DEF full, out
<1>7. /\ DOMAIN out = {"ok", "service", "payload"} /\ out.service = s
      /\ s = KNX_CONNECTION_RESPONSE => out.payload = k
  BY <1>1, <1>6, ServicesDiffer, Zenon
<1>8. FollowedRemote = remote
  BY <1>5, Zenon DEF FollowedRemote
<1>9. FollowedChannel = IF s = KNX_CONNECTION_RESPONSE THEN p.channel ELSE chid
  <2>1. s = KNX_CONNECTION_RESPONSE => sent.kind = "packet"
    BY <1>3, ServicesDiffer, Zenon
  <2> QED BY <2>1, Zenon DEF FollowedChannel, s, p
<1> HIDE DEF s, p
<1> QED BY <1>2, <1>4, <1>7, <1>8, <1>9, Zenon DEF Follows, out

(* What the client stores of an answer.                                    *)
LEMMA AnswerFollows ==
    ASSUME IInv, sent.kind = "answer", NEW left \in Seq(Cell)
    PROVE  Follows(knx_parse(datagram \o left))
<1> DEFINE s == sent.service
           h == sent.host
           n == sent.services
           out == knx_parse(datagram \o left)
<1>1. AnswerIs(s, h, n, datagram, out)
  BY AnswerArrives, Zenon DEF AnswerReceived
<1>2. s = KNX_SEARCH_RESPONSE \/ s = KNX_DESCRIPTION_RESPONSE
  BY Zenon DEF IInv, AnswerSent
<1>3. "packet" # "answer"
  OBVIOUS
<1> HIDE DEF s, h, n, out
<1>4. /\ DOMAIN out = {"ok", "service", "payload"} /\ out.service = s
      /\ s = KNX_SEARCH_RESPONSE => knx_host_info_parse(From(datagram, 7)).value = h
  BY <1>1, Zenon DEF AnswerIs
<1>5. FollowedRemote = IF s = KNX_SEARCH_RESPONSE THEN h ELSE remote
  BY Zenon DEF FollowedRemote, s, h
<1>6. FollowedChannel = chid
  BY <1>3, Zenon DEF FollowedChannel
<1> QED BY <1>2, <1>4, <1>5, <1>6, ServicesDiffer, Zenon DEF Follows, out

(* What the client stores of a recorded request.                           *)
LEMMA ReplayFollows ==
    ASSUME IInv, sent.kind = "recorded", NEW left \in Seq(Cell)
    PROVE  Follows(knx_parse(datagram \o left))
<1> DEFINE out == knx_parse(datagram \o left)
           q == sent.peer
           y == sent.seq
<1>1. IsReplay(q, datagram, chid, y, out)
  BY ReplayArrives, Zenon DEF ReceivedReplay
<1>2. "packet" # "recorded" /\ "answer" # "recorded"
  OBVIOUS
<1> HIDE DEF out, q, y
<1>3. /\ DOMAIN out = {"ok", "service", "payload"}
      /\ out.service # KNX_SEARCH_RESPONSE /\ out.service # KNX_CONNECTION_RESPONSE
  BY <1>1, Zenon DEF IsReplay
<1>4. FollowedRemote = remote /\ FollowedChannel = chid
  BY <1>2, Zenon DEF FollowedRemote, FollowedChannel
<1> QED BY <1>3, <1>4, Zenon DEF Follows, out

(* What the client stores of anything.                                     *)
LEMMA OutcomeFollows ==
    ASSUME IInv, sent # None, NEW left \in Seq(Cell)
    PROVE  Follows(knx_parse(datagram \o left))
<1>1. sent.kind \in {"packet", "value"} \/ sent.kind = "recorded" \/ sent.kind = "answer"
  BY DEF IInv, NothingSent
<1> QED BY <1>1, PacketFollows, AnswerFollows, ReplayFollows, Zenon

(* It is an address and a channel.                                         *)
LEMMA StoredFollows ==
    ASSUME IInv
    PROVE  FollowedRemote \in KnxHostInfos \cup {NoHost} /\ FollowedChannel \in Octet
<1>1. remote \in KnxHostInfos \cup {NoHost} /\ chid \in Octet
  BY Zenon DEF IInv, StoredRight
<1>2. sent.kind = "answer" /\ sent.service = KNX_SEARCH_RESPONSE => sent.host \in KnxHostInfos
  BY Zenon DEF IInv, AnswerSent
<1>3. FollowedRemote \in KnxHostInfos \cup {NoHost}
  BY <1>1, <1>2, Zenon DEF FollowedRemote
<1>4. sent.kind = "packet" /\ sent.service = KNX_CONNECTION_RESPONSE
      => sent.payload.channel \in Octet
  <2> SUFFICES ASSUME sent.kind = "packet", sent.service = KNX_CONNECTION_RESPONSE
               PROVE  sent.payload.channel \in Octet
    OBVIOUS
  <2> DEFINE p == sent.payload
  <2>1. p \in KnxPayloads(KNX_CONNECTION_RESPONSE)
    BY Zenon DEF IInv, PacketSent
  <2> HIDE DEF p
  <2>2. p.channel \in Octet
    BY <2>1, ConnectionKnown, Zenon
  <2> QED BY <2>2, Zenon DEF p
<1>5. FollowedChannel \in Octet
  BY <1>1, <1>4, Zenon DEF FollowedChannel
<1> QED BY <1>3, <1>5

(* A call of knx_packet_parse: what it makes of the buffer, and what of it *)
(* the client stores.                                                      *)
ReceivedWith(left) ==
    /\ left \in Seq(Cell) /\ sent # None
    /\ packet' = knx_parse(datagram \o left)
    /\ remote' = FollowedRemote /\ chid' = FollowedChannel
    /\ sent' = None /\ datagram' = <<>>

(* Receive is such a call.                                                 *)
LEMMA ReceiveIs ==
    ASSUME IInv, Receive
    PROVE  \E left : ReceivedWith(left)
<1>1. PICK left \in Leftovers :
         /\ sent # None
         /\ packet' = knx_parse(datagram \o left)
         /\ remote' = IF knx_parse(datagram \o left).service = KNX_SEARCH_RESPONSE
                      THEN knx_host_info_parse(From(datagram, KNX_HEADER_SIZE + 1)).value
                      ELSE remote
         /\ chid' = IF knx_parse(datagram \o left).service # KNX_CONNECTION_RESPONSE THEN chid
                    ELSE IF knx_parse(datagram \o left).payload = <<>> THEN 0
                    ELSE knx_parse(datagram \o left).payload.channel
         /\ sent' = None /\ datagram' = <<>>
  BY Zenon DEF Receive
<1>2. left \in Seq(Cell)
  BY ExchangeAssumption, CellSeq, Zenon
<1>3. KNX_HEADER_SIZE + 1 = 7
  BY DEF KNX_HEADER_SIZE
<1>4. Follows(knx_parse(datagram \o left))
  BY <1>1, <1>2, OutcomeFollows, Zenon
<1>5. remote' = FollowedRemote
  BY <1>1, <1>3, <1>4, Zenon DEF Follows
<1>6. chid' = FollowedChannel
  BY <1>1, <1>4, Zenon DEF Follows
<1>7. ReceivedWith(left)
  BY <1>1, <1>2, <1>5, <1>6, Zenon DEF ReceivedWith
<1> QED BY <1>7, Zenon

(* Receiving keeps the invariant.                                          *)
LEMMA ReceiveRight ==
    ASSUME IInv, Receive
    PROVE  IInv'
<1>1. PICK left : ReceivedWith(left)
  BY ReceiveIs, Zenon
<1>2. sent' = None /\ datagram' = <<>> /\ sent # None
  BY <1>1, Zenon DEF ReceivedWith
<1>3. Follows(knx_parse(datagram \o left))
  BY <1>1, OutcomeFollows, Zenon DEF ReceivedWith
<1>4. DOMAIN packet' = {"ok", "service", "payload"}
  BY <1>1, <1>3, Zenon DEF Follows, ReceivedWith
<1>5. remote' \in KnxHostInfos \cup {NoHost} /\ chid' \in Octet
  BY <1>1, StoredFollows, Zenon DEF ReceivedWith
<1>6. StoredRight'
  BY <1>4, <1>5, Zenon DEF StoredRight
<1>7. sent'.kind = "none"
  BY <1>2 DEF None
<1>8. /\ NothingSent' /\ PacketSent' /\ ValueSent' /\ RecordedSent' /\ AnswerSent'
      /\ sent'.kind \in {"none", "packet", "value", "recorded", "answer"}
  BY <1>2, <1>7 DEF NothingSent, PacketSent, ValueSent, RecordedSent, AnswerSent
<1> QED BY <1>6, <1>8, Zenon DEF IInv

(* Every step keeps the invariant.                                         *)
LEMMA NextRight ==
    ASSUME IInv, [Next]_vars
    PROVE  IInv'
<1>1. CASE Next
  BY <1>1, RequestsRight, WritesRight, LibraryPacketRight, ValueRight, ReplayRight,
     GatewayRight, ConnectRight, ReceiveRight, Zenon DEF Next
<1>2. CASE UNCHANGED vars
  BY <1>2, Zenon DEF vars, IInv, StoredRight, NothingSent, PacketSent, ValueSent,
     RecordedSent, AnswerSent
<1> QED BY <1>1, <1>2

(* Whatever leaves nothing under way is a call of knx_packet_parse, or     *)
(* nothing.                                                                *)
LEMMA OnlyReceive ==
    ASSUME [Next]_vars, sent' = None
    PROVE  Receive \/ UNCHANGED vars
<1>1. ASSUME NEW kind, NEW service, NEW payload, NEW value,
             Generate(kind, service, payload, value), kind # "none"
      PROVE  FALSE
  <2>1. sent'.kind = kind
    BY <1>1 DEF Generate
  <2> QED BY <1>1, <2>1 DEF None
<1>2. "packet" # "none" /\ "value" # "none"
  OBVIOUS
<1>3. ~ \E service, payload : Request(service, payload)
  BY <1>1, <1>2, Zenon DEF Request
<1>4. ~ LibraryValue
  <2>1. LibraryValue =>
           \E payload, value : Generate("value", KNX_TUNNEL_REQUEST, payload, value)
    BY SMT DEF LibraryValue
  <2> QED BY <1>1, <1>2, <2>1, Zenon
<1>5. ~ Replay
  BY DEF Replay, None
<1>6. ~ \E service, host, n, octets : Answer(service, host, n, octets)
  BY DEF Answer, None
<1>7. ~ GwSearch /\ ~ GwDescription
  BY <1>6, Zenon DEF GwSearch, GwDescription
<1>8. /\ ~ KNXCSearchRQ /\ ~ KNXCDescription /\ ~ KNXCConnectRQ /\ ~ KNXCConStateRQ
      /\ ~ KNXCTunnelRQ_OpenLight /\ ~ KNXCTunnelRQ_AddrWrite /\ ~ LibraryPacket
      /\ ~ GwConnect
  BY <1>3, Zenon DEF KNXCSearchRQ, KNXCDescription, KNXCConnectRQ, KNXCConStateRQ,
     KNXCTunnelRQ_OpenLight, KNXCTunnelRQ_AddrWrite, LibraryPacket, GwConnect
<1> QED BY <1>4, <1>5, <1>7, <1>8, Zenon DEF Next

(* A step receives a packet as it was sent, or none.                       *)
LEMMA PacketReceivesAs ==
    ASSUME IInv, [Next]_vars
    PROVE  [PacketReceives]_vars
<1>1. CASE UNCHANGED vars
  BY <1>1
<1>2. ASSUME sent' = None, NEW left, ReceivedWith(left),
             sent.kind \in {"packet", "value"}, sent.service # KNX_SEARCH_REQUEST
      PROVE  packet' = [ok |-> TRUE, service |-> sent.service,
                        payload |-> Known(sent.service, sent.payload)]
  BY <1>2, PacketArrives, Zenon DEF ReceivedWith
<1>3. CASE ~ UNCHANGED vars
  BY <1>2, <1>3, OnlyReceive, ReceiveIs, Zenon DEF PacketReceives
<1> QED BY <1>1, <1>3

(* A step receives a recorded request as it was sent, or none.             *)
LEMMA ReplayReceivesAs ==
    ASSUME IInv, [Next]_vars
    PROVE  [ReplayReceives]_vars
<1>1. CASE UNCHANGED vars
  BY <1>1
<1>2. ASSUME sent' = None, NEW left, ReceivedWith(left), sent.kind = "recorded"
      PROVE  IsReplay(sent.peer, datagram, chid, sent.seq, packet')
  BY <1>2, ReplayArrives, Zenon DEF ReceivedWith, ReceivedReplay
<1>3. CASE ~ UNCHANGED vars
  BY <1>2, <1>3, OnlyReceive, ReceiveIs, Zenon DEF ReplayReceives, IsReplay
<1> QED BY <1>1, <1>3

(* A step receives a list of services as it was sent, or none.             *)
LEMMA ServicesReceiveAs ==
    ASSUME IInv, [Next]_vars
    PROVE  [ServicesReceive]_vars
<1>1. CASE UNCHANGED vars
  BY <1>1
<1>2. ASSUME sent' = None, NEW left, ReceivedWith(left), sent.kind = "answer"
      PROVE  AnswerIs(sent.service, sent.host, sent.services, datagram, packet')
  BY <1>2, AnswerArrives, Zenon DEF ReceivedWith, AnswerReceived
<1>3. CASE ~ UNCHANGED vars
  BY <1>2, <1>3, OnlyReceive, ReceiveIs, Zenon DEF ServicesReceive, AnswerIs, ServicesOf
<1> QED BY <1>1, <1>3

(* A step leaves with the client what was sent.                            *)
LEMMA ClientReceivesAs ==
    ASSUME IInv, [Next]_vars
    PROVE  [ClientReceives]_vars
<1>1. CASE UNCHANGED vars
  BY <1>1
<1>2. CASE ~ UNCHANGED vars
  BY <1>2, OnlyReceive, ReceiveIs, Zenon
     DEF ClientReceives, ReceivedWith, FollowedRemote, FollowedChannel
<1> QED BY <1>1, <1>2

(* The APDU of a value is known by its receiver as it is with the apci of  *)
(* a request to write.                                                     *)
LEMMA ValueKnown ==
    ASSUME NEW p \in KnxPayloads(KNX_TUNNEL_REQUEST), NEW a \in OctetsFrom(1),
           p.data.ldata.tpdu = [tpci |-> 0, seq |-> 0, apci |-> 2, payload |-> a]
    PROVE  Known(KNX_TUNNEL_REQUEST, p).data.ldata.tpdu.payload = Marked(a)
<1> DEFINE t == [tpci |-> 0, seq |-> 0, apci |-> 2, payload |-> a]
           u == [t EXCEPT !.payload[1] = (@ % 64) + 64 * (t.apci % 4)]
           f == p.data
           d == f.ldata
           k == [p EXCEPT !.data.ldata.tpdu = KnownTpdu(@)]
<1>1. Known(KNX_TUNNEL_REQUEST, p) = k
  BY DEF Known, KNX_CONNECTION_RESPONSE, KNX_TUNNEL_REQUEST, KNX_ROUTING_INDICATION
<1>2. p \in [channel : Octet, seq : Octet, data : KnxCemis]
  BY PayloadsAre, Zenon
<1>3. f \in KnxCemis /\ d \in KnxLDatas
  BY <1>2 DEF KnxCemis
<1>4. "data" \in DOMAIN p /\ "ldata" \in DOMAIN f /\ "tpdu" \in DOMAIN d
  BY <1>2, <1>3 DEF KnxCemis, KnxLDatas
<1>5. k.data.ldata.tpdu = KnownTpdu(d.tpdu)
  BY <1>4
<1>6. KnownTpdu(t) = u
  BY DEF KnownTpdu, IsControl
<1>7. u.payload = Marked(a)
  BY DEF Marked
<1> QED BY <1>1, <1>5, <1>6, <1>7, Zenon

(* A step receives a value as it was sent, or none.                        *)
LEMMA ValueReceivesAs ==
    ASSUME IInv, [Next]_vars
    PROVE  [ValueReceives]_vars
<1>1. CASE UNCHANGED vars
  BY <1>1
<1>2. ASSUME sent' = None, NEW left, ReceivedWith(left), sent.kind = "value"
      PROVE  ReceivedValue(sent.value,
                      knx_dpt_from_apdu(packet'.payload.data.ldata.tpdu.payload,
                                        sent.value.type, sent.value.size))
  <2> DEFINE v == sent.value
             p == sent.payload
             s == KNX_TUNNEL_REQUEST
             k == Known(s, p)
             full == [ok |-> TRUE, service |-> s, payload |-> k]
  <2>1. /\ v \in DatapointValues /\ sent.service = s
        /\ p.data.ldata.tpdu = [tpci |-> 0, seq |-> 0, apci |-> 2, payload |-> Apdu(v)]
    BY <1>2, Zenon DEF IInv, ValueSent
  <2>2. packet' = full /\ p \in KnxPayloads(s)
    BY <1>2, <2>1, PacketArrives, ServicesDiffer, Zenon DEF ReceivedWith
  <2>3. IsKept(v)
    BY <2>1, EveryKept, Zenon
  <2>4. k.data.ldata.tpdu.payload = Marked(Apdu(v))
    BY <2>1, <2>2, <2>3, ValueKnown, Zenon DEF IsKept
  <2> HIDE DEF k, v
  <2>5. full.payload = k
    OBVIOUS
  <2> HIDE DEF full
  <2>6. packet'.payload.data.ldata.tpdu.payload = Marked(Apdu(v))
    BY <2>2, <2>4, <2>5, Zenon
  <2>7. ReceivedValue(v, knx_dpt_from_apdu(Marked(Apdu(v)), v.type, v.size))
    BY <2>3, Zenon DEF IsKept
  <2> QED BY <2>6, <2>7, Zenon DEF v
<1>3. CASE ~ UNCHANGED vars
  BY <1>2, <1>3, OnlyReceive, ReceiveIs, Zenon DEF ValueReceives
<1> QED BY <1>1, <1>3

(* The invariant holds in every state.                                     *)
LEMMA IInvHolds == Spec => []IInv
BY InitRight, NextRight, PTL DEF Spec

(* A packet under way.                                                     *)
LEMMA PacketUnderWay ==
    ASSUME IInv, sent.kind \in {"packet", "value"}
    PROVE  /\ datagram \in Seq(Cell)
           /\ Len(datagram) = 6 + knx_payload_size(sent.service, sent.payload)
           /\ From16(datagram, 5) = Len(datagram)
           /\ {i \in 1 .. Len(datagram) : datagram[i] = Unwritten}
              = IF sent.service \in Framed THEN {Len(datagram)} ELSE {}
<1> DEFINE s == sent.service
           p == sent.payload
           b == Packet(s, p)
<1>1. p \in KnxPayloads(s) /\ datagram = b
  BY Zenon DEF IInv, PacketSent
<1> HIDE DEF s, p
<1>2. /\ b \in Seq(Cell) /\ Len(b) = 6 + knx_payload_size(s, p)
      /\ From16(b, 5) = Len(b)
      /\ {i \in 1 .. Len(b) : b[i] = Unwritten} = IF s \in Framed THEN {Len(b)} ELSE {}
  BY <1>1, PacketIs
<1> HIDE DEF b
<1> QED BY <1>1, <1>2, Zenon DEF s, p

(* The types, from the invariant.                                          *)
LEMMA TypesAre ==
    ASSUME IInv
    PROVE  TypeOK
<1>1. remote \in KnxHostInfos \cup {NoHost} /\ chid \in Octet
  BY Zenon DEF IInv, StoredRight
<1>2. /\ remote.protocol \in 0 .. 2
      /\ remote.address \in Seq(Octet) /\ Len(remote.address) = 4
      /\ remote.port \in Seq(Octet) /\ Len(remote.port) = 2
  <2>1. CASE remote \in KnxHostInfos
    BY <2>1 DEF KnxHostInfos, Octets
  <2>2. CASE remote = NoHost
    BY <2>2 DEF NoHost, Octet
  <2> QED BY <1>1, <2>1, <2>2
<1>3. datagram \in Seq(Cell)
  <2>1. CASE sent.kind = "none"
    BY <2>1 DEF IInv, NothingSent
  <2>2. CASE sent.kind \in {"packet", "value"}
    BY <2>2, PacketUnderWay, Zenon
  <2> DEFINE left == <<>>
  <2>3. left \in Seq(Cell)
    OBVIOUS
  <2> HIDE DEF left
  <2>4. CASE sent.kind = "recorded"
    BY <2>3, <2>4, ReplayArrives, CellSeq, Zenon DEF ReceivedReplay
  <2>5. CASE sent.kind = "answer"
    BY <2>3, <2>5, AnswerArrives, CellSeq, Zenon DEF AnswerReceived
  <2> QED BY <2>1, <2>2, <2>4, <2>5 DEF IInv
<1> QED BY <1>1, <1>2, <1>3, Zenon DEF TypeOK, IInv, StoredRight, Cell

(* A packet under way has its size, and only the spare octet is open.      *)
LEMMA FitsAre ==
    ASSUME IInv
    PROVE  Fits
<1> SUFFICES ASSUME sent.kind \in {"packet", "value"}
             PROVE  /\ Len(datagram)
                       = KNX_HEADER_SIZE + knx_payload_size(sent.service, sent.payload)
                    /\ From16(datagram, 5) = Len(datagram)
                    /\ {i \in 1 .. Len(datagram) : datagram[i] = Unwritten} =
                         IF sent.service \in {KNX_TUNNEL_REQUEST, KNX_ROUTING_INDICATION}
                         THEN {Len(datagram)} ELSE {}
  BY TypesAre, Zenon DEF Fits
<1> DEFINE n == knx_payload_size(sent.service, sent.payload)
<1>2. /\ Len(datagram) = 6 + n
      /\ From16(datagram, 5) = Len(datagram)
      /\ {i \in 1 .. Len(datagram) : datagram[i] = Unwritten}
         = IF sent.service \in Framed THEN {Len(datagram)} ELSE {}
  BY PacketUnderWay, Zenon
<1> HIDE DEF n
<1>3. KNX_HEADER_SIZE + n = 6 + n
  BY DEF KNX_HEADER_SIZE
<1> QED BY <1>2, <1>3, Zenon DEF Framed, n

(* A caller that gives knx_generate a buffer of knx_size octets gets all   *)
(* of the packet and loses at most the last octet of the size, in every    *)
(* state, for all packets a service can be generated with.                 *)
THEOREM FitsHolds == Spec => []Fits
BY IInvHolds, FitsAre, PTL

(* What the client stores of a gateway is what the gateway sent.           *)
THEOREM ClientFollowsHolds == Spec => ClientFollows
<1>1. IInv /\ [Next]_vars => [ClientReceives]_vars
  BY ClientReceivesAs
<1> QED BY <1>1, IInvHolds, PTL DEF Spec, ClientFollows

(* Packets, recordings and lists of services are received as they were     *)
(* sent, whatever the receive buffer holds behind them.                    *)
THEOREM ReceivedAsSentHolds == Spec => ReceivedAsSent
<1>1. IInv /\ [Next]_vars => [PacketReceives]_vars
  BY PacketReceivesAs
<1>2. IInv /\ [Next]_vars => [ReplayReceives]_vars
  BY ReplayReceivesAs
<1>3. IInv /\ [Next]_vars => [ServicesReceive]_vars
  BY ServicesReceiveAs
<1> QED BY <1>1, <1>2, <1>3, IInvHolds, PTL
        DEF Spec, ReceivedAsSent, RoundTrip, Replayed, ServicesListed

(* A datapoint value of any type arrives, through the APDU and the frame.  *)
THEOREM ValueKeptHolds == Spec => ValueKept
<1>1. IInv /\ [Next]_vars => [ValueReceives]_vars
  BY ValueReceivesAs
<1> QED BY <1>1, IInvHolds, PTL DEF Spec, ValueKept
=============================================================================
