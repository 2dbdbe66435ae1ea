---------------------------- MODULE NetworkProofs ----------------------------
(***************************************************************************)
(* Theorems about four of the parts that Network puts side by side.        *)
(* SocketSend, for any number of threads, any capacity of the kernel's     *)
(* buffer and any number of units sent: the buffers, the lists of the      *)
(* threads and the wire are boxes that together hold every unit once; each *)
(* step of a flush moves what one box holds to another that is empty, or   *)
(* to the end of it that belongs to the older units.  DelayTasks, for any  *)
(* tasks and any bounds on delays and on the length of a flush.            *)
(* TcpServer, for any pollers and any number of connections: what happens  *)
(* to a connection is decided by its own state and by whether the server   *)
(* is still wanted, so that the invariant says what each record may hold,  *)
(* and relates the records to the server by two facts: its destructor      *)
(* begins after the user's reference, and each poller that takes the event *)
(* of a waiting peer looks again before it gives up.  TcpClient, for any   *)
(* number of attempts: an attempt is decided once because what decides it, *)
(* con_cb, is reached only from its connect task, of which there is one,   *)
(* and while its timer runs; and before any error because the error's task *)
(* comes behind the connect task, and ends the timer.                      *)
(***************************************************************************)
EXTENDS Network, Integers, SequenceLemmas, TLAPS, FiniteSetTheorems, SequenceTheorems,
        WellFoundedInduction

-----------------------------------------------------------------------------
(* Boxes that hold the units 1..n, each in one place. *)

Sound(f, B, n) ==
    /\ \A b \in B : IsInjective(f[b]) /\ Range(f[b]) \subseteq 1..n
    /\ \A b, c \in B : b # c => Range(f[b]) \cap Range(f[c]) = {}
    /\ \A u \in 1..n : \E b \in B : u \in Range(f[b])

\* Units go from one box to another.
LEMMA Transfer ==
    ASSUME NEW B, NEW n \in Nat, NEW f, NEW g, Sound(f, B, n),
           NEW a \in B, NEW c \in B, a # c,
           \A b \in B \ {a, c} : g[b] = f[b],
           Range(g[a]) \cup Range(g[c]) = Range(f[a]) \cup Range(f[c]),
           Range(g[a]) \cap Range(g[c]) = {},
           IsInjective(g[a]), IsInjective(g[c])
    PROVE  Sound(g, B, n)
<1>1. \A b \in B : IsInjective(g[b]) /\ Range(g[b]) \subseteq 1..n
  BY DEF Sound
<1>2. ASSUME NEW b \in B, NEW d \in B, b # d PROVE Range(g[b]) \cap Range(g[d]) = {}
  <2>1. CASE b \in {a, c} /\ d \in {a, c}
    BY <1>2, <2>1
  <2>2. CASE b \notin {a, c} /\ d \in {a, c}
    <3>1. Range(f[b]) \cap Range(f[a]) = {} /\ Range(f[b]) \cap Range(f[c]) = {}
      BY <2>2 DEF Sound
    <3> QED BY <2>2, <3>1
  <2>3. CASE b \in {a, c} /\ d \notin {a, c}
    <3>1. Range(f[d]) \cap Range(f[a]) = {} /\ Range(f[d]) \cap Range(f[c]) = {}
      BY <2>3 DEF Sound
    <3> QED BY <2>3, <3>1
  <2>4. CASE b \notin {a, c} /\ d \notin {a, c}
    BY <1>2, <2>4 DEF Sound
  <2> QED BY <2>1, <2>2, <2>3, <2>4
<1>3. ASSUME NEW u \in 1..n PROVE \E b \in B : u \in Range(g[b])
  <2>1. PICK b \in B : u \in Range(f[b])
    BY DEF Sound
  <2>2. CASE b \in {a, c}
    BY <2>1, <2>2
  <2>3. CASE b \notin {a, c}
    BY <2>1, <2>3
  <2> QED BY <2>2, <2>3
<1> QED BY <1>1, <1>2, <1>3 DEF Sound

\* The next unit is put into one box.
LEMMA NewUnit ==
    ASSUME NEW B, NEW n \in Nat, NEW f, NEW g, Sound(f, B, n), NEW a \in B,
           \A b \in B \ {a} : g[b] = f[b],
           Range(g[a]) = Range(f[a]) \cup {n + 1}, IsInjective(g[a])
    PROVE  Sound(g, B, n + 1)
<1>1. \A b \in B : Range(f[b]) \subseteq 1..n /\ n + 1 \notin Range(f[b])
  BY DEF Sound
<1>2. \A b \in B : IsInjective(g[b]) /\ Range(g[b]) \subseteq 1..n + 1
  <2> SUFFICES ASSUME NEW b \in B PROVE IsInjective(g[b]) /\ Range(g[b]) \subseteq 1..n + 1
    OBVIOUS
  <2>1. CASE b = a
    BY <1>1, <2>1
  <2>2. CASE b # a
    BY <1>1, <2>2 DEF Sound
  <2> QED BY <2>1, <2>2
<1>3. ASSUME NEW b \in B, NEW d \in B, b # d PROVE Range(g[b]) \cap Range(g[d]) = {}
  <2>1. Range(f[b]) \cap Range(f[d]) = {}
    BY <1>3 DEF Sound
  <2> QED BY <1>1, <1>3, <2>1
<1>4. ASSUME NEW u \in 1..n + 1 PROVE \E b \in B : u \in Range(g[b])
  <2>1. CASE u = n + 1
    BY <2>1
  <2>2. CASE u # n + 1
    <3>1. PICK b \in B : u \in Range(f[b])
      BY <2>2 DEF Sound
    <3> QED BY <3>1
  <2> QED BY <2>1, <2>2
<1> QED BY <1>2, <1>3, <1>4 DEF Sound

LEMMA EmptyBox == IsInjective(<<>>) /\ Range(<<>>) = {}
<1>1. DOMAIN <<>> = {}
  OBVIOUS
<1> QED BY <1>1, RangeEmpty DEF IsInjective

-----------------------------------------------------------------------------
(* The invariant. *)

Lists == Seq(Nat)
SendTypes == /\ waiting \in Lists /\ sending \in Lists /\ wire \in Lists
         /\ tmp \in [Send!Threads -> Lists] /\ pc \in [Send!Threads -> Send!Places]
         /\ left \in Seq({"arm", "err"}) /\ posted \in Nat
         /\ err \in BOOLEAN /\ broken \in BOOLEAN /\ foreign \in BOOLEAN

\* A thread holds units between its taking them and its putting them back.
Holding == \A t \in Send!Threads : tmp[t] # <<>> => pc[t] \in {"write", "arm", "roll"}

\* The buffers are cleared behind an error only.
Clearing == /\ pc[Poller] \in {"close", "remove"} => err
            /\ \A x \in Range(left) : x = "err" => err

Intact == ~err /\ ~broken
Boxes == {<<"wire", Poller>>, <<"sending", Poller>>, <<"waiting", Poller>>}
         \cup {<<"tmp", t>> : t \in Send!Threads}
Contents(w, s, q, f) ==
    [b \in Boxes |-> CASE b[1] = "wire"    -> w
                       [] b[1] = "sending" -> s
                       [] b[1] = "waiting" -> q
                       [] b[1] = "tmp"     -> f[b[2]]]
Held == Contents(wire, sending, waiting, tmp)
Whole == Intact => Sound(Held, Boxes, posted)

\* Until another thread sends, the poller's flush finds the older buffer empty when
\* it turns to the newer one, and what is sent is in one row.
Alone == ~foreign => /\ \A t \in Send!Threads \ {Poller} : pc[t] = "idle"
                     /\ Intact /\ pc[Poller] = "refill" => sending = <<>>

SendInv == SendTypes /\ Holding /\ Clearing /\ Whole /\ Alone /\ Send!InOrder


-----------------------------------------------------------------------------
(* The boxes. *)

Wire == <<"wire", Poller>>
Sending == <<"sending", Poller>>
Waiting == <<"waiting", Poller>>
Tmp(t) == <<"tmp", t>>

LEMMA BoxContents ==
    ASSUME NEW w, NEW s, NEW q, NEW f
    PROVE  LET h == Contents(w, s, q, f)
           IN  /\ Wire \in Boxes /\ h[Wire] = w
               /\ Sending \in Boxes /\ h[Sending] = s
               /\ Waiting \in Boxes /\ h[Waiting] = q
               /\ \A t \in Send!Threads : Tmp(t) \in Boxes /\ h[Tmp(t)] = f[t]
BY DEF Contents, Boxes, Wire, Sending, Waiting, Tmp

LEMMA BoxesApart ==
    /\ Wire # Sending /\ Wire # Waiting /\ Sending # Waiting
    /\ \A t \in Send!Threads : Tmp(t) # Wire /\ Tmp(t) # Sending /\ Tmp(t) # Waiting
    /\ \A t, u \in Send!Threads : t # u => Tmp(t) # Tmp(u)
    /\ Boxes = {Wire, Sending, Waiting} \cup {Tmp(t) : t \in Send!Threads}
BY DEF Boxes, Wire, Sending, Waiting, Tmp

\* What one thread moves between its list and another box.
LEMMA Moves ==
    ASSUME NEW n \in Nat, NEW h, NEW g, NEW t \in Send!Threads, NEW c \in {Wire, Sending, Waiting},
           Sound(h, Boxes, n),
           \A u \in Send!Threads \ {t} : g[Tmp(u)] = h[Tmp(u)],
           \A b \in {Wire, Sending, Waiting} \ {c} : g[b] = h[b],
           Range(g[c]) \cup Range(g[Tmp(t)]) = Range(h[c]) \cup Range(h[Tmp(t)]),
           Range(g[c]) \cap Range(g[Tmp(t)]) = {},
           IsInjective(g[c]), IsInjective(g[Tmp(t)])
    PROVE  Sound(g, Boxes, n)
<1> DEFINE a == Tmp(t)
<1>1. a \in Boxes /\ c \in Boxes /\ a # c
  BY BoxContents, BoxesApart
<1>2. \A b \in Boxes \ {a, c} : g[b] = h[b]
  <2> SUFFICES ASSUME NEW b \in Boxes, b # a, b # c PROVE g[b] = h[b]
    OBVIOUS
  <2>1. CASE b \in {Wire, Sending, Waiting}
    BY <2>1
  <2>2. CASE b \notin {Wire, Sending, Waiting}
    <3>1. PICK u \in Send!Threads : b = Tmp(u)
      BY <2>2, BoxesApart
    <3> QED BY <3>1
  <2> QED BY <2>1, <2>2
<1>3. /\ Range(g[a]) \cup Range(g[c]) = Range(h[a]) \cup Range(h[c])
      /\ Range(g[a]) \cap Range(g[c]) = {} /\ IsInjective(g[a]) /\ IsInjective(g[c])
  OBVIOUS
<1> HIDE DEF a
<1> QED BY <1>1, <1>2, <1>3, Transfer

LEMMA HeldNow ==
    /\ Held[Wire] = wire /\ Held[Sending] = sending /\ Held[Waiting] = waiting
    /\ \A t \in Send!Threads : Held[Tmp(t)] = tmp[t]
    /\ Held'[Wire] = wire' /\ Held'[Sending] = sending' /\ Held'[Waiting] = waiting'
    /\ \A t \in Send!Threads : Held'[Tmp(t)] = tmp'[t]
BY BoxContents DEF Held

\* A thread's list and another box have nothing in common.
LEMMA Apart ==
    ASSUME NEW n, NEW w, NEW s, NEW q, NEW f, NEW t \in Send!Threads,
           Sound(Contents(w, s, q, f), Boxes, n)
    PROVE  /\ IsInjective(w) /\ IsInjective(s) /\ IsInjective(q) /\ IsInjective(f[t])
           /\ Range(w) \cap Range(f[t]) = {} /\ Range(s) \cap Range(f[t]) = {}
           /\ Range(q) \cap Range(f[t]) = {}
           /\ Range(q) \subseteq 1..n
<1> DEFINE h == Contents(w, s, q, f)
<1>1. /\ h[Wire] = w /\ h[Sending] = s /\ h[Waiting] = q /\ h[Tmp(t)] = f[t]
      /\ Wire \in Boxes /\ Sending \in Boxes /\ Waiting \in Boxes /\ Tmp(t) \in Boxes
  BY BoxContents
<1>2. Tmp(t) # Wire /\ Tmp(t) # Sending /\ Tmp(t) # Waiting
  BY BoxesApart
<1>3. Sound(h, Boxes, n)
  OBVIOUS
<1> HIDE DEF h
<1> QED BY <1>1, <1>2, <1>3 DEF Sound

-----------------------------------------------------------------------------
(* What is sent by the poller alone, in one row. *)

Row(w, t, s, q) == w \o t \o s \o q
Sent(n) == [i \in 1..n |-> i]

LEMMA RowMoves ==
    ASSUME NEW w \in Lists, NEW t \in Lists, NEW s \in Lists, NEW q \in Lists
    PROVE  /\ Row(w, <<>>, s, q) = Row(w, s, <<>>, q)
           /\ Row(w, <<>>, <<>>, q) = Row(w, q, <<>>, <<>>)
           /\ Row(w, t, s, q) = Row(w, <<>>, t \o s, q)
<1>1. <<>> \in Lists
  BY DEF Lists
<1>2. /\ w \o s \in Lists /\ w \o t \in Lists /\ t \o s \in Lists /\ w \o q \in Lists
      /\ (w \o t) \o s \in Lists
  BY ConcatProperties DEF Lists
<1>3. /\ w \o <<>> = w /\ (w \o s) \o <<>> = w \o s
      /\ (w \o q) \o <<>> = w \o q
  BY <1>2, ConcatEmptySeq DEF Lists
<1>4. w \in Seq(Nat) /\ t \in Seq(Nat) /\ s \in Seq(Nat)
  BY DEF Lists
<1>5. (w \o t) \o s = w \o (t \o s)
  BY <1>4, ConcatAssociative
<1> QED BY <1>3, <1>5 DEF Row

LEMMA RowGrows ==
    ASSUME NEW w \in Lists, NEW t \in Lists, NEW s \in Lists, NEW q \in Lists,
           NEW n \in Nat, Row(w, t, s, q) = Sent(n)
    PROVE  Row(w, t, s, Append(q, n + 1)) = Sent(n + 1)
<1> DEFINE p == w \o t \o s
           e == n + 1
           r == p \o q
<1>1. p \in Lists
  BY ConcatProperties DEF Lists
<1>2. e \in Nat /\ <<e>> \in Lists
  BY DEF Lists
<1> HIDE DEF p
<1>3. r \in Lists /\ r = [i \in 1..n |-> i]
  BY <1>1, ConcatProperties DEF Lists, Row, Sent, p
<1>4. Append(q, e) = q \o <<e>> /\ Append(r, e) = r \o <<e>>
  BY <1>2, <1>3, AppendIsConcat DEF Lists
<1>5. p \o (q \o <<e>>) = (p \o q) \o <<e>>
  BY <1>1, <1>2, ConcatAssociative DEF Lists
<1>6. Row(w, t, s, Append(q, e)) = Append(r, e)
  BY <1>4, <1>5 DEF Row, p
<1> HIDE DEF r
<1>7. Len(r) = n /\ \A i \in 1..n : r[i] = i
  BY <1>3
<1>8. /\ Append(r, e) \in Lists /\ Len(Append(r, e)) = n + 1
      /\ \A i \in 1..n : Append(r, e)[i] = i
      /\ Append(r, e)[n + 1] = e
  BY <1>2, <1>3, <1>7, AppendProperties DEF Lists
<1>9. DOMAIN Append(r, e) = 1..n + 1
  BY <1>8, LenProperties DEF Lists
<1>10. \A i \in 1..n + 1 : Append(r, e)[i] = i
  BY <1>8
<1>11. Append(r, e) = [i \in 1..n + 1 |-> Append(r, e)[i]]
  BY <1>8, <1>9 DEF Lists
<1> QED BY <1>6, <1>10, <1>11 DEF Sent


-----------------------------------------------------------------------------
(* The steps. *)

LEMMA SendStart == Send!Init => SendInv
<1> SUFFICES ASSUME Send!Init PROVE SendInv
  OBVIOUS
<1>1. /\ waiting = <<>> /\ sending = <<>> /\ wire = <<>> /\ tmp = [t \in Send!Threads |-> <<>>]
      /\ pc = [t \in Send!Threads |-> "idle"] /\ left = <<>> /\ posted = 0
      /\ err = FALSE /\ broken = FALSE /\ foreign = FALSE
  BY DEF Send!Init
<1>2. SendTypes
  <2>1. <<>> \in Lists /\ <<>> \in Seq({"arm", "err"}) /\ "idle" \in Send!Places
    BY DEF Lists, Send!Places
  <2> QED BY <1>1, <2>1 DEF SendTypes
<1>3. Holding
  BY <1>1 DEF Holding
<1>4. Clearing
  BY <1>1, RangeEmpty DEF Clearing, Send!Threads
<1>5. \A b \in Boxes : Held[b] = <<>>
  <2> SUFFICES ASSUME NEW b \in Boxes PROVE Held[b] = <<>>
    OBVIOUS
  <2>1. CASE b \in {Wire, Sending, Waiting}
    BY <1>1, <2>1, BoxContents DEF Held
  <2>2. CASE b \notin {Wire, Sending, Waiting}
    <3>1. PICK t \in Send!Threads : b = Tmp(t)
      BY <2>2, BoxesApart
    <3> QED BY <1>1, <3>1, BoxContents DEF Held
  <2> QED BY <2>1, <2>2
<1>6. Whole
  <2>1. 1..posted = {}
    BY <1>1
  <2> QED BY <1>5, <2>1, EmptyBox DEF Whole, Sound
<1>7. Alone
  BY <1>1 DEF Alone
<1>8. Send!InOrder
  <2>1. Poller \in Send!Threads /\ tmp[Poller] = <<>>
    BY <1>1 DEF Send!Threads
  <2>2. <<>> \o <<>> = <<>>
    OBVIOUS
  <2>3. [i \in 1..posted |-> i] = <<>>
    BY <1>1
  <2> QED BY <1>1, <2>1, <2>2, <2>3 DEF Send!InOrder
<1> QED BY <1>2, <1>3, <1>4, <1>6, <1>7, <1>8 DEF SendInv

\* A thread that is under way goes on, or the poller begins something.
LEMMA PcStep ==
    ASSUME SendInv, NEW t \in Send!Threads, NEW p \in Send!Places, pc' = [pc EXCEPT ![t] = p],
           t = Poller \/ pc[t] # "idle"
    PROVE  /\ pc' \in [Send!Threads -> Send!Places] /\ pc'[t] = p
           /\ \A u \in Send!Threads \ {t} : pc'[u] = pc[u]
           /\ ~foreign => t = Poller
           /\ ~foreign => \A u \in Send!Threads \ {Poller} : pc'[u] = "idle"
BY DEF SendInv, SendTypes, Alone

\* Steps that move no unit.
LEMMA Quiet ==
    ASSUME SendInv, UNCHANGED <<waiting, sending, tmp, wire, posted, foreign>>,
           Intact' => Intact, err' \in BOOLEAN, broken' \in BOOLEAN,
           left' \in Seq({"arm", "err"}), err => err',
           \A x \in Range(left') : x = "err" => err',
           \/ pc' = pc
           \/ \E t \in Send!Threads, p \in Send!Places :
                 /\ pc' = [pc EXCEPT ![t] = p]
                 /\ t = Poller \/ pc[t] # "idle"
                 /\ p # "refill"
                 /\ tmp[t] = <<>> \/ p = "roll"
                 /\ t = Poller /\ p \in {"close", "remove"} => err'
    PROVE  SendInv'
<1> USE DEF SendInv
<1>1. CASE pc' = pc
  <2>1. SendTypes' /\ Holding' /\ Clearing' /\ Alone'
    BY <1>1 DEF SendTypes, Holding, Clearing, Alone
  <2>2. Whole' /\ Send!InOrder'
    BY DEF Whole, Held, Intact, Send!InOrder
  <2> QED BY <2>1, <2>2
<1>2. CASE \E t \in Send!Threads, p \in Send!Places :
              /\ pc' = [pc EXCEPT ![t] = p]
              /\ t = Poller \/ pc[t] # "idle"
              /\ p # "refill"
              /\ tmp[t] = <<>> \/ p = "roll"
              /\ t = Poller /\ p \in {"close", "remove"} => err'
  <2>1. PICK t \in Send!Threads, p \in Send!Places :
            /\ pc' = [pc EXCEPT ![t] = p]
            /\ t = Poller \/ pc[t] # "idle"
            /\ p # "refill"
            /\ tmp[t] = <<>> \/ p = "roll"
            /\ t = Poller /\ p \in {"close", "remove"} => err'
    BY <1>2
  <2>2. /\ pc' \in [Send!Threads -> Send!Places] /\ pc'[t] = p
        /\ \A u \in Send!Threads \ {t} : pc'[u] = pc[u]
        /\ ~foreign => t = Poller
        /\ ~foreign => \A u \in Send!Threads \ {Poller} : pc'[u] = "idle"
    BY <2>1, PcStep
  <2>3. SendTypes'
    BY <2>2 DEF SendTypes
  <2>4. Holding'
    BY <2>1, <2>2 DEF Holding
  <2>5. Clearing'
    BY <2>1, <2>2 DEF Clearing, Send!Threads
  <2>6. Alone'
    BY <2>1, <2>2 DEF Alone
  <2>7. Whole' /\ Send!InOrder'
    BY DEF Whole, Held, Intact, Send!InOrder
  <2> QED BY <2>3, <2>4, <2>5, <2>6, <2>7
<1> QED BY <1>1, <1>2

\* Steps in which thread t moves units between its list and one of the boxes.
LEMMA MoveStep ==
    ASSUME SendInv, NEW t \in Send!Threads, NEW p \in Send!Places, pc' = [pc EXCEPT ![t] = p],
           pc[t] # "idle", UNCHANGED <<posted, foreign, left, err, broken>>,
           waiting' \in Lists, sending' \in Lists, wire' \in Lists, tmp'[t] \in Lists,
           tmp' = [tmp EXCEPT ![t] = tmp'[t]],
           tmp'[t] # <<>> => p \in {"write", "arm", "roll"},
           p \notin {"close", "remove"},
           p = "refill" => sending' = <<>>,
           Intact => Sound(Held', Boxes, posted),
           Intact /\ ~foreign /\ t = Poller =>
               Row(wire', tmp'[Poller], sending', waiting') =
               Row(wire, tmp[Poller], sending, waiting)
    PROVE  SendInv'
<1> USE DEF SendInv
<1>1. /\ pc' \in [Send!Threads -> Send!Places] /\ pc'[t] = p
      /\ \A u \in Send!Threads \ {t} : pc'[u] = pc[u]
      /\ ~foreign => t = Poller
      /\ ~foreign => \A u \in Send!Threads \ {Poller} : pc'[u] = "idle"
  BY PcStep
<1>2. tmp' \in [Send!Threads -> Lists] /\ \A u \in Send!Threads \ {t} : tmp'[u] = tmp[u]
  BY DEF SendTypes
<1>3. SendTypes'
  BY <1>1, <1>2 DEF SendTypes
<1>4. Holding'
  BY <1>1, <1>2 DEF Holding
<1>5. Clearing'
  BY <1>1 DEF Clearing, Send!Threads
<1>6. Whole'
  BY DEF Whole, Intact
<1>7. Alone'
  BY <1>1 DEF Alone, Intact
<1>8. Send!InOrder'
  BY <1>1 DEF Send!InOrder, Row, Intact
<1> QED BY <1>3, <1>4, <1>5, <1>6, <1>7, <1>8


LEMMA SwapStep == ASSUME SendInv, NEW t \in Send!Threads, Send!Swap(t) PROVE SendInv'
<1> USE DEF SendInv
<1> DEFINE p == IF sending = <<>> THEN "refill" ELSE "write"
<1>1. /\ pc[t] = "swap" /\ tmp' = [tmp EXCEPT ![t] = sending] /\ sending' = <<>>
      /\ pc' = [pc EXCEPT ![t] = p] /\ p \in Send!Places
      /\ UNCHANGED <<waiting, wire, posted, foreign, left, err, broken>>
  BY DEF Send!Swap, Send!Goto, Send!kernel, Send!fate, Send!history, Send!Places, Send!Flushing
<1>2. /\ waiting \in Lists /\ sending \in Lists /\ wire \in Lists /\ tmp[t] = <<>>
      /\ tmp'[t] = sending /\ \A u \in Send!Threads \ {t} : tmp'[u] = tmp[u]
      /\ sending' \in Lists /\ <<>> \in Lists
  BY <1>1 DEF SendTypes, Holding, Lists
<1>3. Intact => Sound(Held', Boxes, posted)
  <2> SUFFICES ASSUME Intact PROVE Sound(Held', Boxes, posted)
    OBVIOUS
  <2>1. Sound(Contents(wire, sending, waiting, tmp), Boxes, posted) /\ posted \in Nat
    BY DEF Whole, Held, SendTypes
  <2>2. IsInjective(sending)
    BY <2>1, Apart
  <2>3. /\ IsInjective(sending') /\ IsInjective(tmp'[t])
        /\ Range(sending') \cup Range(tmp'[t]) = Range(sending) \cup Range(tmp[t])
        /\ Range(sending') \cap Range(tmp'[t]) = {}
    BY <1>1, <1>2, <2>2, EmptyBox
  <2>4. Sound(Held, Boxes, posted) /\ Sending \in {Wire, Sending, Waiting}
    BY <2>1 DEF Held
  <2>5. /\ Range(Held'[Sending]) \cup Range(Held'[Tmp(t)]) = Range(Held[Sending]) \cup Range(Held[Tmp(t)])
        /\ Range(Held'[Sending]) \cap Range(Held'[Tmp(t)]) = {}
        /\ IsInjective(Held'[Sending]) /\ IsInjective(Held'[Tmp(t)])
    BY <2>3, HeldNow
  <2>6. /\ \A u \in Send!Threads \ {t} : Held'[Tmp(u)] = Held[Tmp(u)]
        /\ \A b \in {Wire, Sending, Waiting} \ {Sending} : Held'[b] = Held[b]
    BY HeldNow, <1>1, <1>2
  <2> QED BY <2>1, <2>4, <2>5, <2>6, Moves
<1>4. Row(wire', tmp'[t], sending', waiting') = Row(wire, tmp[t], sending, waiting)
  BY <1>1, <1>2, RowMoves
<1>5. tmp' = [tmp EXCEPT ![t] = tmp'[t]]
  BY <1>1, <1>2
<1> QED BY <1>1, <1>2, <1>3, <1>4, <1>5, MoveStep

LEMMA RefillStep == ASSUME SendInv, NEW t \in Send!Threads, Send!Refill(t) PROVE SendInv'
<1> USE DEF SendInv
<1>1. PICK p \in {"write", "done", "idle"} :
          pc' = [pc EXCEPT ![t] = p] /\ (waiting # <<>> => p = "write")
  BY DEF Send!Refill, Send!Goto
<1>2. /\ pc[t] = "refill" /\ tmp' = [tmp EXCEPT ![t] = waiting] /\ waiting' = <<>>
      /\ p \in Send!Places
      /\ UNCHANGED <<sending, wire, posted, foreign, left, err, broken>>
  BY DEF Send!Refill, Send!kernel, Send!fate, Send!history, Send!Places, Send!Flushing
<1>3. /\ waiting \in Lists /\ sending \in Lists /\ wire \in Lists /\ tmp[t] = <<>>
      /\ tmp'[t] = waiting /\ \A u \in Send!Threads \ {t} : tmp'[u] = tmp[u]
      /\ waiting' \in Lists /\ <<>> \in Lists
  BY <1>2 DEF SendTypes, Holding, Lists
<1>4. Intact => Sound(Held', Boxes, posted)
  <2> SUFFICES ASSUME Intact PROVE Sound(Held', Boxes, posted)
    OBVIOUS
  <2>1. Sound(Contents(wire, sending, waiting, tmp), Boxes, posted) /\ posted \in Nat
    BY DEF Whole, Held, SendTypes
  <2>2. IsInjective(waiting)
    BY <2>1, Apart
  <2>3. /\ IsInjective(waiting') /\ IsInjective(tmp'[t])
        /\ Range(waiting') \cup Range(tmp'[t]) = Range(waiting) \cup Range(tmp[t])
        /\ Range(waiting') \cap Range(tmp'[t]) = {}
    BY <1>2, <1>3, <2>2, EmptyBox
  <2>4. Sound(Held, Boxes, posted) /\ Waiting \in {Wire, Sending, Waiting}
    BY <2>1 DEF Held
  <2>5. /\ Range(Held'[Waiting]) \cup Range(Held'[Tmp(t)]) = Range(Held[Waiting]) \cup Range(Held[Tmp(t)])
        /\ Range(Held'[Waiting]) \cap Range(Held'[Tmp(t)]) = {}
        /\ IsInjective(Held'[Waiting]) /\ IsInjective(Held'[Tmp(t)])
    BY <2>3, HeldNow
  <2>6. /\ \A u \in Send!Threads \ {t} : Held'[Tmp(u)] = Held[Tmp(u)]
        /\ \A b \in {Wire, Sending, Waiting} \ {Waiting} : Held'[b] = Held[b]
    BY HeldNow, <1>2, <1>3
  <2> QED BY <2>1, <2>4, <2>5, <2>6, Moves
<1>5. Intact /\ ~foreign /\ t = Poller =>
          Row(wire', tmp'[t], sending', waiting') = Row(wire, tmp[t], sending, waiting)
  <2>1. Intact /\ ~foreign /\ t = Poller => sending = <<>>
    BY <1>2 DEF Alone
  <2> QED BY <1>2, <1>3, <2>1, RowMoves
<1>6. tmp' = [tmp EXCEPT ![t] = tmp'[t]] /\ (tmp'[t] # <<>> => p = "write")
  BY <1>1, <1>2, <1>3
<1> QED BY <1>1, <1>2, <1>3, <1>4, <1>5, <1>6, MoveStep

LEMMA WriteStep == ASSUME SendInv, NEW t \in Send!Threads, Send!Write(t) PROVE SendInv'
<1> USE DEF SendInv
<1>1. PICK n \in 0..Len(tmp[t]) :
          /\ wire' = wire \o SubSeq(tmp[t], 1, n)
          /\ tmp' = [tmp EXCEPT ![t] = SubSeq(tmp[t], n + 1, Len(tmp[t]))]
          /\ IF n = Len(tmp[t]) THEN Send!Goto(t, IF Send!OnEvent(t) THEN "swap" ELSE "idle")
                                ELSE Send!Goto(t, IF Send!OnEvent(t) THEN "roll" ELSE "arm")
  BY DEF Send!Write
<1> DEFINE a == SubSeq(tmp[t], 1, n)
           b == SubSeq(tmp[t], n + 1, Len(tmp[t]))
<1>2. PICK p \in {"swap", "idle", "roll", "arm"} :
          pc' = [pc EXCEPT ![t] = p] /\ (n # Len(tmp[t]) => p \in {"roll", "arm"})
  BY <1>1 DEF Send!Goto
<1>3. /\ pc[t] = "write" /\ p \in Send!Places
      /\ UNCHANGED <<sending, waiting, posted, foreign, left, err, broken>>
  BY DEF Send!Write, Send!fate, Send!history, Send!Places, Send!Flushing
<1>4. /\ waiting \in Lists /\ sending \in Lists /\ wire \in Lists /\ tmp[t] \in Lists
      /\ tmp \in [Send!Threads -> Lists]
  BY DEF SendTypes
<1>5. a \in Lists /\ b \in Lists /\ a \o b = tmp[t] /\ (n = Len(tmp[t]) => b = <<>>)
  BY <1>4, SplitConcat DEF Lists
<1>6. /\ wire' = wire \o a /\ tmp' = [tmp EXCEPT ![t] = b] /\ tmp'[t] = b
      /\ \A u \in Send!Threads \ {t} : tmp'[u] = tmp[u]
  BY <1>1, <1>4
<1> HIDE DEF a, b
<1>7. wire' \in Lists
  BY <1>4, <1>5, <1>6, ConcatProperties DEF Lists
<1>8. Intact => Sound(Held', Boxes, posted)
  <2> SUFFICES ASSUME Intact PROVE Sound(Held', Boxes, posted)
    OBVIOUS
  <2>1. Sound(Contents(wire, sending, waiting, tmp), Boxes, posted) /\ posted \in Nat
    BY DEF Whole, Held, SendTypes
  <2>2. IsInjective(wire) /\ IsInjective(a \o b) /\ Range(wire) \cap Range(a \o b) = {}
    BY <1>5, <2>1, Apart
  <2>3. /\ IsInjective(a) /\ IsInjective(b) /\ Range(a) \cap Range(b) = {}
        /\ Range(a \o b) = Range(a) \cup Range(b)
    <3>1. a \in Seq(Nat) /\ b \in Seq(Nat)
      BY <1>5 DEF Lists
    <3>2. Range(a \o b) = Range(a) \cup Range(b)
      BY <3>1, RangeConcat
    <3>3. IsInjective(a \o b) <=> IsInjective(a) /\ IsInjective(b) /\ Range(a) \cap Range(b) = {}
      BY <3>1, InjectiveConcat
    <3> QED BY <2>2, <3>2, <3>3
  <2>4. /\ Range(wire') = Range(wire) \cup Range(a)
        /\ IsInjective(wire') <=> IsInjective(wire) /\ IsInjective(a) /\ Range(wire) \cap Range(a) = {}
    BY <1>4, <1>5, <1>6, InjectiveConcat, RangeConcat DEF Lists
  <2>5. /\ IsInjective(wire') /\ IsInjective(tmp'[t])
        /\ Range(wire') \cup Range(tmp'[t]) = Range(wire) \cup Range(tmp[t])
        /\ Range(wire') \cap Range(tmp'[t]) = {}
    BY <1>5, <1>6, <2>2, <2>3, <2>4
  <2>6. Sound(Held, Boxes, posted) /\ Wire \in {Wire, Sending, Waiting}
    BY <2>1 DEF Held
  <2>7. /\ Range(Held'[Wire]) \cup Range(Held'[Tmp(t)]) = Range(Held[Wire]) \cup Range(Held[Tmp(t)])
        /\ Range(Held'[Wire]) \cap Range(Held'[Tmp(t)]) = {}
        /\ IsInjective(Held'[Wire]) /\ IsInjective(Held'[Tmp(t)])
    BY <2>5, HeldNow
  <2>8. /\ \A u \in Send!Threads \ {t} : Held'[Tmp(u)] = Held[Tmp(u)]
        /\ \A box \in {Wire, Sending, Waiting} \ {Wire} : Held'[box] = Held[box]
    BY HeldNow, <1>3, <1>6
  <2> QED BY <2>1, <2>6, <2>7, <2>8, Moves
<1>9. Row(wire', tmp'[t], sending', waiting') = Row(wire, tmp[t], sending, waiting)
  <2>1. Row(wire, a \o b, sending, waiting) = Row(wire \o a, b, sending, waiting)
    <3>1. wire \in Seq(Nat) /\ a \in Seq(Nat) /\ b \in Seq(Nat)
      BY <1>4, <1>5 DEF Lists
    <3>2. (wire \o a) \o b = wire \o (a \o b)
      BY <3>1, ConcatAssociative
    <3> QED BY <3>2 DEF Row
  <2> QED BY <1>3, <1>5, <1>6, <2>1
<1>10. tmp' = [tmp EXCEPT ![t] = tmp'[t]]
       /\ (tmp'[t] # <<>> => p \in {"write", "arm", "roll"})
  BY <1>2, <1>5, <1>6
<1> QED BY <1>2, <1>3, <1>4, <1>5, <1>6, <1>7, <1>8, <1>9, <1>10, MoveStep

LEMMA RollStep == ASSUME SendInv, NEW t \in Send!Threads, Send!Roll(t) PROVE SendInv'
<1> USE DEF SendInv
<1>1. /\ pc[t] = "roll" /\ tmp' = [tmp EXCEPT ![t] = <<>>] /\ sending' = tmp[t] \o sending
      /\ pc' = [pc EXCEPT ![t] = "idle"] /\ "idle" \in Send!Places
      /\ UNCHANGED <<waiting, wire, posted, foreign, left, err, broken>>
  BY DEF Send!Roll, Send!Goto, Send!kernel, Send!fate, Send!history, Send!Places
<1>2. /\ waiting \in Lists /\ sending \in Lists /\ wire \in Lists /\ tmp[t] \in Lists
      /\ tmp'[t] = <<>> /\ \A u \in Send!Threads \ {t} : tmp'[u] = tmp[u]
      /\ <<>> \in Lists
  BY <1>1 DEF SendTypes, Lists
<1>3. sending' \in Lists
  BY <1>1, <1>2, ConcatProperties DEF Lists
<1>4. Intact => Sound(Held', Boxes, posted)
  <2> SUFFICES ASSUME Intact PROVE Sound(Held', Boxes, posted)
    OBVIOUS
  <2>1. Sound(Contents(wire, sending, waiting, tmp), Boxes, posted) /\ posted \in Nat
    BY DEF Whole, Held, SendTypes
  <2>2. /\ IsInjective(sending) /\ IsInjective(tmp[t])
        /\ Range(tmp[t]) \cap Range(sending) = {}
    BY <2>1, Apart
  <2>3. Range(sending') = Range(tmp[t]) \cup Range(sending) /\ IsInjective(sending')
    BY <1>1, <1>2, <2>2, RangeConcat, InjectiveConcat DEF Lists
  <2>4. /\ IsInjective(tmp'[t])
        /\ Range(sending') \cup Range(tmp'[t]) = Range(sending) \cup Range(tmp[t])
        /\ Range(sending') \cap Range(tmp'[t]) = {}
    BY <1>2, <2>3, EmptyBox
  <2>5. Sound(Held, Boxes, posted) /\ Sending \in {Wire, Sending, Waiting}
    BY <2>1 DEF Held
  <2>6. /\ Range(Held'[Sending]) \cup Range(Held'[Tmp(t)]) = Range(Held[Sending]) \cup Range(Held[Tmp(t)])
        /\ Range(Held'[Sending]) \cap Range(Held'[Tmp(t)]) = {}
        /\ IsInjective(Held'[Sending]) /\ IsInjective(Held'[Tmp(t)])
    BY <2>3, <2>4, HeldNow
  <2>7. /\ \A u \in Send!Threads \ {t} : Held'[Tmp(u)] = Held[Tmp(u)]
        /\ \A b \in {Wire, Sending, Waiting} \ {Sending} : Held'[b] = Held[b]
    BY HeldNow, <1>1, <1>2
  <2> QED BY <2>1, <2>5, <2>6, <2>7, Moves
<1>5. Row(wire', tmp'[t], sending', waiting') = Row(wire, tmp[t], sending, waiting)
  BY <1>1, <1>2, RowMoves
<1>6. tmp' = [tmp EXCEPT ![t] = tmp'[t]]
  BY <1>1, <1>2
<1> QED BY <1>1, <1>2, <1>3, <1>4, <1>5, <1>6, MoveStep


LEMMA PushStep == ASSUME SendInv, NEW t \in Send!Threads, Send!Push(t) PROVE SendInv'
<1> USE DEF SendInv
<1> DEFINE e == posted + 1
<1>1. /\ pc[t] \in {"idle", "lock"} /\ posted' = e /\ waiting' = Append(waiting, e)
      /\ foreign' = (foreign \/ t # Poller) /\ pc' = [pc EXCEPT ![t] = "lock"]
      /\ UNCHANGED <<sending, tmp, wire, left, err, broken>>
  BY DEF Send!Push, Send!Goto, Send!kernel, Send!fate
<1>2. /\ waiting \in Lists /\ sending \in Lists /\ wire \in Lists /\ tmp \in [Send!Threads -> Lists]
      /\ posted \in Nat /\ e \in Nat /\ Poller \in Send!Threads
  BY DEF SendTypes, Send!Threads
<1>3. /\ pc' \in [Send!Threads -> Send!Places] /\ pc'[t] = "lock"
      /\ \A u \in Send!Threads \ {t} : pc'[u] = pc[u]
  BY <1>1 DEF SendTypes, Send!Places
<1>4. waiting' \in Lists /\ Range(waiting') = Range(waiting) \cup {e}
  <2>1. waiting \in Seq(Nat)
    BY <1>2 DEF Lists
  <2>2. Range(Append(waiting, e)) = Range(waiting) \cup {e}
    BY <1>2, <2>1, RangeAppend
  <2> QED BY <1>1, <1>2, <2>1, <2>2, AppendProperties DEF Lists
<1>5. SendTypes'
  BY <1>1, <1>2, <1>3, <1>4 DEF SendTypes
<1>6. Holding'
  BY <1>1, <1>3 DEF Holding
<1>7. Clearing'
  BY <1>1, <1>3 DEF Clearing, Send!Threads
<1>8. Whole'
  <2> SUFFICES ASSUME Intact PROVE Sound(Held', Boxes, posted + 1)
    BY <1>1 DEF Whole, Intact
  <2>1. Sound(Held, Boxes, posted) /\ Waiting \in Boxes
    BY BoxContents DEF Whole
  <2>2. IsInjective(waiting) /\ e \notin Range(waiting)
    <3>1. Sound(Contents(wire, sending, waiting, tmp), Boxes, posted)
      BY <2>1 DEF Held
    <3>2. IsInjective(waiting) /\ Range(waiting) \subseteq 1..posted
      BY <3>1, Apart
    <3> QED BY <1>2, <3>2
  <2>3. IsInjective(waiting')
    <3>1. waiting \in Seq(Nat) /\ <<e>> \in Seq(Nat)
      BY <1>2 DEF Lists
    <3>2. Append(waiting, e) = waiting \o <<e>>
      BY <1>2, <3>1, AppendIsConcat
    <3>3. IsInjective(<<e>>) /\ Range(<<e>>) = {e}
      BY DEF IsInjective, Range
    <3>4. PICK q \in Seq(Nat) : q = <<e>>
      BY <3>1
    <3>5. IsInjective(q) /\ Range(waiting) \cap Range(q) = {}
      BY <2>2, <3>3, <3>4
    <3>6. IsInjective(waiting \o q)
      BY <2>2, <3>1, <3>5, InjectiveConcat
    <3> QED BY <1>1, <3>2, <3>4, <3>6
  <2>4. \A b \in Boxes \ {Waiting} : Held'[b] = Held[b]
    <3> SUFFICES ASSUME NEW b \in Boxes, b # Waiting PROVE Held'[b] = Held[b]
      OBVIOUS
    <3>1. CASE b \in {Wire, Sending}
      BY <1>1, <3>1, HeldNow
    <3>2. CASE b \notin {Wire, Sending}
      <4>1. PICK u \in Send!Threads : b = Tmp(u)
        BY <3>2, BoxesApart
      <4> QED BY <1>1, <4>1, HeldNow
    <3> QED BY <3>1, <3>2
  <2>5. Range(Held'[Waiting]) = Range(Held[Waiting]) \cup {posted + 1} /\ IsInjective(Held'[Waiting])
    BY <1>4, <2>3, HeldNow
  <2> QED BY <1>2, <2>1, <2>4, <2>5, NewUnit
<1>9. Alone'
  BY <1>1, <1>3 DEF Alone, Intact
<1>10. Send!InOrder'
  <2> SUFFICES ASSUME Intact, ~foreign, t = Poller
               PROVE  Row(wire, tmp[Poller], sending, waiting') = Sent(posted + 1)
    BY <1>1 DEF Send!InOrder, Intact, Row, Sent
  <2>1. Row(wire, tmp[Poller], sending, waiting) = Sent(posted)
    BY DEF Send!InOrder, Intact, Row, Sent
  <2>2. PICK l \in Lists : l = tmp[Poller]
    BY <1>2
  <2>3. Row(wire, l, sending, waiting) = Sent(posted)
    BY <2>1, <2>2
  <2>4. Row(wire, l, sending, Append(waiting, posted + 1)) = Sent(posted + 1)
    BY <1>2, <2>3, RowGrows
  <2> QED BY <1>1, <2>2, <2>4
<1> QED BY <1>5, <1>6, <1>7, <1>8, <1>9, <1>10

\* Behind an error the buffers and a thread's list may be dropped.
LEMMA DropStep ==
    ASSUME SendInv, NEW t \in Send!Threads, NEW p \in Send!Places, pc' = [pc EXCEPT ![t] = p],
           pc[t] # "idle", ~Intact, UNCHANGED <<wire, posted, foreign, left, err, broken>>,
           waiting' \in Lists, sending' \in Lists, tmp' \in [Send!Threads -> Lists],
           tmp'[t] = <<>>, \A u \in Send!Threads \ {t} : tmp'[u] = tmp[u],
           t = Poller /\ p \in {"close", "remove"} => err
    PROVE  SendInv'
<1> USE DEF SendInv
<1>1. /\ pc' \in [Send!Threads -> Send!Places] /\ pc'[t] = p
      /\ \A u \in Send!Threads \ {t} : pc'[u] = pc[u]
      /\ ~foreign => \A u \in Send!Threads \ {Poller} : pc'[u] = "idle"
  BY PcStep
<1>2. SendTypes'
  BY <1>1 DEF SendTypes
<1>3. Holding'
  BY <1>1 DEF Holding
<1>4. Clearing'
  BY <1>1 DEF Clearing, Send!Threads
<1>5. Whole' /\ Alone' /\ Send!InOrder'
  BY <1>1 DEF Whole, Alone, Send!InOrder, Intact
<1> QED BY <1>2, <1>3, <1>4, <1>5

LEMMA WriteFailsStep == ASSUME SendInv, NEW t \in Send!Threads, Send!WriteFails(t) PROVE SendInv'
<1> USE DEF SendInv
<1>1. PICK p \in {"idle", "emit"} : pc' = [pc EXCEPT ![t] = p]
  BY DEF Send!WriteFails, Send!Goto
<1>2. /\ pc[t] = "write" /\ ~Intact /\ p \in Send!Places /\ tmp' = [tmp EXCEPT ![t] = <<>>]
      /\ UNCHANGED <<waiting, sending, wire, posted, foreign, left, err, broken>>
  BY DEF Send!WriteFails, Intact, Send!kernel, Send!fate, Send!history, Send!Places, Send!Flushing
<1>3. /\ waiting' \in Lists /\ sending' \in Lists /\ tmp' \in [Send!Threads -> Lists]
      /\ tmp'[t] = <<>> /\ \A u \in Send!Threads \ {t} : tmp'[u] = tmp[u]
  BY <1>2 DEF SendTypes, Lists
<1> QED BY <1>1, <1>2, <1>3, DropStep

LEMMA CloseStep == ASSUME SendInv, Send!Close PROVE SendInv'
<1> USE DEF SendInv
<1>1. /\ pc[Poller] = "close" /\ waiting' = <<>> /\ sending' = <<>>
      /\ pc' = [pc EXCEPT ![Poller] = "remove"] /\ "remove" \in Send!Places /\ Poller \in Send!Threads
      /\ UNCHANGED <<tmp, wire, posted, foreign, left, err, broken>>
  BY DEF Send!Close, Send!Goto, Send!kernel, Send!fate, Send!history, Send!Places, Send!Flushing, Send!Threads
<1>2. err /\ ~Intact
  BY <1>1 DEF Clearing, Intact
<1>3. /\ waiting' \in Lists /\ sending' \in Lists /\ tmp' \in [Send!Threads -> Lists]
      /\ tmp'[Poller] = <<>>
  BY <1>1 DEF SendTypes, Holding, Lists
<1> QED BY <1>1, <1>2, <1>3, DropStep


\* Steps that change neither a box nor the tasks, but the place of one thread.
LEMMA GoesOn ==
    ASSUME SendInv, NEW t \in Send!Threads, NEW p \in Send!Places \ {"refill", "close", "remove"},
           pc' = [pc EXCEPT ![t] = p], t = Poller \/ pc[t] # "idle", tmp[t] = <<>>,
           UNCHANGED <<waiting, sending, tmp, wire, posted, foreign, left, err, broken>>
    PROVE  SendInv'
<1>1. /\ Intact' => Intact
      /\ err' \in BOOLEAN /\ broken' \in BOOLEAN
      /\ left' \in Seq({"arm", "err"}) /\ (err => err')
      /\ \A x \in Range(left') : x = "err" => err'
  BY DEF SendInv, SendTypes, Clearing, Intact
<1> QED BY <1>1, Quiet

LEMMA FlushStep == ASSUME SendInv, NEW t \in Send!Threads, Send!Flush(t) \/ Send!FlushLater(t) PROVE SendInv'
<1>1. PICK p \in {"swap", "idle", "emit"} : pc' = [pc EXCEPT ![t] = p]
  BY DEF Send!Flush, Send!FlushLater, Send!Goto
<1>2. /\ pc[t] = "lock" /\ p \in Send!Places \ {"refill", "close", "remove"}
      /\ UNCHANGED <<waiting, sending, tmp, wire, posted, foreign, left, err, broken>>
  BY DEF Send!Flush, Send!FlushLater, Send!buffers, Send!kernel, Send!fate, Send!history, Send!Places, Send!Flushing
<1>3. tmp[t] = <<>>
  BY <1>2 DEF SendInv, Holding
<1> QED BY <1>1, <1>2, <1>3, GoesOn

LEMMA ArmStep == ASSUME SendInv, NEW t \in Send!Threads, Send!Arm(t) PROVE SendInv'
<1> USE DEF SendInv
<1>1. /\ pc[t] = "arm" /\ pc' = [pc EXCEPT ![t] = "roll"] /\ "roll" \in Send!Places
      /\ UNCHANGED <<waiting, sending, tmp, wire, posted, foreign, err, broken>>
  BY DEF Send!Arm, Send!Goto, Send!buffers, Send!kernel, Send!fate, Send!history, Send!Places, Send!Flushing
<1>2. left' = left \/ left' = Append(left, "arm")
  BY DEF Send!Arm
<1>3. left' \in Seq({"arm", "err"}) /\ \A x \in Range(left') : x = "err" => err'
  <2>1. left \in Seq({"arm", "err"}) /\ \A x \in Range(left) : x = "err" => err'
    BY <1>1 DEF SendTypes, Clearing
  <2>2. CASE left' = Append(left, "arm")
    <3>1. Range(Append(left, "arm")) = Range(left) \cup {"arm"}
      BY <2>1, RangeAppend
    <3> QED BY <2>1, <2>2, <3>1, AppendProperties
  <2> QED BY <1>2, <2>1, <2>2
<1>4. (Intact' => Intact) /\ err' \in BOOLEAN /\ broken' \in BOOLEAN /\ (err => err')
  BY <1>1 DEF SendTypes, Intact
<1> QED BY <1>1, <1>3, <1>4, Quiet

LEMMA EmitStep == ASSUME SendInv, NEW t \in Send!Threads, Send!Emit(t) PROVE SendInv'
<1> USE DEF SendInv
<1>1. PICK p \in {"close", "idle"} : pc' = [pc EXCEPT ![t] = p]
  BY DEF Send!Emit, Send!Goto
<1>2. /\ pc[t] = "emit" /\ err' = TRUE /\ p \in Send!Places
      /\ UNCHANGED <<waiting, sending, tmp, wire, posted, foreign, broken>>
  BY DEF Send!Emit, Send!buffers, Send!kernel, Send!history, Send!Places, Send!Flushing
<1>3. left' \in Seq({"arm", "err"})
  BY DEF Send!Emit, SendTypes
<1>4. (Intact' => Intact) /\ err' \in BOOLEAN /\ broken' \in BOOLEAN /\ tmp[t] = <<>>
  BY <1>2 DEF SendTypes, Intact, Holding
<1> QED BY <1>1, <1>2, <1>3, <1>4, Quiet

LEMMA RunTaskStep == ASSUME SendInv, Send!RunTask PROVE SendInv'
<1> USE DEF SendInv
<1>1. /\ pc[Poller] = "idle" /\ left # <<>> /\ left' = Tail(left) /\ Poller \in Send!Threads
      /\ UNCHANGED <<waiting, sending, tmp, wire, posted, foreign, err, broken>>
  BY DEF Send!RunTask, Send!buffers, Send!kernel, Send!fate, Send!history, Send!Threads
<1>2. /\ left \in Seq({"arm", "err"}) /\ tmp[Poller] = <<>> /\ err' \in BOOLEAN
      /\ broken' \in BOOLEAN /\ (Intact' => Intact)
  BY <1>1 DEF SendTypes, Holding, Intact
<1>3. Head(left) \in Range(left) /\ Range(left) = Range(Tail(left)) \cup {Head(left)}
  BY <1>1, <1>2, RangeTail
<1>4. left' \in Seq({"arm", "err"}) /\ Head(left) \in {"arm", "err"}
  BY <1>1, <1>2, HeadTailProperties
<1>5. \A x \in Range(left') : x = "err" => err'
  BY <1>1, <1>3 DEF Clearing
<1>6. CASE Head(left) = "arm"
  <2>1. pc' = pc
    BY <1>6 DEF Send!RunTask
  <2> QED BY <1>1, <1>2, <1>4, <1>5, <2>1, Quiet
<1>7. CASE Head(left) # "arm"
  <2>1. pc' = [pc EXCEPT ![Poller] = "close"] /\ "close" \in Send!Places
    BY <1>7 DEF Send!RunTask, Send!Goto, Send!Places, Send!Flushing
  <2>2. err'
    BY <1>1, <1>3, <1>4, <1>7 DEF Clearing
  <2> QED BY <1>1, <1>2, <1>4, <1>5, <2>1, <2>2, Quiet
<1> QED BY <1>6, <1>7

LEMMA LoopStep ==
    ASSUME SendInv, Send!WriteEvent \/ Send!Look \/ Send!Stop \/ Send!ErrorEvent \/ Send!DelEvent
    PROVE  SendInv'
<1> USE DEF SendInv
<1>1. PICK p \in {"look", "swap", "stop", "idle", "emit"} : pc' = [pc EXCEPT ![Poller] = p]
  BY DEF Send!WriteEvent, Send!Look, Send!Stop, Send!ErrorEvent, Send!DelEvent, Send!Goto
<1>2. /\ pc[Poller] \in {"idle", "look", "stop", "done", "remove"} /\ Poller \in Send!Threads
      /\ UNCHANGED <<waiting, sending, tmp, wire, posted, foreign, left, err, broken>>
  BY DEF Send!WriteEvent, Send!Look, Send!Stop, Send!ErrorEvent, Send!DelEvent, Send!buffers, Send!kernel, Send!fate, Send!history, Send!Threads
<1>3. p \in Send!Places \ {"refill", "close", "remove"} /\ tmp[Poller] = <<>>
  BY <1>2 DEF Holding, Send!Places, Send!Flushing
<1> QED BY <1>1, <1>2, <1>3, GoesOn

\* The peer, and steps in which nothing happens.
LEMMA PeerStep == ASSUME SendInv, Send!PeerReads \/ Send!PeerResets \/ UNCHANGED Send!vars PROVE SendInv'
<1>1. /\ UNCHANGED <<waiting, sending, tmp, wire, posted, foreign, left, err, pc>>
      /\ broken' = broken \/ broken' = TRUE
  BY DEF Send!PeerReads, Send!PeerResets, Send!vars, Send!buffers, Send!kernel, Send!fate, Send!history
<1>2. /\ err' \in BOOLEAN /\ broken' \in BOOLEAN /\ left' \in Seq({"arm", "err"})
      /\ (Intact' => Intact) /\ (err => err') /\ \A x \in Range(left') : x = "err" => err'
  BY <1>1 DEF SendInv, SendTypes, Clearing, Intact
<1> QED BY <1>1, <1>2, Quiet

LEMMA SendStep == SendInv /\ [Send!Next]_(Send!vars) => SendInv'
<1> SUFFICES ASSUME SendInv, [Send!Next]_(Send!vars) PROVE SendInv'
  OBVIOUS
<1>1. ASSUME NEW t \in Send!Threads, Send!Push(t) \/ Send!Sender(t) PROVE SendInv'
  <2>1. CASE Send!Push(t)
    BY <2>1, PushStep
  <2>2. CASE Send!Flush(t) \/ Send!FlushLater(t)
    BY <2>2, FlushStep
  <2>3. CASE Send!Swap(t)
    BY <2>3, SwapStep
  <2>4. CASE Send!Refill(t)
    BY <2>4, RefillStep
  <2>5. CASE Send!Write(t)
    BY <2>5, WriteStep
  <2>6. CASE Send!WriteFails(t)
    BY <2>6, WriteFailsStep
  <2>7. CASE Send!Arm(t)
    BY <2>7, ArmStep
  <2>8. CASE Send!Roll(t)
    BY <2>8, RollStep
  <2>9. CASE Send!Emit(t)
    BY <2>9, EmitStep
  <2> QED BY <1>1, <2>1, <2>2, <2>3, <2>4, <2>5, <2>6, <2>7, <2>8, <2>9 DEF Send!Sender
<1>2. ASSUME Send!Loop PROVE SendInv'
  BY <1>2, RunTaskStep, CloseStep, LoopStep DEF Send!Loop
<1>3. ASSUME Send!PeerReads \/ Send!PeerResets \/ UNCHANGED Send!vars PROVE SendInv'
  BY <1>3, PeerStep
<1> QED BY <1>1, <1>2, <1>3 DEF Send!Next


-----------------------------------------------------------------------------
(* What the invariant says of each unit. *)

At(q, n) == {i \in DOMAIN q : q[i] = n}
Among(n) == UNION {{t} \X At(tmp[t], n) : t \in Send!Threads}

LEMMA Once ==
    ASSUME NEW q, NEW n, IsInjective(q)
    PROVE  Cardinality(At(q, n)) = IF n \in Range(q) THEN 1 ELSE 0
<1>1. CASE n \in Range(q)
  <2>1. PICK i \in DOMAIN q : q[i] = n
    BY <1>1 DEF Range
  <2>2. At(q, n) = {i}
    BY <2>1 DEF At, IsInjective
  <2> QED BY <1>1, <2>2, FS_Singleton
<1>2. CASE n \notin Range(q)
  <2>1. At(q, n) = {}
    BY <1>2 DEF At, Range
  <2> QED BY <1>2, <2>1, FS_EmptySet
<1> QED BY <1>1, <1>2

LEMMA OnceAmong ==
    ASSUME NEW n, \A t \in Send!Threads : IsInjective(tmp[t]),
           \A t, u \in Send!Threads : t # u => Range(tmp[t]) \cap Range(tmp[u]) = {}
    PROVE  Cardinality(Among(n)) = IF \E t \in Send!Threads : n \in Range(tmp[t]) THEN 1 ELSE 0
<1>1. CASE \E t \in Send!Threads : n \in Range(tmp[t])
  <2>1. PICK t \in Send!Threads : n \in Range(tmp[t])
    BY <1>1
  <2>2. PICK i \in DOMAIN tmp[t] : tmp[t][i] = n
    BY <2>1 DEF Range
  <2>3. At(tmp[t], n) = {i}
    BY <2>2 DEF At, IsInjective
  <2>4. \A u \in Send!Threads \ {t} : At(tmp[u], n) = {}
    <3>1. \A u \in Send!Threads \ {t} : n \notin Range(tmp[u])
      BY <2>1
    <3> QED BY <3>1 DEF At, Range
  <2>5. Among(n) = {<<t, i>>}
    <3>1. ASSUME NEW x \in Among(n) PROVE x = <<t, i>>
      <4>1. PICK u \in Send!Threads : x \in {u} \X At(tmp[u], n)
        BY <3>1 DEF Among
      <4>2. u = t
        BY <2>4, <4>1
      <4> QED BY <2>3, <4>1, <4>2
    <3>2. <<t, i>> \in Among(n)
      <4>1. <<t, i>> \in {t} \X At(tmp[t], n)
        BY <2>3
      <4> QED BY <4>1 DEF Among
    <3> QED BY <3>1, <3>2
  <2> QED BY <1>1, <2>5, FS_Singleton
<1>2. CASE ~\E t \in Send!Threads : n \in Range(tmp[t])
  <2>1. \A t \in Send!Threads : At(tmp[t], n) = {}
    BY <1>2 DEF At, Range
  <2>2. Among(n) = {}
    <3>1. \A x \in Among(n) : FALSE
      BY <2>1 DEF Among
    <3> QED BY <3>1
  <2> QED BY <1>2, <2>2, FS_EmptySet
<1> QED BY <1>1, <1>2

\* The module's own name for the size of a set.
LEMMA SendCardinality == \A S : Send!Cardinality(S) = Cardinality(S)
BY DEF Send!Cardinality, Cardinality

LEMMA SoundConserves == ASSUME SendInv PROVE Send!Conserved
<1> SUFFICES ASSUME Intact, NEW n \in 1..posted PROVE Send!Spots(n) = 1
  BY DEF Send!Conserved, Intact
<1>1. Sound(Held, Boxes, posted)
  BY DEF SendInv, Whole
<1>2. /\ Wire \in Boxes /\ Sending \in Boxes /\ Waiting \in Boxes
      /\ \A t \in Send!Threads : Tmp(t) \in Boxes
  BY BoxContents
<1>3. Send!Spots(n) = Cardinality(At(wire, n)) + Cardinality(At(sending, n))
                 + Cardinality(At(waiting, n)) + Cardinality(Among(n))
  BY SendCardinality DEF Send!Spots, At, Among
<1>4. /\ IsInjective(wire) /\ IsInjective(sending) /\ IsInjective(waiting)
      /\ \A t \in Send!Threads : IsInjective(tmp[t])
  BY <1>1, <1>2, HeldNow DEF Sound
<1>5. \A t, u \in Send!Threads : t # u => Range(tmp[t]) \cap Range(tmp[u]) = {}
  BY <1>1, <1>2, HeldNow, BoxesApart DEF Sound
<1> DEFINE one(c) == IF c THEN 1 ELSE 0
           held == \E t \in Send!Threads : n \in Range(tmp[t])
<1>6. /\ Cardinality(At(wire, n)) = one(n \in Range(wire))
      /\ Cardinality(At(sending, n)) = one(n \in Range(sending))
      /\ Cardinality(At(waiting, n)) = one(n \in Range(waiting))
      /\ Cardinality(Among(n)) = one(held)
  BY <1>4, <1>5, Once, OnceAmong
<1>7. n \in Range(wire) \/ n \in Range(sending) \/ n \in Range(waiting) \/ held
  <2>1. PICK b \in Boxes : n \in Range(Held[b])
    BY <1>1 DEF Sound
  <2>2. CASE b \in {Wire, Sending, Waiting}
    BY <2>1, <2>2, HeldNow
  <2>3. CASE b \notin {Wire, Sending, Waiting}
    <3>1. PICK t \in Send!Threads : b = Tmp(t)
      BY <2>3, BoxesApart
    <3> QED BY <2>1, <3>1, HeldNow
  <2> QED BY <2>2, <2>3
<1>8. /\ ~(n \in Range(wire) /\ n \in Range(sending))
      /\ ~(n \in Range(wire) /\ n \in Range(waiting))
      /\ ~(n \in Range(sending) /\ n \in Range(waiting))
      /\ held => n \notin Range(wire) /\ n \notin Range(sending) /\ n \notin Range(waiting)
  <2>1. /\ Range(wire) \cap Range(sending) = {} /\ Range(wire) \cap Range(waiting) = {}
        /\ Range(sending) \cap Range(waiting) = {}
    BY <1>1, <1>2, HeldNow, BoxesApart DEF Sound
  <2>2. \A t \in Send!Threads : /\ Range(wire) \cap Range(tmp[t]) = {}
                           /\ Range(sending) \cap Range(tmp[t]) = {}
                           /\ Range(waiting) \cap Range(tmp[t]) = {}
    BY <1>1, <1>2, HeldNow, BoxesApart DEF Sound
  <2> QED BY <2>1, <2>2
<1> QED BY <1>3, <1>6, <1>7, <1>8

\* In Network the variables of a part change by its own steps only.
LEMMA SendSteps == [Next]_all => [Send!Next]_(Send!vars)
BY DEF Next, all, Delays, Connects, Serves, Sends, Waits, sendV, Send!vars, Send!buffers,
       Send!kernel, Send!epoll, Send!fate, Send!history

\* Whatever threads flush at the same time, and however much the kernel takes, until an
\* error each unit that was sent is in one place, and those the poller's thread alone
\* sent are in their order (Socket::flushData).
THEOREM SendConservesHolds == Spec => []SendConserves
<1>1. SendInv => Send!SendConserves
  BY SoundConserves DEF SendInv, Send!SendConserves
<1>2. Init => SendInv
  BY SendStart DEF Init
<1>3. SendInv /\ [Next]_all => SendInv'
  BY SendStep, SendSteps
<1> QED BY <1>1, <1>2, <1>3, PTL DEF Spec, SendConserves


-----------------------------------------------------------------------------
(* The least of a set of deadlines. *)

LEMMA LeastNatural ==
    ASSUME NEW S, S \subseteq Nat, S # {}
    PROVE  \E x \in S : \A y \in S : x <= y
<1>1. PICK x \in S : \A y \in S : <<y, x>> \notin OpToRel(<, Nat)
  BY WFMin, NatLessThanWellFounded
<1>2. \A y \in S : ~(y < x)
  BY <1>1 DEF OpToRel
<1> QED BY <1>2

LEMMA LeastInteger ==
    ASSUME NEW k \in Int, NEW S, S \subseteq {i \in Int : i >= k}, S # {}
    PROVE  Delay!Min(S) \in S /\ \A y \in S : Delay!Min(S) <= y
<1> DEFINE N == {y - k : y \in S}
<1>1. N \subseteq Nat /\ N # {}
  OBVIOUS
<1> HIDE DEF N
<1>2. PICK x \in N : \A y \in N : x <= y
  BY <1>1, LeastNatural
<1>3. PICK z \in S : x = z - k
  BY DEF N
<1>4. \A y \in S : z <= y
  BY <1>2, <1>3 DEF N
<1> QED BY <1>4 DEF Delay!Min

-----------------------------------------------------------------------------
(* The deadlines while the poller's thread is in flushDelayTask. *)

\* What was posted during a flush is due after now_time, so the sleep that the flush
\* computes is never zero.
Ahead == Delay!Flushing => \A t \in Delay!At("map") : line[t] > base
DelayInv == Delay!TypeOK /\ Delay!SleepCovers /\ Ahead

BoundsOK == ZeroInside = FALSE /\ MaxDelay \in Nat /\ MaxLag \in Nat

LEMMA FirstOf ==
    ASSUME BoundsOK, Delay!TypeOK, NEW S, S \subseteq Tasks, S # {}
    PROVE  /\ Delay!First(S) \in -MaxLag..MaxDelay
           /\ \E t \in S : Delay!First(S) = line[t]
           /\ \A t \in S : Delay!First(S) <= line[t]
<1> DEFINE L == {line[t] : t \in S}
<1>1. L # {} /\ L \subseteq -MaxLag..MaxDelay
  BY DEF Delay!TypeOK
<1>2. -MaxLag \in Int /\ L \subseteq {i \in Int : i >= -MaxLag}
  BY <1>1 DEF BoundsOK
<1>3. Delay!Min(L) \in L /\ \A y \in L : Delay!Min(L) <= y
  <2> HIDE DEF L
  <2>1. PICK k \in Int : k = -MaxLag
    BY <1>2
  <2> QED BY <1>1, <1>2, <2>1, LeastInteger
<1> QED BY <1>1, <1>3 DEF Delay!First

LEMMA DelayStart == ASSUME BoundsOK PROVE Delay!Init => DelayInv
BY DEF BoundsOK, DelayInv, Ahead, Delay!Init, Delay!TypeOK, Delay!SleepCovers, Delay!Flushing,
       Delay!At, Delay!Forever

LEMMA DelayPosts ==
    ASSUME BoundsOK, DelayInv, Delay!DoDelayTask \/ Delay!DoDelayHere \/ Delay!Cancel
    PROVE  DelayInv'
<1> USE DEF DelayInv, BoundsOK
<1>1. CASE Delay!DoDelayTask \/ Delay!DoDelayHere
  <2>1. PICK t \in Tasks, d \in {0} \cup Delay!Delays, p \in {"queued", "map"} :
            /\ place' = [place EXCEPT ![t] = p] /\ line' = [line EXCEPT ![t] = d]
            /\ cancelled' = [cancelled EXCEPT ![t] = FALSE]
            /\ p = "map" => loop \in {"body", "event"} /\ (d # 0 \/ loop = "event")
            /\ UNCHANGED <<loop, base, timeout>>
    BY <1>1 DEF Delay!DoDelayTask, Delay!DoDelayHere, Delay!At
  <2>2. d \in 0..MaxDelay
    BY DEF Delay!Delays
  <2>3. Delay!TypeOK'
    BY <2>1, <2>2 DEF Delay!TypeOK
  <2>4. \A u \in Tasks \ {t} : place'[u] = place[u] /\ line'[u] = line[u]
    BY <2>1 DEF Delay!TypeOK
  <2>5. place'[t] = p /\ line'[t] = d
    BY <2>1 DEF Delay!TypeOK
  <2>6. Delay!SleepCovers'
    BY <2>1, <2>4, <2>5 DEF Delay!SleepCovers, Delay!At
  <2>7. Ahead'
    BY <2>1, <2>2, <2>4, <2>5 DEF Ahead, Delay!At, Delay!Flushing, Delay!TypeOK
  <2> QED BY <2>3, <2>6, <2>7
<1>2. CASE Delay!Cancel
  BY <1>2 DEF Delay!Cancel, Delay!TypeOK, Delay!SleepCovers, Ahead, Delay!At, Delay!Flushing
<1> QED BY <1>1, <1>2

LEMMA DelaySleeps ==
    ASSUME BoundsOK, DelayInv, Delay!SleepNone \/ Delay!SleepFirst
    PROVE  DelayInv'
<1> USE DEF DelayInv, BoundsOK
<1>1. CASE Delay!SleepNone
  BY <1>1 DEF Delay!SleepNone, Delay!TypeOK, Delay!SleepCovers, Ahead, Delay!At,
              Delay!Flushing, Delay!Forever
<1>2. CASE Delay!SleepFirst
  <2> DEFINE S == Delay!At("map")
  <2>1. /\ S # {} /\ S \subseteq Tasks /\ timeout' = Delay!First(S) /\ timeout' > 0
        /\ loop' = "sleep" /\ UNCHANGED <<place, line, cancelled, base>>
    BY <1>2 DEF Delay!SleepFirst, Delay!At
  <2>2. S' = S
    BY <2>1 DEF Delay!At
  <2>3. timeout' \in -MaxLag..MaxDelay /\ \A t \in S : timeout' <= line[t]
    BY <2>1, FirstOf
  <2> HIDE DEF S
  <2>4. Delay!TypeOK'
    BY <2>1, <2>3 DEF Delay!TypeOK
  <2>5. \A t \in S : line[t] \in Int
    BY <2>1 DEF Delay!TypeOK
  <2>6. Delay!SleepCovers'
    BY <2>1, <2>2, <2>3, <2>5 DEF Delay!SleepCovers, Delay!Forever, S
  <2>7. Ahead'
    BY <2>1 DEF Ahead, Delay!Flushing
  <2> QED BY <2>4, <2>6, <2>7
<1> QED BY <1>1, <1>2

LEMMA DelayFlush ==
    ASSUME BoundsOK, DelayInv, Delay!FlushBegin \/ Delay!RunDue \/ Delay!Return
    PROVE  DelayInv'
<1> USE DEF DelayInv, BoundsOK
<1>1. CASE Delay!FlushBegin
  <2>1. /\ place' = [t \in Tasks |-> IF place[t] = "map" THEN "copy" ELSE place[t]]
        /\ base' = 0 /\ loop' = "flush" /\ UNCHANGED <<line, cancelled, timeout>>
    BY <1>1 DEF Delay!FlushBegin, Delay!Move
  <2>2. Delay!TypeOK'
    BY <2>1 DEF Delay!TypeOK
  <2>3. Delay!SleepCovers' /\ Ahead'
    BY <2>1 DEF Delay!SleepCovers, Ahead, Delay!At
  <2> QED BY <2>2, <2>3
<1>2. CASE Delay!RunDue
  <2>1. PICK t \in Tasks, p \in {"none", "called"} :
            /\ place' = [place EXCEPT ![t] = p] /\ loop' \in {"flush", "body"}
            /\ loop = "flush" /\ UNCHANGED <<line, cancelled, base, timeout>>
    BY <1>2 DEF Delay!RunDue, Delay!Due, Delay!At
  <2>2. Delay!TypeOK'
    BY <2>1 DEF Delay!TypeOK
  <2>3. Delay!SleepCovers' /\ Ahead'
    BY <2>1 DEF Delay!SleepCovers, Ahead, Delay!At, Delay!Flushing, Delay!TypeOK
  <2> QED BY <2>2, <2>3
<1>3. CASE Delay!Return
  <2>1. PICK t \in Tasks, next \in {0} \cup Delay!Delays :
            /\ place' = [place EXCEPT ![t] = IF next = 0 THEN "none" ELSE "map"]
            /\ line' = [line EXCEPT ![t] = IF next = 0 THEN line[t] ELSE base + next]
            /\ loop = "body" /\ loop' = "flush" /\ UNCHANGED <<cancelled, base, timeout>>
    BY <1>3 DEF Delay!Return, Delay!At
  <2>2. next \in 0..MaxDelay /\ base \in -MaxLag..0 /\ line[t] \in -MaxLag..MaxDelay
    BY DEF Delay!Delays, Delay!TypeOK
  <2>3. Delay!TypeOK'
    BY <2>1, <2>2 DEF Delay!TypeOK
  <2>4. \A u \in Tasks \ {t} : place'[u] = place[u] /\ line'[u] = line[u]
    BY <2>1 DEF Delay!TypeOK
  <2>5. place'[t] = "map" => line'[t] > base
    BY <2>1, <2>2 DEF Delay!TypeOK
  <2>6. Delay!SleepCovers'
    BY <2>1 DEF Delay!SleepCovers
  <2>7. Ahead'
    BY <2>1, <2>4, <2>5 DEF Ahead, Delay!At, Delay!Flushing
  <2> QED BY <2>3, <2>6, <2>7
<1> QED BY <1>1, <1>2, <1>3

LEMMA DelayFlushEnds == ASSUME BoundsOK, DelayInv, Delay!FlushEnd PROVE DelayInv'
<1> USE DEF DelayInv, BoundsOK
<1> DEFINE rest == Delay!At("copy") \cup Delay!At("map")
<1>1. /\ loop = "flush" /\ Delay!Due = {} /\ loop' = "sleep"
      /\ place' = [t \in Tasks |-> IF place[t] = "copy" THEN "map" ELSE place[t]]
      /\ timeout' = IF rest = {} THEN -1
                    ELSE IF Delay!First(rest) - base = 0 THEN -1 ELSE Delay!First(rest) - base
      /\ UNCHANGED <<line, cancelled, base>>
  BY DEF Delay!FlushEnd, Delay!Move, Delay!Wait, Delay!Forever
<1>2. rest \subseteq Tasks /\ Delay!At("map")' = rest
  BY <1>1 DEF Delay!At
<1>3. base \in -MaxLag..0 /\ \A t \in Tasks : line[t] \in -MaxLag..MaxDelay
  BY DEF Delay!TypeOK
<1>4. \A t \in rest : line[t] > base
  <2>1. \A t \in Delay!At("copy") : line[t] > base
    BY <1>1, <1>3 DEF Delay!Due, Delay!At
  <2>2. \A t \in Delay!At("map") : line[t] > base
    BY <1>1 DEF Ahead, Delay!Flushing
  <2> QED BY <2>1, <2>2
<1> HIDE DEF rest
<1>5. rest # {} => /\ timeout' \in 1..(MaxDelay + MaxLag)
                   /\ \A t \in rest : timeout' <= line[t] + MaxLag
  <2> SUFFICES ASSUME rest # {}
               PROVE  /\ timeout' \in 1..(MaxDelay + MaxLag)
                      /\ \A t \in rest : timeout' <= line[t] + MaxLag
    OBVIOUS
  <2>1. PICK f \in -MaxLag..MaxDelay :
            f = Delay!First(rest) /\ f > base /\ \A t \in rest : f <= line[t]
    <3>1. /\ Delay!First(rest) \in -MaxLag..MaxDelay
          /\ \E t \in rest : Delay!First(rest) = line[t]
          /\ \A t \in rest : Delay!First(rest) <= line[t]
      BY <1>2, FirstOf
    <3> QED BY <1>4, <3>1
  <2>2. timeout' = f - base
    BY <1>1, <1>3, <2>1
  <2> QED BY <1>2, <1>3, <2>1, <2>2
<1>6. Delay!TypeOK'
  <2>1. timeout' \in -1..(MaxDelay + MaxLag)
    BY <1>1, <1>5
  <2> QED BY <1>1, <2>1 DEF Delay!TypeOK
<1>7. Delay!SleepCovers'
  BY <1>1, <1>2, <1>5 DEF Delay!SleepCovers, Delay!Forever
<1>8. Ahead'
  BY <1>1 DEF Ahead, Delay!Flushing
<1> QED BY <1>6, <1>7, <1>8

LEMMA DelayWakes ==
    ASSUME BoundsOK, DelayInv,
           Delay!Timeout \/ Delay!PipeEvent \/ Delay!Event \/ Delay!EventDone
    PROVE  DelayInv'
<1> USE DEF DelayInv, BoundsOK
<1>1. /\ loop' \in {"min", "event"} /\ UNCHANGED <<line, cancelled, base, timeout>>
      /\ place' \in {place, [t \in Tasks |-> IF place[t] = "queued" THEN "map" ELSE place[t]]}
  BY DEF Delay!Timeout, Delay!PipeEvent, Delay!Event, Delay!EventDone, Delay!Move
<1>2. Delay!TypeOK'
  BY <1>1 DEF Delay!TypeOK
<1>3. Delay!SleepCovers' /\ Ahead'
  BY <1>1 DEF Delay!SleepCovers, Ahead, Delay!Flushing
<1> QED BY <1>2, <1>3

LEMMA DelayTick == ASSUME BoundsOK, DelayInv, Delay!Tick PROVE DelayInv'
<1> USE DEF DelayInv, BoundsOK
<1>1. /\ Delay!Flushing => base > -MaxLag
      /\ line' = [t \in Tasks |-> IF place[t] # "none" /\ line[t] > -MaxLag
                                  THEN line[t] - 1 ELSE line[t]]
      /\ base' = IF Delay!Flushing THEN base - 1 ELSE base
      /\ timeout' = IF loop = "sleep" /\ timeout > 0 THEN timeout - 1 ELSE timeout
      /\ UNCHANGED <<place, cancelled, loop>>
  BY DEF Delay!Tick
<1>2. /\ base \in -MaxLag..0 /\ \A t \in Tasks : line[t] \in -MaxLag..MaxDelay
      /\ timeout \in -1..(MaxDelay + MaxLag)
  BY DEF Delay!TypeOK
<1>3. Delay!TypeOK'
  <2>1. line' \in [Tasks -> -MaxLag..MaxDelay]
    BY <1>1, <1>2
  <2>2. base' \in -MaxLag..0 /\ timeout' \in -1..(MaxDelay + MaxLag)
    BY <1>1, <1>2
  <2> QED BY <1>1, <2>1, <2>2 DEF Delay!TypeOK
<1>4. Delay!At("map")' = Delay!At("map") /\ Delay!At("map") \subseteq Tasks
  BY <1>1 DEF Delay!At
<1>5. \A t \in Delay!At("map") :
          line'[t] = IF line[t] > -MaxLag THEN line[t] - 1 ELSE line[t]
  BY <1>1 DEF Delay!At
<1>6. Delay!SleepCovers'
  <2> SUFFICES ASSUME loop = "sleep", NEW t \in Delay!At("map")
               PROVE  timeout' # -1 /\ (line'[t] > -MaxLag => timeout' <= line'[t] + MaxLag)
    BY <1>1, <1>4 DEF Delay!SleepCovers, Delay!Forever
  <2>1. timeout # -1 /\ (line[t] > -MaxLag => timeout <= line[t] + MaxLag)
    BY DEF Delay!SleepCovers, Delay!Forever
  <2>2. line[t] \in -MaxLag..MaxDelay
    BY <1>2, <1>4
  <2> QED BY <1>1, <1>2, <1>5, <2>1, <2>2
<1>7. Ahead'
  <2> SUFFICES ASSUME Delay!Flushing, NEW t \in Delay!At("map") PROVE line'[t] > base'
    BY <1>1, <1>4 DEF Ahead, Delay!Flushing
  <2>1. line[t] > base /\ line[t] \in -MaxLag..MaxDelay
    BY <1>2, <1>4 DEF Ahead
  <2> QED BY <1>1, <1>2, <1>5, <2>1
<1> QED BY <1>3, <1>6, <1>7

LEMMA DelaySteps == [Next]_all => [Delay!Next]_(Delay!vars)
BY DEF Next, all, Delays, Connects, Serves, Sends, Waits, delayV, Delay!vars

\* While epoll_wait sleeps there is a timeout if a delayed task waits, and it ends with the
\* first deadline or later by at most the time the flush before it took (flushDelayTask,
\* getMinDelay), provided that no delayed task posts one with a delay of zero.
THEOREM SleepCoversHolds == ASSUME ZeroInside = FALSE PROVE Spec => []SleepCovers
<1> BoundsOK
  BY NetworkAssumption DEF NetworkAssumption, BoundsOK
<1>1. Init => DelayInv
  BY DelayStart DEF Init
<1>2. DelayInv /\ [Delay!Next]_(Delay!vars) => DelayInv'
  <2> SUFFICES ASSUME DelayInv, [Delay!Next]_(Delay!vars) PROVE DelayInv'
    OBVIOUS
  <2>1. CASE UNCHANGED Delay!vars
    BY <2>1 DEF Delay!vars, DelayInv, Delay!TypeOK, Delay!SleepCovers, Ahead, Delay!At,
                Delay!Flushing
  <2> QED BY <2>1, DelayPosts, DelaySleeps, DelayFlush, DelayFlushEnds, DelayWakes, DelayTick
          DEF Delay!Next, Delay!Loop
<1>3. DelayInv => Delay!SleepCovers
  BY DEF DelayInv
<1>4. DelayInv /\ [Next]_all => DelayInv'
  BY <1>2, DelaySteps
<1> QED BY <1>1, <1>3, <1>4, PTL DEF Spec, SleepCovers


States == {"none", "waiting", "given", "session", "erasing", "gone"}
PeerRecords ==
         [st : States, at : Pollers, srv : Pollers, held : BOOLEAN, orphan : BOOLEAN,
          served : BOOLEAN, attach : {"no", "queued", "on", "off"}, cut : BOOLEAN,
          early : BOOLEAN, errs : Nat]

ServerTypes == /\ owner \in BOOLEAN
               /\ ended \in {"no", "deaf", "empty", "done"}
               /\ deleted \subseteq Pollers
               /\ look \in [Pollers -> {"idle", "event", "retry", "loop"}]
               /\ peer \in [Conns -> PeerRecords]

-----------------------------------------------------------------------------
(* What the record of a connection says. *)

\* Before its session is made nothing has been told or cut, and nothing watched.
Fresh(r) == r.st \in {"none", "waiting", "given"} =>
    /\ r.errs = 0 /\ ~r.served /\ ~r.cut /\ r.attach = "no"
    /\ r.st # "given" => ~r.held

\* How often a session was told, and that one to be erased was told just now.
Counted(r) ==
    /\ r.st = "session" => r.served /\ r.errs <= 1
    /\ r.st = "erasing" => r.served /\ r.errs = 1 /\ r.cut
    /\ r.st = "gone" => r.errs <= 2
    /\ r.st = "gone" /\ r.served => r.errs > 0

\* Events that are left in the poller were added after they had been cut.
Attached(r) ==
    /\ r.attach = "on" /\ (r.cut \/ r.st = "gone") => r.early
    /\ r.st = "session" /\ r.attach = "no" => r.held

Owned(r) == r.st \in {"given", "session", "erasing"} => r.srv = r.at \/ r.orphan

PeerRight(r) == Fresh(r) /\ Counted(r) /\ Attached(r) /\ Owned(r)

ServerInv == /\ ServerTypes
             /\ ended # "no" => ~owner
             /\ \A c \in Conns : PeerRight(peer[c]) /\ (owner => peer[c].errs <= 1)
             /\ Server!Looking


-----------------------------------------------------------------------------
(* What is done to the record of a connection. *)

\* A socket nobody has any more: its events go, or were added after the cut.
LEMMA DeletedRight ==
    ASSUME NEW r \in PeerRecords, Counted(r), r.st = "gone",
           r.attach = "on" /\ r.cut => r.early
    PROVE  Server!Deleted(r) \in PeerRecords /\ PeerRight(Server!Deleted(r)) /\ Server!Deleted(r).st = "gone"
           /\ Server!Deleted(r).errs = r.errs
BY DEF PeerRecords, States, PeerRight, Fresh, Counted, Attached, Owned, Server!Deleted

LEMMA ToldRight ==
    ASSUME NEW r \in PeerRecords, PeerRight(r), r.st = "session", r.errs = 0,
           NEW s \in {"session", "erasing", "gone"}
    PROVE  LET t == [Server!Told(r) EXCEPT !.st = s]
           IN  t \in PeerRecords /\ PeerRight(t) /\ t.errs = 1 /\ t.st = s
<1> DEFINE t == [Server!Told(r) EXCEPT !.st = s]
<1>1. /\ r.errs + 1 = 1 /\ s \in States
      /\ (IF r.attach = "on" THEN "off" ELSE r.attach) \in {"no", "queued", "off"}
  BY DEF PeerRecords, States
<1>2. Server!Told(r) = [r EXCEPT !.errs = 1, !.cut = TRUE,
                          !.attach = IF r.attach = "on" THEN "off" ELSE r.attach]
  BY <1>1 DEF Server!Told, PeerRecords
<1>3. t \in PeerRecords
  <2> DEFINE a == IF r.attach = "on" THEN "off" ELSE r.attach
  <2>1. a \in {"no", "queued", "on", "off"} /\ 1 \in Nat /\ TRUE \in BOOLEAN
    BY <1>1
  <2>2. Server!Told(r) = [r EXCEPT !.errs = 1, !.cut = TRUE, !.attach = a]
    BY <1>2
  <2> HIDE DEF a
  <2>3. Server!Told(r) \in PeerRecords
    BY <2>1, <2>2 DEF PeerRecords
  <2> QED BY <1>1, <2>3 DEF PeerRecords
<1>4. /\ t.st = s /\ t.errs = 1 /\ t.cut /\ t.served = r.served /\ t.held = r.held
      /\ t.srv = r.srv /\ t.at = r.at /\ t.orphan = r.orphan
      /\ t.attach = IF r.attach = "on" THEN "off" ELSE r.attach
  BY <1>2 DEF PeerRecords
<1>5. PeerRight(t)
  BY <1>1, <1>4 DEF PeerRight, Fresh, Counted, Attached, Owned
<1> QED BY <1>3, <1>4, <1>5

\* A destructor without its server takes the session away.
LEMMA EmptiedRight ==
    ASSUME NEW r \in PeerRecords, PeerRight(r), r.st \in {"session", "erasing"}
    PROVE  LET g == [r EXCEPT !.st = "gone", !.errs = @ + 1]
           IN  Server!Deleted(g) \in PeerRecords /\ PeerRight(Server!Deleted(g)) /\ Server!Deleted(g).st = "gone"
<1> DEFINE g == [r EXCEPT !.st = "gone", !.errs = @ + 1]
<1>1. r.errs + 1 \in Nat /\ r.errs + 1 \in 1..2 /\ "gone" \in States
  BY DEF PeerRecords, PeerRight, Counted, States
<1>2. g = [r EXCEPT !.st = "gone", !.errs = r.errs + 1]
  BY DEF PeerRecords
<1>3. g \in PeerRecords
  BY <1>1, <1>2 DEF PeerRecords
<1>4. /\ g.st = "gone" /\ g.errs = r.errs + 1 /\ g.cut = r.cut
      /\ g.attach = r.attach /\ g.early = r.early
  BY <1>2 DEF PeerRecords
<1> HIDE DEF g
<1>5. Counted(g)
  BY <1>1, <1>4 DEF Counted
<1>6. g.attach = "on" /\ g.cut => g.early
  BY <1>4 DEF PeerRight, Attached
<1>7. Server!Deleted(g) \in PeerRecords /\ PeerRight(Server!Deleted(g)) /\ Server!Deleted(g).st = "gone"
  BY <1>3, <1>4, <1>5, <1>6, DeletedRight
<1> QED BY <1>7 DEF g

-----------------------------------------------------------------------------
(* The steps. *)

LEMMA ServerStart == Server!Init => ServerInv
<1> SUFFICES ASSUME Server!Init PROVE ServerInv
  OBVIOUS
<1> USE DEF Server!Init
<1>1. peer \in [Conns -> PeerRecords]
  BY NetworkAssumption DEF NetworkAssumption, PeerRecords, States
<1>2. \A c \in Conns : PeerRight(peer[c]) /\ peer[c].errs = 0 /\ peer[c].st = "none"
  BY DEF PeerRight, Fresh, Counted, Attached, Owned
<1>3. Server!Looking
  BY <1>2 DEF Server!Looking, Server!In
<1>4. ServerTypes
  <2>1. owner \in BOOLEAN /\ ended = "no" /\ deleted = {}
    OBVIOUS
  <2>2. look \in [Pollers -> {"idle", "event", "retry", "loop"}]
    OBVIOUS
  <2> QED BY <1>1, <2>1, <2>2 DEF ServerTypes
<1>5. ended = "no"
  OBVIOUS
<1> HIDE DEF Server!Init
<1>6. \A c \in Conns : PeerRight(peer[c]) /\ (owner => peer[c].errs <= 1)
  BY <1>2
<1> QED BY <1>3, <1>4, <1>5, <1>6 DEF ServerInv

\* A step of one connection that brings nobody new to wait.
LEMMA OnePeer ==
    ASSUME ServerInv, NEW c \in Conns, NEW r \in PeerRecords, PeerRight(r),
           owner => r.errs <= 1, r.st # "waiting",
           peer' = [peer EXCEPT ![c] = r], UNCHANGED <<owner, ended, deleted, look>>
    PROVE  ServerInv'
<1> USE DEF ServerInv
<1>1. peer' \in [Conns -> PeerRecords] /\ peer'[c] = r /\ \A d \in Conns \ {c} : peer'[d] = peer[d]
  BY DEF ServerTypes
<1>2. ServerTypes'
  BY <1>1 DEF ServerTypes
<1>3. \A d \in Conns : PeerRight(peer'[d]) /\ (owner' => peer'[d].errs <= 1)
  BY <1>1
<1>4. Server!In({"waiting"})' \subseteq Server!In({"waiting"})
  BY <1>1 DEF Server!In
<1>5. Server!Looking'
  BY <1>4 DEF Server!Looking
<1>6. (\A d \in Conns : PeerRight(peer[d]) /\ (owner => peer[d].errs <= 1))'
  BY <1>3
<1> QED BY <1>2, <1>5, <1>6

\* A step of the pollers or of the server alone.
LEMMA NoPeer ==
    ASSUME ServerInv, ServerTypes', ended' # "no" => ~owner', owner' => owner, Server!Looking',
           UNCHANGED peer
    PROVE  ServerInv'
BY DEF ServerInv

\* The sessions of a server are taken away after the user has dropped it.
LEMMA EmptiedStep ==
    ASSUME ServerInv, ServerTypes', NEW p, ~owner, owner' = owner, peer' = Server!Emptied(p)
    PROVE  ServerInv'
<1> USE DEF ServerInv
<1>1. ASSUME NEW c \in Conns
      PROVE  PeerRight(peer'[c])
  <2>1. peer[c] \in PeerRecords /\ PeerRight(peer[c])
    BY DEF ServerTypes
  <2>2. CASE peer[c].srv = p /\ peer[c].st \in {"session", "erasing"}
    BY <2>1, <2>2, EmptiedRight DEF Server!Emptied
  <2>3. CASE ~(peer[c].srv = p /\ peer[c].st \in {"session", "erasing"})
    BY <2>1, <2>3 DEF Server!Emptied
  <2> QED BY <2>2, <2>3
<1>2. (\A c \in Conns : PeerRight(peer[c]) /\ (owner => peer[c].errs <= 1))'
  BY <1>1
<1>3. Server!Looking'
  BY DEF Server!Looking
<1> QED BY <1>2, <1>3

LEMMA EmptiedType ==
    ASSUME ServerInv, NEW p
    PROVE  Server!Emptied(p) \in [Conns -> PeerRecords]
<1> SUFFICES ASSUME NEW c \in Conns
             PROVE  Server!Emptied(p)[c] \in PeerRecords
  BY DEF Server!Emptied
<1>1. peer[c] \in PeerRecords /\ PeerRight(peer[c])
  BY DEF ServerInv, ServerTypes
<1>2. CASE peer[c].srv = p /\ peer[c].st \in {"session", "erasing"}
  BY <1>1, <1>2, EmptiedRight DEF Server!Emptied
<1>3. CASE ~(peer[c].srv = p /\ peer[c].st \in {"session", "erasing"})
  BY <1>1, <1>3 DEF Server!Emptied
<1> QED BY <1>2, <1>3


LEMMA ServerStep == ServerInv /\ [Server!Next]_(Server!serverVars) => ServerInv'
<1> SUFFICES ASSUME ServerInv, [Server!Next]_(Server!serverVars)
             PROVE  ServerInv'
  OBVIOUS
<1> USE DEF ServerInv
<1>0. /\ ServerTypes /\ Server!Looking /\ (ended # "no" => ~owner)
      /\ \A c \in Conns : peer[c] \in PeerRecords /\ PeerRight(peer[c]) /\ (owner => peer[c].errs <= 1)
  BY DEF ServerTypes
<1>1. CASE UNCHANGED Server!serverVars
  <2>1. ServerTypes' /\ Server!Looking' /\ UNCHANGED <<peer, owner, ended>>
    BY <1>0, <1>1 DEF Server!serverVars, ServerTypes, Server!Looking, Server!In
  <2> QED BY <1>0, <2>1, NoPeer
<1>2. ASSUME NEW c \in Conns, Server!Arrive(c) PROVE ServerInv'
  <2> DEFINE r == [peer[c] EXCEPT !.st = "waiting"]
  <2>1. PICK woken \in (SUBSET {p \in Pollers : Server!Listening(p)}) \ {{}} :
            look' = [p \in Pollers |-> IF p \in woken /\ look[p] = "idle"
                                       THEN "event" ELSE look[p]]
    BY <1>2 DEF Server!Arrive
  <2>2. ServerTypes'
    <3>1. look' \in [Pollers -> {"idle", "event", "retry", "loop"}]
      BY <1>0, <2>1 DEF ServerTypes
    <3>2. r \in PeerRecords
      BY <1>0 DEF PeerRecords, States
    <3>3. peer' \in [Conns -> PeerRecords]
      BY <1>0, <1>2, <3>2 DEF Server!Arrive, ServerTypes
    <3> QED BY <1>0, <1>2, <3>1, <3>3 DEF Server!Arrive, ServerTypes
  <2>3. PICK p \in Pollers : p \in woken
    <3>1. woken \subseteq Pollers /\ woken # {}
      BY <2>1
    <3> QED BY <3>1
  <2>4. look'[p] # "idle"
    BY <2>1, <2>3
  <2>5. Server!Looking'
    BY <2>4 DEF Server!Looking
  <2>6. PeerRight(r) /\ r.errs = 0
    BY <1>0, <1>2 DEF Server!Arrive, PeerRecords, PeerRight, Fresh, Counted, Attached, Owned
  <2>7. \A d \in Conns : PeerRight(peer'[d]) /\ (owner' => peer'[d].errs <= 1)
    BY <1>0, <1>2, <2>6 DEF Server!Arrive, ServerTypes
  <2>8. (\A d \in Conns : PeerRight(peer[d]) /\ (owner => peer[d].errs <= 1))'
    BY <2>7
  <2> QED BY <1>0, <1>2, <2>2, <2>5, <2>8 DEF Server!Arrive
<1>3. ASSUME NEW c \in Conns, Server!Release(c) PROVE ServerInv'
  <2> DEFINE r == [peer[c] EXCEPT !.held = FALSE,
                       !.attach = IF peer[c].st = "given" THEN @ ELSE "queued"]
  <2>1. r \in PeerRecords /\ PeerRight(r) /\ r.errs = peer[c].errs /\ r.st # "waiting"
    BY <1>0, <1>3 DEF Server!Release, PeerRecords, PeerRight, Fresh, Counted, Attached, Owned
  <2>2. peer' = [peer EXCEPT ![c] = r] /\ UNCHANGED <<owner, ended, deleted, look>>
    BY <1>0, <1>3 DEF Server!Release, ServerTypes
  <2> QED BY <1>0, <2>1, <2>2, OnePeer
<1>4. ASSUME NEW c \in Conns, Server!RunAccept(c) PROVE ServerInv'
  <2> DEFINE r == [peer[c] EXCEPT !.st = "session", !.served = TRUE,
                       !.attach = IF peer[c].held THEN @ ELSE "on"]
  <2>0. /\ peer[c].st = "given" /\ peer[c].errs = 0 /\ ~peer[c].cut /\ peer[c].attach = "no"
        /\ (peer[c].srv = peer[c].at \/ peer[c].orphan)
    BY <1>0, <1>4 DEF Server!RunAccept, PeerRight, Fresh, Owned
  <2>1. r \in PeerRecords /\ PeerRight(r) /\ r.errs = peer[c].errs /\ r.st # "waiting"
    <3>1. r \in PeerRecords
      BY <1>0 DEF PeerRecords, States
    <3>2. /\ r.st = "session" /\ r.errs = 0 /\ ~r.cut /\ r.served /\ r.held = peer[c].held
          /\ (r.srv = r.at \/ r.orphan)
          /\ r.attach = IF r.held THEN "no" ELSE "on"
      BY <1>0, <2>0 DEF PeerRecords
    <3> HIDE DEF r
    <3> QED BY <2>0, <3>1, <3>2 DEF PeerRight, Fresh, Counted, Attached, Owned
  <2>2. peer' = [peer EXCEPT ![c] = r] /\ UNCHANGED <<owner, ended, deleted, look>>
    BY <1>0, <1>4 DEF Server!RunAccept, ServerTypes
  <2> QED BY <1>0, <2>1, <2>2, OnePeer
<1>5. ASSUME NEW c \in Conns, Server!RunAttach(c) PROVE ServerInv'
  <2> DEFINE r == [peer[c] EXCEPT !.attach = "on", !.early = peer[c].cut]
             s == IF r.st = "gone" THEN Server!Deleted(r) ELSE r
  <2>1. /\ r \in PeerRecords /\ r.st = peer[c].st /\ r.errs = peer[c].errs /\ r.early = r.cut
        /\ r.attach = "on" /\ r.cut = peer[c].cut /\ r.served = peer[c].served
        /\ r.srv = peer[c].srv /\ r.at = peer[c].at /\ r.orphan = peer[c].orphan
    BY <1>0 DEF PeerRecords
  <2>2. peer' = [peer EXCEPT ![c] = s] /\ UNCHANGED <<owner, ended, deleted, look>>
    BY <1>0, <1>5 DEF Server!RunAttach, ServerTypes
  <2>3. peer[c].st \notin {"none", "waiting", "given"}
    BY <1>0, <1>5 DEF Server!RunAttach, PeerRight, Fresh
  <2> HIDE DEF r
  <2>4. Counted(r)
    BY <1>0, <2>1 DEF PeerRight, Counted
  <2>5. CASE r.st = "gone"
    BY <1>0, <2>1, <2>2, <2>4, <2>5, DeletedRight, OnePeer
  <2>6. CASE r.st # "gone"
    <3>1. PeerRight(r)
      BY <1>0, <2>1, <2>3, <2>4, <2>6 DEF PeerRight, Fresh, Attached, Owned
    <3> QED BY <1>0, <2>1, <2>2, <2>3, <2>6, <3>1, OnePeer
  <2> QED BY <2>5, <2>6
<1>6. ASSUME NEW c \in Conns, Server!Fail(c) PROVE ServerInv'
  <2>1. peer[c].st = "session" /\ peer[c].errs = 0
    BY <1>6 DEF Server!Fail
  <2>2. PICK s \in {"session", "gone"} :
            s = IF Server!Alive(peer[c].srv) THEN "gone" ELSE "session"
    OBVIOUS
  <2> DEFINE r == [Server!Told(peer[c]) EXCEPT !.st = s]
  <2>3. peer' = [peer EXCEPT ![c] = r] /\ UNCHANGED <<owner, ended, deleted, look>>
    BY <1>6, <2>2 DEF Server!Fail
  <2>4. r \in PeerRecords /\ PeerRight(r) /\ r.errs = 1 /\ r.st = s
    <3>1. peer[c] \in PeerRecords /\ PeerRight(peer[c]) /\ s \in {"session", "erasing", "gone"}
      BY <1>0
    <3> QED BY <2>1, <3>1, ToldRight
  <2> HIDE DEF r
  <2>5. r.errs <= 1 /\ r.st # "waiting"
    BY <2>4
  <2> QED BY <2>3, <2>4, <2>5, OnePeer
<1>7. ASSUME NEW c \in Conns, Server!Erase(c) PROVE ServerInv'
  <2> DEFINE r == [peer[c] EXCEPT !.st = "gone"]
  <2>1. r \in PeerRecords /\ PeerRight(r) /\ r.errs = peer[c].errs /\ r.st # "waiting"
    BY <1>0, <1>7 DEF Server!Erase, PeerRecords, States, PeerRight, Fresh, Counted, Attached, Owned
  <2>2. peer' = [peer EXCEPT ![c] = r] /\ UNCHANGED <<owner, ended, deleted, look>>
    BY <1>0, <1>7 DEF Server!Erase, ServerTypes
  <2> QED BY <1>0, <2>1, <2>2, OnePeer
<1>8. ASSUME NEW c \in Conns, NEW a \in Pollers, NEW b \in Pollers, Server!Accept(a, b, c)
      PROVE  ServerInv'
  <2> DEFINE g == [peer[c] EXCEPT !.st = "given", !.at = b, !.srv = Server!GetServer(a, b),
                                  !.held = TRUE, !.orphan = ~Server!Alive(Main)]
             dead == [peer[c] EXCEPT !.st = "gone", !.attach = "off"]
             here == [g EXCEPT !.st = "session", !.served = TRUE, !.held = FALSE,
                               !.attach = "on"]
  <2>0. Server!Alive(Main) \in BOOLEAN /\ Server!GetServer(a, b) \in {a, b}
        /\ (Server!GetServer(a, b) = b \/ ~Server!Alive(Main)) /\ (a = b => Server!GetServer(a, b) = b)
    BY DEF Server!Alive, Server!GetServer
  <2>1. peer' = [peer EXCEPT ![c] = IF ~Server!Alive(a) THEN dead ELSE IF a = b THEN here ELSE g]
        /\ UNCHANGED <<owner, ended, deleted, look>> /\ peer[c].st = "waiting"
    BY <1>0, <1>8 DEF Server!Accept, ServerTypes
  <2>2. dead \in PeerRecords /\ PeerRight(dead) /\ dead.errs <= 1 /\ dead.st = "gone"
    <3>1. dead \in PeerRecords
      BY <1>0 DEF PeerRecords, States
    <3>2. dead.st = "gone" /\ dead.errs = 0 /\ dead.attach = "off" /\ ~dead.served
      BY <1>0, <2>1 DEF PeerRecords, PeerRight, Fresh
    <3> HIDE DEF dead
    <3> QED BY <3>1, <3>2 DEF PeerRight, Fresh, Counted, Attached, Owned
  <2>3. g \in PeerRecords /\ PeerRight(g) /\ g.errs = 0 /\ g.st = "given" /\ ~g.cut
        /\ (g.srv = g.at \/ g.orphan)
    <3>1. Server!GetServer(a, b) \in Pollers
      BY <2>0
    <3>2. g \in PeerRecords
      BY <1>0, <2>0, <3>1 DEF PeerRecords, States
    <3> QED BY <1>0, <2>0, <2>1, <3>2 DEF PeerRecords, PeerRight, Fresh, Counted, Attached, Owned
  <2> HIDE DEF g
  <2>4. here \in PeerRecords /\ PeerRight(here) /\ here.errs = 0 /\ here.st = "session"
    <3>1. here \in PeerRecords
      BY <2>3 DEF PeerRecords, States
    <3>2. /\ here.errs = 0 /\ here.st = "session" /\ here.served /\ ~here.cut
          /\ here.attach = "on" /\ (here.srv = here.at \/ here.orphan)
      BY <2>3 DEF PeerRecords
    <3> QED BY <3>1, <3>2 DEF PeerRight, Fresh, Counted, Attached, Owned
  <2> HIDE DEF here, dead
  <2>5. CASE ~Server!Alive(a)
    <3>1. peer' = [peer EXCEPT ![c] = dead]
      BY <2>1, <2>5
    <3> QED BY <2>1, <2>2, <3>1, OnePeer
  <2>6. CASE Server!Alive(a) /\ a = b
    <3>1. peer' = [peer EXCEPT ![c] = here] /\ here.errs <= 1 /\ here.st # "waiting"
      BY <2>1, <2>4, <2>6
    <3> QED BY <2>1, <2>4, <3>1, OnePeer
  <2>7. CASE Server!Alive(a) /\ a # b
    <3>1. peer' = [peer EXCEPT ![c] = g] /\ g.errs <= 1 /\ g.st # "waiting"
      BY <2>1, <2>3, <2>7
    <3> QED BY <2>1, <2>3, <3>1, OnePeer
  <2> QED BY <2>5, <2>6, <2>7
<1>9. ASSUME NEW p \in Pollers, NEW over \in SUBSET Conns, Server!OnManager(p, over)
      PROVE  ServerInv'
  <2>1. \A c \in Conns : peer'[c] = IF c \in over THEN [Server!Told(peer[c]) EXCEPT !.st = "erasing"]
                                                  ELSE peer[c]
    BY <1>9 DEF Server!OnManager
  <2>2. \A c \in over : LET t == [Server!Told(peer[c]) EXCEPT !.st = "erasing"]
                        IN  t \in PeerRecords /\ PeerRight(t) /\ t.errs = 1 /\ t.st = "erasing"
    BY <1>0, <1>9, ToldRight DEF Server!OnManager
  <2>3. \A c \in Conns : /\ peer'[c] \in PeerRecords /\ PeerRight(peer'[c])
                         /\ owner => peer'[c].errs <= 1
                         /\ peer'[c].st = "waiting" => peer[c].st = "waiting"
    <3> SUFFICES ASSUME NEW c \in Conns
                 PROVE  /\ peer'[c] \in PeerRecords /\ PeerRight(peer'[c])
                        /\ owner => peer'[c].errs <= 1
                        /\ peer'[c].st = "waiting" => peer[c].st = "waiting"
      OBVIOUS
    <3> DEFINE t == [Server!Told(peer[c]) EXCEPT !.st = "erasing"]
    <3>1. peer'[c] = IF c \in over THEN t ELSE peer[c]
      BY <2>1
    <3>2. c \in over => t \in PeerRecords /\ PeerRight(t) /\ t.errs = 1 /\ t.st = "erasing"
      BY <2>2
    <3> HIDE DEF t
    <3> QED BY <1>0, <3>1, <3>2
  <2>4. UNCHANGED <<owner, ended, deleted, look>> /\ peer' = [c \in Conns |-> peer'[c]]
    BY <1>9 DEF Server!OnManager
  <2>5. ServerTypes'
    BY <1>0, <2>3, <2>4 DEF ServerTypes
  <2>6. Server!Looking'
    BY <1>0, <2>3, <2>4 DEF Server!Looking, Server!In
  <2>7. (\A c \in Conns : PeerRight(peer[c]) /\ (owner => peer[c].errs <= 1))'
    BY <2>3, <2>4
  <2> QED BY <1>0, <2>4, <2>5, <2>6, <2>7
<1>10. ASSUME NEW p \in Pollers, Server!OnAccept(p) \/ Server!Drained(p) \/ Server!AcceptFails(p)
       PROVE  ServerInv'
  <2>1. PICK l \in {"idle", "retry", "loop"} : look' = [look EXCEPT ![p] = l]
        /\ (l = "idle" => Server!In({"waiting"}) = {})
    BY <1>10 DEF Server!OnAccept, Server!Drained, Server!AcceptFails
  <2>2. UNCHANGED <<owner, ended, deleted, peer>>
    BY <1>10 DEF Server!OnAccept, Server!Drained, Server!AcceptFails
  <2>3. ServerTypes'
    BY <1>0, <2>1, <2>2 DEF ServerTypes
  <2>4. Server!In({"waiting"})' = Server!In({"waiting"})
    BY <2>2 DEF Server!In
  <2>5. CASE l = "idle"
    BY <1>0, <2>1, <2>2, <2>3, <2>4, <2>5, NoPeer DEF Server!Looking
  <2>6. CASE l # "idle"
    <3>1. look'[p] # "idle"
      BY <1>0, <2>1, <2>6 DEF ServerTypes
    <3>2. Server!Looking'
      BY <3>1 DEF Server!Looking
    <3> QED BY <1>0, <2>2, <2>3, <3>2, NoPeer
  <2> QED BY <2>5, <2>6
<1>11. CASE Server!Drop
  <2>1. ServerTypes' /\ Server!Looking' /\ ~owner'
    BY <1>0, <1>11 DEF Server!Drop, ServerTypes, Server!Looking
  <2> QED BY <1>0, <1>11, <2>1, NoPeer DEF Server!Drop
<1>12. CASE Server!StopListening
  <2>1. ~owner /\ owner' = owner /\ UNCHANGED peer
    BY <1>0, <1>12 DEF Server!StopListening, Server!Alive
  <2>2. ServerTypes'
    BY <1>0, <1>12 DEF Server!StopListening, ServerTypes
  <2>3. Server!Looking'
    BY <2>1 DEF Server!Looking
  <2> QED BY <2>1, <2>2, <2>3, NoPeer
<1>13. CASE Server!ClearSessions
  <2>1. ServerTypes'
    BY <1>0, <1>13, EmptiedType DEF Server!ClearSessions, ServerTypes
  <2> QED BY <1>0, <1>13, <2>1, EmptiedStep DEF Server!ClearSessions
<1>14. CASE Server!DropClones
  <2>1. ServerTypes' /\ Server!Looking'
    BY <1>0, <1>14 DEF Server!DropClones, ServerTypes, Server!Looking, Server!In
  <2> QED BY <1>0, <1>14, <2>1, NoPeer DEF Server!DropClones
<1>15. ASSUME NEW p \in Pollers, Server!DeleteClone(p) PROVE ServerInv'
  <2>1. ~owner
    BY <1>0, <1>15 DEF Server!DeleteClone, Server!Alive
  <2>2. ServerTypes'
    BY <1>0, <1>15, EmptiedType DEF Server!DeleteClone, ServerTypes
  <2> QED BY <1>0, <1>15, <2>1, <2>2, EmptiedStep DEF Server!DeleteClone
<1> QED BY <1>1, <1>2, <1>3, <1>4, <1>5, <1>6, <1>7, <1>8, <1>9, <1>10, <1>11, <1>12,
           <1>13, <1>14, <1>15 DEF Server!Next, Server!Destroy

\* In Network the server's variables change by its own steps only.
LEMMA ServerSteps == [Next]_all => [Server!Next]_(Server!serverVars)
BY DEF Next, all, Delays, Connects, Serves, Sends, Waits, serverV, Server!serverVars

\* Of whatever races with an accepted connection, its session is told once, by
\* the server of its own poller, and is watched exactly while it may be; and
\* while somebody waits to be accepted some poller is going to look.
THEOREM ServerRightHolds == Spec => []ServerRight
<1>1. ServerInv => Server!ServerRight
  <2> SUFFICES ASSUME ServerInv PROVE Server!ServerRight
    OBVIOUS
  <2>1. \A c \in Conns : peer[c] \in PeerRecords /\ PeerRight(peer[c])
                         /\ (owner => peer[c].errs <= 1)
    BY DEF ServerInv, ServerTypes
  <2>2. \A c \in Conns : /\ peer[c].st = "gone" /\ peer[c].served => peer[c].errs > 0
                         /\ peer[c].errs <= 2
    BY <2>1 DEF PeerRight, Counted, Fresh, PeerRecords, States
  <2>3. Server!ToldOnce
    BY <2>1, <2>2 DEF Server!ToldOnce
  <2>4. Server!OwnPoller
    BY <2>1 DEF Server!OwnPoller, Server!In, PeerRight, Owned
  <2>5. Server!Unwatched
    BY <2>1 DEF Server!Unwatched, PeerRight, Attached
  <2> QED BY <2>3, <2>4, <2>5 DEF Server!ServerRight, ServerInv
<1>2. Init => ServerInv
  BY ServerStart DEF Init
<1>3. ServerInv /\ [Next]_all => ServerInv'
  BY ServerStep, ServerSteps
<1> QED BY <1>1, <1>2, <1>3, PTL DEF Spec, ServerRight

-----------------------------------------------------------------------------
(* TcpClient: its records, its poller's tasks and what the user is told. *)

ConnRecords == [fd : BOOLEAN, watched : {"none", "write", "all"}, timer : BOOLEAN,
          awaiting : BOOLEAN, errEmit : BOOLEAN]
ClientTasks == [do : {"delete", "connect", "err"}, n : Client!Attempts]
         \cup [do : {"resolved"}, n : Client!Attempts, made : BOOLEAN]
Results == {"ok", "fail", "err"}

ClientTypes == /\ attempt \in Nat /\ (attempt # 0 => attempt \in Client!Attempts)
          /\ managed \in BOOLEAN /\ crossed \in BOOLEAN
          /\ conn \in [Client!Attempts -> ConnRecords]
          /\ tasks \in Seq(ClientTasks)
          /\ resolver \subseteq Client!Attempts
          /\ telling \in {Client!None} \cup [n : Client!Attempts, ok : BOOLEAN]
          /\ told \in [Client!Attempts -> Seq(Results)]

-----------------------------------------------------------------------------
(* The parts of the invariant. *)

\* A connect task is behind all tasks of its attempt's predecessors, and before
\* all others of its own.
Later == {p \in ClientTasks \X ClientTasks : p[2].do = "connect" => p[1].n < p[2].n}
InReach == \A t \in Range(tasks) : t.n <= attempt
Queue == Pairwise(tasks, Later) /\ InReach

Pending(d, n) == \E t \in Range(tasks) : t.do = d /\ t.n = n
Telling(n) == telling.n = n
Undecided(n) == told[n] = <<>> /\ ~Telling(n)

\* Nothing is there yet of an attempt to come, and of one whose connect task has
\* yet to run nothing but that its error may have been emitted.
Idle(n) == /\ Undecided(n) /\ n \notin resolver
           /\ ~conn[n].fd /\ conn[n].watched = "none" /\ ~conn[n].timer /\ ~conn[n].awaiting
Unborn(n) == /\ n > attempt => Idle(n) /\ ~conn[n].errEmit
             /\ Pending("connect", n) => Idle(n)

\* While the timer runs nothing is decided, a result is the first thing to be
\* told and errors follow.
Single(n) == /\ conn[n].timer => Undecided(n)
             /\ conn[n].awaiting \/ conn[n].watched = "write" => conn[n].timer
             /\ Telling(n) => told[n] = <<>>
             /\ \A i \in DOMAIN told[n] : i > 1 => told[n][i] = "err"

\* Where a descriptor may be: whoever has failed keeps none.
Failed(n) == \/ Telling(n) /\ ~telling.ok
             \/ told[n] # <<>> /\ told[n][1] = "fail"
Kept(n) == /\ conn[n].watched # "none" => conn[n].fd
           /\ conn[n].fd /\ n # attempt => Pending("delete", n)
           /\ Failed(n) => ~conn[n].fd
           /\ Pending("delete", n) => n # attempt

\* The error of the client's attempt is told or its task is to come, and there is
\* a reason for the client's timer to be off.
HasErr(n) == \E i \in DOMAIN told[n] : told[n][i] = "err"
Informed(n) == n = attempt =>
    /\ conn[n].errEmit => Pending("err", n) \/ HasErr(n)
    /\ managed \/ crossed \/ Failed(n) \/ HasErr(n) \/ Pending("err", n)

Att(n) == Unborn(n) /\ Single(n) /\ Kept(n) /\ Informed(n)

Crossing == Client!Busy /\ telling.n # attempt => crossed

ClientInv == ClientTypes /\ Queue /\ Crossing /\ \A n \in Client!Attempts : Att(n)


-----------------------------------------------------------------------------
(* The queue of the poller. *)

LEMMA TaskIs ==
    ASSUME NEW t \in ClientTasks, t.do # "resolved"
    PROVE  t = [do |-> t.do, n |-> t.n]
BY DEF ClientTasks

\* A task that is put in behind: one of an attempt already begun, or the connect
\* task of a new one.
LEMMA PutOne ==
    ASSUME ClientTypes, Queue, NEW e \in ClientTasks, tasks' = Append(tasks, e),
           e.n <= attempt', attempt <= attempt', attempt' \in Nat,
           e.do = "connect" => attempt < e.n
    PROVE  /\ tasks' \in Seq(ClientTasks) /\ Queue'
           /\ \A d, n : Pending(d, n)' <=> Pending(d, n) \/ (e.do = d /\ e.n = n)
<1>1. tasks \in Seq(ClientTasks)
  BY DEF ClientTypes
<1>2. tasks' \in Seq(ClientTasks) /\ Range(tasks') = Range(tasks) \cup {e}
  BY <1>1, RangeAppend, AppendProperties
<1>3. \A t \in Range(tasks) : t \in ClientTasks /\ t.n <= attempt /\ t.n \in Nat
  BY <1>1, RangeType DEF Queue, InReach, ClientTasks, Client!Attempts
<1>4. \A t \in Range(tasks) : <<t, e>> \in Later
  BY <1>3 DEF Later, ClientTypes, ClientTasks, Client!Attempts
<1>5. Pairwise(tasks', Later)
  BY <1>1, <1>4, PairwiseAppend DEF Queue
<1>6. \A t \in Range(tasks') : t.n <= attempt'
  BY <1>2, <1>3 DEF ClientTypes
<1>7. InReach'
  BY <1>6 DEF InReach
<1>8. Queue'
  BY <1>5, <1>7 DEF Queue
<1>9. \A d, n : Pending(d, n)' <=> Pending(d, n) \/ (e.do = d /\ e.n = n)
  BY <1>2 DEF Pending
<1> QED BY <1>2, <1>8, <1>9

\* The first task is taken: what was pending is pending still, or it was that
\* task; a second connect task of its attempt there is none.
LEMMA TakeOne ==
    ASSUME ClientTypes, Queue, tasks # <<>>, tasks' = Tail(tasks), attempt' = attempt
    PROVE  /\ Head(tasks) \in ClientTasks /\ Head(tasks).n <= attempt
           /\ tasks' \in Seq(ClientTasks) /\ Queue'
           /\ \A d, n : Pending(d, n) <=>
                  Pending(d, n)' \/ (Head(tasks).do = d /\ Head(tasks).n = n)
           /\ \A n : n = Head(tasks).n => ~Pending("connect", n)'
<1>1. tasks \in Seq(ClientTasks)
  BY DEF ClientTypes
<1>2. Head(tasks) \in ClientTasks /\ tasks' \in Seq(ClientTasks)
  BY <1>1, HeadTailProperties
<1>3. Head(tasks) \in Range(tasks) /\ Range(tasks) = Range(tasks') \cup {Head(tasks)}
  BY <1>1, RangeTail
<1>4. Pairwise(tasks', Later) /\ \A t \in Range(tasks') : <<Head(tasks), t>> \in Later
  BY <1>1, PairwiseTail DEF Queue
<1>5. InReach'
  BY <1>3 DEF Queue, InReach
<1>6. \A d, n : Pending(d, n) <=>
                  Pending(d, n)' \/ (Head(tasks).do = d /\ Head(tasks).n = n)
  BY <1>3 DEF Pending
<1>7. \A n : n = Head(tasks).n => ~Pending("connect", n)'
  <2>1. \A t \in Range(tasks') : t.do = "connect" => Head(tasks).n < t.n
    BY <1>4 DEF Later
  <2>2. Head(tasks).n \in Nat
    BY <1>2 DEF ClientTasks, Client!Attempts
  <2> QED BY <2>1, <2>2 DEF Pending
<1>8. Head(tasks).n <= attempt
  BY <1>3 DEF Queue, InReach
<1>9. Queue'
  BY <1>4, <1>5 DEF Queue
<1> QED BY <1>2, <1>6, <1>7, <1>8, <1>9

\* An untouched queue.
LEMMA SameQueue ==
    ASSUME ClientTypes, Queue, tasks' = tasks, attempt' = attempt
    PROVE  /\ tasks' \in Seq(ClientTasks) /\ Queue'
           /\ \A d, n : Pending(d, n)' <=> Pending(d, n)
BY DEF ClientTypes, Queue, InReach, Pending

\* What the user is told.
LEMMA Tells ==
    ASSUME NEW s \in Seq(Results), NEW x \in Results,
           \A i \in DOMAIN s : i > 1 => s[i] = "err",
           x = "err" \/ s = <<>>
    PROVE  LET t == Append(s, x)
           IN  /\ t \in Seq(Results) /\ t # <<>>
               /\ t[1] = IF s = <<>> THEN x ELSE s[1]
               /\ \A i \in DOMAIN t : i > 1 => t[i] = "err"
               /\ \E i \in DOMAIN t : t[i] = x
               /\ \A i \in DOMAIN s : i \in DOMAIN t /\ t[i] = s[i]
<1> DEFINE t == Append(s, x)
<1>1. /\ t \in Seq(Results) /\ t # <<>> /\ Len(t) = Len(s) + 1
      /\ \A i \in 1..Len(s) : t[i] = s[i]
      /\ t[Len(s) + 1] = x
  BY AppendProperties
<1>2. Len(s) \in Nat /\ DOMAIN s = 1..Len(s) /\ DOMAIN t = 1..Len(s) + 1
      /\ (s = <<>> <=> Len(s) = 0)
  BY <1>1, LenProperties, EmptySeq
<1> HIDE DEF t
<1>3. t[1] = IF s = <<>> THEN x ELSE s[1]
  BY <1>1, <1>2
<1>4. \A i \in DOMAIN t : i > 1 => t[i] = "err"
  BY <1>1, <1>2
<1>5. \E i \in DOMAIN t : t[i] = x
  BY <1>1, <1>2
<1>6. \A i \in DOMAIN s : i \in DOMAIN t /\ t[i] = s[i]
  BY <1>1, <1>2
<1> QED BY <1>1, <1>3, <1>4, <1>5, <1>6 DEF t


-----------------------------------------------------------------------------
(* The steps, and what they do to an attempt. *)

LEMMA ClientStart == Client!Init => ClientInv
<1> SUFFICES ASSUME Client!Init PROVE ClientInv
  OBVIOUS
<1>1. ClientTypes
  <2>1. <<>> \in Seq(ClientTasks) /\ <<>> \in Seq(Results) /\ Client!Closed \in ConnRecords
    BY DEF Client!Closed, ConnRecords
  <2> QED BY <2>1 DEF Client!Init, ClientTypes
<1>2. Range(tasks) = {}
  BY RangeEmpty DEF Client!Init
<1>3. Queue
  BY <1>2, PairwiseEmpty DEF Client!Init, Queue, InReach
<1>4. Crossing
  BY DEF Client!Init, Crossing, Client!Busy
<1>5. ASSUME NEW n \in Client!Attempts PROVE Att(n)
  <2>1. /\ \A d : ~Pending(d, n)
        /\ n # 0 /\ n # attempt /\ told[n] = <<>> /\ ~Telling(n) /\ conn[n] = Client!Closed
        /\ n \notin resolver
    BY <1>2, <1>5 DEF Client!Init, Pending, Telling, Client!None, Client!Attempts
  <2>2. DOMAIN told[n] = {}
    BY <2>1
  <2> QED BY <2>1, <2>2 DEF Att, Unborn, Idle, Undecided, Single, Kept, Failed, Informed, Client!Closed
<1> QED BY <1>1, <1>3, <1>4, <1>5 DEF ClientInv

\* What a step leaves alone of an attempt: another attempt's task may have been put
\* in or taken, and of this one only what it does not wait for.
LEMMA Untouched ==
    ASSUME NEW n \in Client!Attempts, Att(n), attempt' = attempt,
           conn'[n] = conn[n], told'[n] = told[n],
           n \in resolver' => n \in resolver,
           Telling(n)' <=> Telling(n), Telling(n) => telling' = telling,
           Pending("connect", n)' => Pending("connect", n),
           Pending("delete", n)' <=> Pending("delete", n),
           n = attempt => /\ Pending("err", n) => Pending("err", n)'
                          /\ managed' = managed \/ crossed'
                          /\ crossed => crossed'
    PROVE  Att(n)'
<1>1. Unborn(n)'
  BY DEF Att, Unborn, Idle, Undecided
<1>2. Single(n)'
  BY DEF Att, Single, Undecided
<1>3. Failed(n)' <=> Failed(n)
  BY DEF Failed
<1>4. Kept(n)'
  BY <1>3 DEF Att, Kept
<1>5. HasErr(n)' <=> HasErr(n)
  BY DEF HasErr
<1>6. Informed(n)'
  BY <1>3, <1>5 DEF Att, Informed
<1> QED BY <1>1, <1>2, <1>4, <1>6 DEF Att

\* con_cb decides the attempt of the client, from its timer or its connect task.
LEMMA Decides ==
    ASSUME ClientTypes, NEW n \in Client!Attempts, n = attempt, Att(n), attempt' = attempt,
           Undecided(n), n \in resolver' => n \in resolver,
           NEW c \in ConnRecords, NEW ok \in BOOLEAN, Client!ConCb(n, c, ok),
           ok => c.fd /\ c.watched = "all",
           c.errEmit => conn[n].errEmit, told' = told, managed' = managed, crossed' = crossed,
           Pending("connect", n)' => FALSE,
           Pending("delete", n)' <=> Pending("delete", n),
           Pending("err", n) => Pending("err", n)'
    PROVE  Att(n)' /\ conn' \in [Client!Attempts -> ConnRecords] /\ telling' = [n |-> n, ok |-> ok]
<1> DEFINE d == IF ok THEN [c EXCEPT !.timer = FALSE, !.awaiting = FALSE]
                ELSE [Client!Dismissed(c) EXCEPT !.fd = FALSE]
<1>1. /\ d \in ConnRecords /\ ~d.timer /\ ~d.awaiting /\ d.errEmit = c.errEmit
      /\ ok => d.fd /\ d.watched = "all"
      /\ ~ok => ~d.fd /\ d.watched = "none"
  BY DEF ConnRecords, Client!Dismissed
<1>2. conn' = [conn EXCEPT ![n] = d] /\ telling' = [n |-> n, ok |-> ok]
  BY DEF Client!ConCb
<1> HIDE DEF d
<1>3. conn' \in [Client!Attempts -> ConnRecords] /\ conn'[n] = d
  BY <1>1, <1>2 DEF ClientTypes
<1>4. Telling(n)' /\ telling'.ok = ok /\ told[n] = <<>> /\ told'[n] = <<>>
  BY <1>2 DEF Telling, Undecided
<1>5. DOMAIN told'[n] = {} /\ (Failed(n)' <=> ~ok) /\ ~HasErr(n)'
  BY <1>4 DEF Failed, HasErr
<1>6. ~Failed(n) /\ ~HasErr(n)
  <2>1. DOMAIN told[n] = {}
    BY <1>4
  <2> QED BY <1>4, <2>1 DEF Failed, HasErr, Undecided
<1>7. Unborn(n)'
  BY DEF Unborn, ClientTypes, Client!Attempts
<1>8. Single(n)'
  BY <1>1, <1>3, <1>4, <1>5 DEF Single
<1>9. Kept(n)'
  BY <1>1, <1>3, <1>5 DEF Kept, Att
<1>10. Informed(n)'
  BY <1>1, <1>3, <1>5, <1>6 DEF Informed, Att
<1> QED BY <1>2, <1>3, <1>7, <1>8, <1>9, <1>10 DEF Att

\* on_err ends whatever was going on.
LEMMA ErrsOnce ==
    ASSUME ClientTypes, NEW n \in Client!Attempts, n = attempt, Att(n), attempt' = attempt, Client!OnErr(n),
           telling = Client!None, telling' = telling, resolver' = resolver,
           ~Pending("connect", n)',
           Pending("delete", n)' <=> Pending("delete", n)
    PROVE  /\ Att(n)' /\ conn' \in [Client!Attempts -> ConnRecords] /\ told' \in [Client!Attempts -> Seq(Results)]
           /\ managed' \in BOOLEAN
           /\ \A m \in Client!Attempts \ {n} : conn'[m] = conn[m] /\ told'[m] = told[m]
<1> DEFINE d == [Client!Dismissed(conn[n]) EXCEPT !.errEmit = TRUE]
           t == Append(told[n], "err")
<1>1. /\ d \in ConnRecords /\ ~d.timer /\ ~d.awaiting /\ d.watched = "none" /\ d.errEmit
      /\ d.fd = conn[n].fd
  <2>1. conn[n] \in ConnRecords
    BY DEF ClientTypes
  <2> QED BY <2>1 DEF ConnRecords, Client!Dismissed
<1>2. /\ t \in Seq(Results) /\ t # <<>>
      /\ t[1] = IF told[n] = <<>> THEN "err" ELSE told[n][1]
      /\ \A i \in DOMAIN t : i > 1 => t[i] = "err"
      /\ \E i \in DOMAIN t : t[i] = "err"
  BY Tells DEF ClientTypes, Att, Single, Results
<1>3. conn' = [conn EXCEPT ![n] = d] /\ told' = [told EXCEPT ![n] = t] /\ managed' = FALSE
  BY DEF Client!OnErr
<1> HIDE DEF d, t
<1>4. /\ conn' \in [Client!Attempts -> ConnRecords] /\ conn'[n] = d
      /\ told' \in [Client!Attempts -> Seq(Results)] /\ told'[n] = t
      /\ \A m \in Client!Attempts \ {n} : conn'[m] = conn[m] /\ told'[m] = told[m]
  BY <1>1, <1>2, <1>3 DEF ClientTypes
<1>5. ~Telling(n) /\ ~Telling(n)' /\ HasErr(n)'
  BY <1>2, <1>4 DEF Telling, Client!None, HasErr, Client!Attempts
<1>6. Failed(n)' <=> Failed(n)
  BY <1>2, <1>4, <1>5 DEF Failed
<1>7. Unborn(n)'
  BY DEF Unborn, ClientTypes, Client!Attempts
<1>8. Single(n)'
  BY <1>1, <1>2, <1>4, <1>5 DEF Single
<1>9. Kept(n)'
  BY <1>1, <1>4, <1>6 DEF Kept, Att
<1>10. Informed(n)'
  BY <1>5 DEF Informed
<1> QED BY <1>3, <1>4, <1>7, <1>8, <1>9, <1>10 DEF Att


\* connect_l begins the attempt, and the answer of the name server goes on with it:
\* it is decided at once, or a descriptor or the lookup is waited for.
LEMMA Begins ==
    ASSUME ClientTypes, NEW n \in Client!Attempts, n = attempt, Att(n), attempt' = attempt,
           Undecided(n), NEW c \in ConnRecords, c.timer, ~c.errEmit \/ c.errEmit = conn[n].errEmit,
           conn' = [conn EXCEPT ![n] = c], c.watched # "all", c.watched = "write" => c.fd,
           c.watched = "none" => ~c.fd,
           telling' = telling, told' = told, managed' = managed, crossed' = crossed,
           Pending("connect", n)' => FALSE,
           Pending("delete", n)' <=> Pending("delete", n),
           Pending("err", n) => Pending("err", n)'
    PROVE  Att(n)' /\ conn' \in [Client!Attempts -> ConnRecords]
<1>1. conn' \in [Client!Attempts -> ConnRecords] /\ conn'[n] = c
  BY DEF ClientTypes
<1>2. Undecided(n)' /\ ~Failed(n) /\ ~Failed(n)' /\ told[n] = <<>>
  BY DEF Undecided, Telling, Failed
<1>3. DOMAIN told[n] = {} /\ ~HasErr(n) /\ ~HasErr(n)'
  BY <1>2 DEF HasErr
<1>4. Unborn(n)'
  BY DEF Unborn, ClientTypes, Client!Attempts
<1>5. Single(n)'
  BY <1>1, <1>2, <1>3 DEF Single, Undecided
<1>6. Kept(n)'
  BY <1>1, <1>2 DEF Kept, Att, ConnRecords
<1>7. Informed(n)'
  BY <1>1, <1>2, <1>3 DEF Informed, Att
<1> QED BY <1>1, <1>4, <1>5, <1>6, <1>7 DEF Att

LEMMA StartStep ==
    ASSUME ClientInv, Client!StartConnect
    PROVE  ClientInv'
<1> USE NetworkAssumption DEF NetworkAssumption, ClientInv
<1> DEFINE a == attempt
           b == attempt + 1
           connect == [do |-> "connect", n |-> b]
           delete == [do |-> "delete", n |-> a]
<1>1. /\ a \in Nat /\ b \in Client!Attempts /\ a # b /\ attempt' = b /\ a < b
      /\ a # 0 => a \in Client!Attempts
      /\ connect \in ClientTasks /\ (a # 0 => delete \in ClientTasks)
      /\ UNCHANGED <<conn, resolver, telling, told>> /\ managed' = TRUE
      /\ crossed' = (crossed \/ Client!Busy)
  BY DEF ClientTypes, Client!StartConnect, Client!Attempts, ClientTasks
<1>2. tasks' = IF a = 0 THEN Append(tasks, connect) ELSE Append(Append(tasks, delete), connect)
  <2>1. tasks \in Seq(ClientTasks) /\ tasks' = tasks \o ((IF a = 0 THEN <<>> ELSE <<delete>>) \o <<connect>>)
    BY DEF ClientTypes, Client!StartConnect, Client!Post
  <2>2. <<connect>> \in Seq(ClientTasks) /\ (a # 0 => <<delete>> \in Seq(ClientTasks))
    BY <1>1
  <2> HIDE DEF connect, delete, a
  <2>3. CASE a = 0
    <3>1. tasks' = tasks \o <<connect>>
      BY <2>1, <2>2, <2>3, ConcatEmptySeq
    <3> QED BY <1>1, <2>1, <2>3, <3>1, AppendIsConcat
  <2>4. CASE a # 0
    <3>1. tasks' = (tasks \o <<delete>>) \o <<connect>>
      BY <2>1, <2>2, <2>4, ConcatAssociative
    <3>2. tasks \o <<delete>> = Append(tasks, delete) /\ Append(tasks, delete) \in Seq(ClientTasks)
      BY <1>1, <2>1, <2>4, AppendIsConcat, AppendProperties
    <3> QED BY <1>1, <2>4, <3>1, <3>2, AppendIsConcat
  <2> QED BY <2>3, <2>4
<1>3. /\ tasks' \in Seq(ClientTasks)
      /\ Range(tasks') = Range(tasks) \cup (IF a = 0 THEN {} ELSE {delete}) \cup {connect}
      /\ Pairwise(tasks', Later)
  <2>0. /\ tasks \in Seq(ClientTasks) /\ Pairwise(tasks, Later)
        /\ \A t \in Range(tasks) : t \in ClientTasks /\ t.n <= a /\ t.n \in Nat
    BY RangeType DEF ClientTypes, Queue, InReach, ClientTasks, Client!Attempts
  <2>1. CASE a = 0
    <3>1. \A t \in Range(tasks) : <<t, connect>> \in Later
      BY <1>1, <2>0 DEF Later
    <3> QED BY <1>1, <1>2, <2>0, <2>1, <3>1, RangeAppend, AppendProperties, PairwiseAppend
  <2>2. CASE a # 0
    <3> DEFINE q == Append(tasks, delete)
    <3>1. \A t \in Range(tasks) : <<t, delete>> \in Later
      BY <1>1, <2>0, <2>2 DEF Later
    <3>2. q \in Seq(ClientTasks) /\ Range(q) = Range(tasks) \cup {delete} /\ Pairwise(q, Later)
      BY <1>1, <2>0, <2>2, <3>1, RangeAppend, AppendProperties, PairwiseAppend
    <3>3. \A t \in Range(q) : <<t, connect>> \in Later
      BY <1>1, <2>0, <2>2, <3>2 DEF Later
    <3>4. tasks' = Append(q, connect)
      BY <1>2, <2>2
    <3> HIDE DEF q
    <3>5. /\ tasks' \in Seq(ClientTasks) /\ Range(tasks') = Range(q) \cup {connect}
          /\ Pairwise(tasks', Later)
      BY <1>1, <3>2, <3>3, <3>4, RangeAppend, AppendProperties, PairwiseAppend
    <3> QED BY <2>2, <3>2, <3>5
  <2> QED BY <2>1, <2>2
<1>4. Queue'
  <2>1. \A t \in Range(tasks') : t.n <= b
    <3>1. \A t \in Range(tasks) : t.n <= a /\ t.n \in Nat
      BY RangeType DEF ClientTypes, Queue, InReach, ClientTasks, Client!Attempts
    <3> QED BY <1>1, <1>3, <3>1
  <2> QED BY <1>1, <1>3, <2>1 DEF Queue, InReach
<1>5. ClientTypes'
  BY <1>1, <1>3 DEF ClientTypes, Client!Busy
<1>6. Crossing'
  BY <1>1 DEF Crossing, Client!Busy
<1>7. \A d, n : Pending(d, n)' <=> \/ Pending(d, n)
                                   \/ (d = "connect" /\ n = b)
                                   \/ (a # 0 /\ d = "delete" /\ n = a)
  <2>1. connect.do = "connect" /\ connect.n = b /\ delete.do = "delete" /\ delete.n = a
    OBVIOUS
  <2> HIDE DEF connect, delete
  <2>2. CASE a = 0
    BY <1>3, <2>1, <2>2 DEF Pending
  <2>3. CASE a # 0
    BY <1>3, <2>1, <2>3 DEF Pending
  <2> QED BY <2>2, <2>3
<1>8. ASSUME NEW n \in Client!Attempts PROVE Att(n)'
  <2>1. Att(n) /\ (Telling(n)' <=> Telling(n)) /\ (Failed(n)' <=> Failed(n))
        /\ (Undecided(n)' <=> Undecided(n))
    BY <1>1 DEF Telling, Failed, Undecided
  <2>2. n \in Nat
    BY DEF Client!Attempts
  <2>3. Single(n)'
    BY <1>1, <2>1 DEF Att, Single
  <2>4. CASE n = b
    <3>1. Idle(n) /\ ~conn[n].errEmit /\ ~Pending("delete", n)
      <4>1. Idle(n) /\ ~conn[n].errEmit
        BY <1>1, <2>1, <2>4 DEF Att, Unborn
      <4>2. \A t \in Range(tasks) : t.n <= a /\ t.n \in Nat
        BY RangeType DEF ClientTypes, Queue, InReach, ClientTasks, Client!Attempts
      <4> QED BY <1>1, <2>4, <4>1, <4>2 DEF Pending
    <3>2. Idle(n)' /\ ~conn'[n].errEmit
      BY <1>1, <3>1, <2>1 DEF Idle
    <3> QED BY <1>1, <1>7, <2>1, <2>3, <2>4, <3>1, <3>2 DEF Att, Unborn, Kept, Informed, Idle, Undecided, Failed
  <2>5. CASE n # b
    <3>1. Unborn(n)'
      BY <1>1, <1>7, <2>1, <2>2, <2>5 DEF Att, Unborn, Idle
    <3>2. Kept(n)'
      BY <1>1, <1>7, <2>1, <2>2, <2>5 DEF Att, Kept, Client!Attempts
    <3>3. Informed(n)'
      BY <1>1, <2>5 DEF Informed
    <3> QED BY <2>3, <3>1, <3>2, <3>3 DEF Att
  <2> QED BY <2>4, <2>5
<1>9. (\A n \in Client!Attempts : Att(n))'
  BY <1>8 DEF Client!Attempts
<1> QED BY <1>4, <1>5, <1>6, <1>9


\* The race may be decided at once or a descriptor be watched, which both the
\* connect task and the answer of the name server may come to.
LEMMA ConnectingStep ==
    ASSUME ClientTypes, NEW n \in Client!Attempts, n = attempt, Att(n), attempt' = attempt,
           Undecided(n), NEW c \in ConnRecords, c.timer, c.errEmit => conn[n].errEmit,
           NEW made \in BOOLEAN, Client!Connecting(n, c, made),
           n \in resolver' => n \in resolver,
           told' = told, managed' = managed, crossed' = crossed,
           Pending("connect", n)' => FALSE,
           Pending("delete", n)' <=> Pending("delete", n),
           Pending("err", n) => Pending("err", n)'
    PROVE  /\ Att(n)' /\ conn' \in [Client!Attempts -> ConnRecords]
           /\ telling' = telling \/ telling' = [n |-> n, ok |-> FALSE]
           /\ \A m \in Client!Attempts \ {n} : conn'[m] = conn[m]
<1>1. CASE Client!ConCb(n, c, FALSE)
  <2>1. Att(n)' /\ conn' \in [Client!Attempts -> ConnRecords] /\ telling' = [n |-> n, ok |-> FALSE]
    BY <1>1, Decides
  <2>2. \A m \in Client!Attempts \ {n} : conn'[m] = conn[m]
    BY <1>1 DEF Client!ConCb, ClientTypes
  <2> QED BY <2>1, <2>2
<1>2. CASE ~Client!ConCb(n, c, FALSE)
  <2> DEFINE w == [c EXCEPT !.fd = TRUE, !.watched = "write"]
  <2>1. conn' = [conn EXCEPT ![n] = w] /\ telling' = telling
    BY <1>2 DEF Client!Connecting
  <2>2. w \in ConnRecords /\ w.timer /\ w.fd /\ w.watched = "write" /\ w.errEmit = c.errEmit
    BY DEF ConnRecords
  <2> HIDE DEF w
  <2>3. ~w.errEmit \/ w.errEmit = conn[n].errEmit
    BY <2>2 DEF ConnRecords, ClientTypes
  <2>4. Att(n)' /\ conn' \in [Client!Attempts -> ConnRecords]
    BY <2>1, <2>2, <2>3, Begins
  <2>5. \A m \in Client!Attempts \ {n} : conn'[m] = conn[m]
    BY <2>1 DEF ClientTypes
  <2> QED BY <2>1, <2>4, <2>5
<1> QED BY <1>1, <1>2

LEMMA ClientTaskStep ==
    ASSUME ClientInv, Client!RunTask
    PROVE  ClientInv'
<1> USE DEF ClientInv
<1>1. /\ tasks # <<>> /\ tasks' = Tail(tasks) /\ telling = Client!None
      /\ attempt' = attempt /\ crossed' = crossed
  BY DEF Client!RunTask, Client!Busy
<1>2. PICK h \in ClientTasks : h = Head(tasks)
  BY <1>1, TakeOne
<1>3. PICK n \in Client!Attempts : n = h.n
  BY DEF ClientTasks
<1>4. /\ tasks' \in Seq(ClientTasks) /\ Queue' /\ n <= attempt
      /\ \A d, m : Pending(d, m) <=> Pending(d, m)' \/ (h.do = d /\ n = m)
      /\ ~Pending("connect", n)'
  BY <1>1, <1>2, <1>3, TakeOne
<1>5. Att(n) /\ Pending(h.do, n) /\ n # 0 /\ \A m \in Client!Attempts : ~Telling(m)
  BY <1>1, <1>4 DEF Telling, Client!None, Client!Attempts
\* What is left to show of each kind of task.
<1>6. ASSUME conn' \in [Client!Attempts -> ConnRecords], told' \in [Client!Attempts -> Seq(Results)],
             managed' \in BOOLEAN, resolver' \subseteq resolver \cup {n},
             telling' = telling \/ (n = attempt /\ telling' \in [n : {n}, ok : BOOLEAN]),
             Att(n)', n # attempt => managed' = managed,
             \A m \in Client!Attempts \ {n} : conn'[m] = conn[m] /\ told'[m] = told[m]
      PROVE  ClientInv'
  <2>1. ClientTypes'
    BY <1>1, <1>4, <1>6 DEF ClientTypes
  <2>2. Crossing'
    BY <1>1, <1>6 DEF Crossing, Client!Busy
  <2>3. ASSUME NEW m \in Client!Attempts PROVE Att(m)'
    <3>1. CASE m = n
      BY <1>6, <3>1
    <3>2. CASE m # n
      <4>1. /\ conn'[m] = conn[m] /\ told'[m] = told[m] /\ Att(m)
            /\ m \in resolver' => m \in resolver
            /\ Pending("connect", m)' => Pending("connect", m)
            /\ Pending("delete", m)' <=> Pending("delete", m)
            /\ Pending("err", m) => Pending("err", m)'
        BY <1>4, <1>6, <3>2
      <4>2. ~Telling(m) /\ ~Telling(m)'
        BY <1>5, <1>6, <3>2 DEF Telling
      <4>3. m = attempt => managed' = managed
        BY <1>6, <3>2
      <4> QED BY <1>1, <4>1, <4>2, <4>3, Untouched
    <3> QED BY <3>1, <3>2
  <2>4. (\A m \in Client!Attempts : Att(m))'
    BY <2>3 DEF Client!Attempts
  <2> QED BY <1>4, <2>1, <2>2, <2>4
<1>7. CASE h.do = "delete"
  <2>1. conn' = [conn EXCEPT ![n] = Client!Closed] /\ UNCHANGED <<managed, resolver, telling, told>>
    BY <1>2, <1>3, <1>7 DEF Client!RunTask
  <2>2. n # attempt
    BY <1>5, <1>7 DEF Att, Kept
  <2>3. Client!Closed \in ConnRecords /\ conn' \in [Client!Attempts -> ConnRecords] /\ conn'[n] = Client!Closed
        /\ \A m \in Client!Attempts \ {n} : conn'[m] = conn[m]
    BY <2>1 DEF ClientTypes, ConnRecords, Client!Closed
  <2>4. Att(n)'
    <3>1. Unborn(n)'
      BY <1>1, <1>4 DEF Unborn, ClientTypes, Client!Attempts
    <3>2. Single(n)'
      BY <1>5, <2>1, <2>3 DEF Att, Single, Undecided, Telling, Client!Closed
    <3>3. Kept(n)'
      BY <1>1, <2>2, <2>3 DEF Kept, Client!Closed
    <3>4. Informed(n)'
      BY <1>1, <2>2 DEF Informed
    <3> QED BY <3>1, <3>2, <3>3, <3>4 DEF Att
  <2> QED BY <1>6, <2>1, <2>3, <2>4 DEF ClientTypes
<1>8. CASE h.do = "connect"
  <2>1. UNCHANGED <<managed, told>>
        /\ IF n = attempt THEN Client!ConnectL(n) ELSE UNCHANGED <<conn, resolver, telling>>
    BY <1>2, <1>3, <1>8 DEF Client!RunTask, Client!Alive
  <2>2. Idle(n)
    BY <1>5, <1>8 DEF Att, Unborn
  <2>3. /\ Pending("delete", n)' <=> Pending("delete", n)
        /\ Pending("err", n) => Pending("err", n)'
    BY <1>4, <1>8
  <2>4. CASE n # attempt
    <3>1. Att(n)'
      BY <1>1, <1>4, <1>5, <2>1, <2>3, <2>4, Untouched DEF Telling
    <3> QED BY <1>6, <2>1, <2>4, <3>1 DEF ClientTypes
  <2>5. CASE n = attempt
    <3> DEFINE c == [Client!Closed EXCEPT !.timer = TRUE]
    <3>1. c \in ConnRecords /\ c.timer /\ ~c.errEmit /\ ~c.fd /\ c.watched = "none" /\ ~c.awaiting
      BY DEF ConnRecords, Client!Closed
    <3>2. ASSUME NEW made \in BOOLEAN, Client!Connecting(n, c, made), resolver' = resolver
          PROVE  ClientInv'
      <4> HIDE DEF c
      <4>1. /\ Att(n)' /\ conn' \in [Client!Attempts -> ConnRecords]
            /\ telling' = telling \/ telling' = [n |-> n, ok |-> FALSE]
            /\ \A m \in Client!Attempts \ {n} : conn'[m] = conn[m]
        BY <1>1, <1>4, <1>5, <2>1, <2>2, <2>3, <2>5, <3>1, <3>2, ConnectingStep DEF Idle
      <4>2. telling' = telling \/ telling' \in [n : {n}, ok : BOOLEAN]
        <5>1. [n |-> n, ok |-> FALSE] \in [n : {n}, ok : BOOLEAN]
          OBVIOUS
        <5> QED BY <4>1, <5>1
      <4>3. told' \in [Client!Attempts -> Seq(Results)] /\ managed' \in BOOLEAN
        BY <2>1 DEF ClientTypes
      <4> QED BY <1>6, <2>1, <2>5, <3>2, <4>1, <4>2, <4>3
    <3>3. ASSUME conn' = [conn EXCEPT ![n] = [c EXCEPT !.awaiting = TRUE]],
                 resolver' = resolver \cup {n}, telling' = telling
          PROVE  ClientInv'
      <4> DEFINE w == [c EXCEPT !.awaiting = TRUE]
      <4>1. w \in ConnRecords /\ w.timer /\ ~w.errEmit /\ ~w.fd /\ w.watched = "none"
        BY <3>1 DEF ConnRecords
      <4> HIDE DEF w
      <4>2. Att(n)' /\ conn' \in [Client!Attempts -> ConnRecords]
        BY <1>1, <1>4, <1>5, <2>1, <2>2, <2>3, <2>5, <3>3, <4>1, Begins DEF Idle, w
      <4>3. \A m \in Client!Attempts \ {n} : conn'[m] = conn[m]
        BY <3>3 DEF ClientTypes
      <4> QED BY <1>6, <2>1, <2>5, <3>3, <4>2, <4>3 DEF ClientTypes
    <3> QED BY <2>1, <2>5, <3>2, <3>3 DEF Client!ConnectL
  <2> QED BY <2>4, <2>5
<1>9. CASE h.do = "resolved"
  <2>1. UNCHANGED <<managed, resolver, told>>
        /\ IF n = attempt /\ conn[n].awaiting THEN Client!Connecting(n, conn[n], h.made)
                                              ELSE UNCHANGED <<conn, telling>>
    BY <1>2, <1>3, <1>9 DEF Client!RunTask, Client!Alive
  <2>2. /\ Pending("delete", n)' <=> Pending("delete", n)
        /\ Pending("err", n) => Pending("err", n)'
    BY <1>4, <1>9
  <2>3. CASE ~(n = attempt /\ conn[n].awaiting)
    <3>1. Att(n)'
      BY <1>1, <1>4, <1>5, <2>1, <2>2, <2>3, Untouched DEF Telling
    <3> QED BY <1>6, <2>1, <2>3, <3>1 DEF ClientTypes
  <2>4. CASE n = attempt /\ conn[n].awaiting
    <3>1. conn[n] \in ConnRecords /\ conn[n].timer /\ Undecided(n) /\ h.made \in BOOLEAN
      BY <1>5, <1>9, <2>4 DEF ClientTypes, Att, Single, ClientTasks
    <3>2. /\ Att(n)' /\ conn' \in [Client!Attempts -> ConnRecords]
          /\ telling' = telling \/ telling' = [n |-> n, ok |-> FALSE]
          /\ \A m \in Client!Attempts \ {n} : conn'[m] = conn[m]
      BY <1>1, <1>4, <1>5, <2>1, <2>2, <2>4, <3>1, ConnectingStep
    <3>3. telling' = telling \/ telling' \in [n : {n}, ok : BOOLEAN]
      <4>1. [n |-> n, ok |-> FALSE] \in [n : {n}, ok : BOOLEAN]
        OBVIOUS
      <4> QED BY <3>2, <4>1
    <3>4. told' \in [Client!Attempts -> Seq(Results)] /\ managed' \in BOOLEAN
      BY <2>1 DEF ClientTypes
    <3> QED BY <1>6, <2>1, <2>4, <3>2, <3>3, <3>4
  <2> QED BY <2>3, <2>4
<1>10. CASE h.do = "err"
  <2>1. UNCHANGED <<resolver, telling>>
        /\ IF n = attempt THEN Client!OnErr(n) ELSE UNCHANGED <<conn, managed, told>>
    BY <1>2, <1>3, <1>10 DEF Client!RunTask, Client!Alive
  <2>2. Pending("delete", n)' <=> Pending("delete", n)
    BY <1>4, <1>10
  <2>3. CASE n # attempt
    <3>1. Att(n)'
      BY <1>1, <1>4, <1>5, <2>1, <2>2, <2>3, Untouched DEF Telling
    <3> QED BY <1>6, <2>1, <2>3, <3>1 DEF ClientTypes
  <2>4. CASE n = attempt
    BY <1>1, <1>4, <1>5, <1>6, <2>1, <2>2, <2>4, ErrsOnce
  <2> QED BY <2>3, <2>4
<1>11. h.do \in {"delete", "connect", "err", "resolved"}
  BY DEF ClientTasks
<1> QED BY <1>7, <1>8, <1>9, <1>10, <1>11


\* A step of the client's attempt in which the queue may only grow by a task that
\* connects nothing.
LEMMA Grows ==
    ASSUME ClientInv, tasks' \in Seq(ClientTasks), Queue', attempt' = attempt,
           crossed' = crossed, managed' \in BOOLEAN,
           conn' \in [Client!Attempts -> ConnRecords], told' \in [Client!Attempts -> Seq(Results)],
           resolver' \subseteq resolver,
           telling' = telling \/ (telling' \in [n : {attempt}, ok : BOOLEAN] /\ telling = Client!None),
           \A d, n : d \in {"connect", "delete"} => (Pending(d, n)' <=> Pending(d, n)),
           \A n : Pending("err", n) => Pending("err", n)',
           attempt \in Client!Attempts, \A n : n = attempt => Att(n)',
           \A m \in Client!Attempts \ {attempt} : conn'[m] = conn[m] /\ told'[m] = told[m]
    PROVE  ClientInv'
<1> USE DEF ClientInv
<1>1. ClientTypes'
  BY DEF ClientTypes
<1>2. Crossing'
  BY DEF Crossing, Client!Busy, Client!None
<1>3. ASSUME NEW m \in Client!Attempts PROVE Att(m)'
  <2>1. CASE m # attempt
    <3>1. (Telling(m)' <=> Telling(m)) /\ (Telling(m) => telling' = telling)
      BY <2>1 DEF Telling, Client!None, Client!Attempts
    <3>2. conn'[m] = conn[m] /\ told'[m] = told[m]
      BY <2>1
    <3> QED BY <1>3, <2>1, <3>1, <3>2, Untouched DEF ClientInv
  <2> QED BY <2>1
<1>4. (\A m \in Client!Attempts : Att(m))'
  BY <1>3 DEF Client!Attempts
<1> QED BY <1>1, <1>2, <1>4

\* A step of the poller's thread, or of the timers, outside its tasks.
LEMMA HereStep ==
    ASSUME ClientInv, attempt # 0, UNCHANGED <<attempt, tasks, resolver, crossed>>,
           telling = Client!None, managed' \in BOOLEAN,
           conn' \in [Client!Attempts -> ConnRecords], told' \in [Client!Attempts -> Seq(Results)],
           telling' = Client!None \/ telling' \in [n : {attempt}, ok : BOOLEAN],
           \A n : n = attempt => Att(n)',
           \A m \in Client!Attempts \ {attempt} : conn'[m] = conn[m] /\ told'[m] = told[m]
    PROVE  ClientInv'
<1>1. tasks' \in Seq(ClientTasks) /\ Queue' /\ \A d, n : Pending(d, n)' <=> Pending(d, n)
  BY SameQueue DEF ClientInv
<1>2. attempt \in Client!Attempts
  BY DEF ClientInv, ClientTypes, Client!Attempts
<1> QED BY <1>1, <1>2, Grows


LEMMA ResolveStep ==
    ASSUME ClientInv, NEW n \in Client!Attempts, Client!Resolve(n)
    PROVE  ClientInv'
<1> USE DEF ClientInv
<1>1. PICK made \in BOOLEAN : Client!Post(<<[do |-> "resolved", n |-> n, made |-> made]>>)
  BY DEF Client!Resolve
<1> DEFINE e == [do |-> "resolved", n |-> n, made |-> made]
<1>2. /\ n \in resolver /\ resolver' = resolver \ {n}
      /\ UNCHANGED <<attempt, managed, conn, telling, told, crossed>>
  BY DEF Client!Resolve
<1>3. e \in ClientTasks /\ e.do = "resolved" /\ e.n = n /\ tasks' = tasks \o <<e>>
  BY <1>1 DEF ClientTasks, Client!Post
<1> HIDE DEF e
<1>4. tasks' = Append(tasks, e)
  BY <1>3, AppendIsConcat DEF ClientTypes
<1>5. n <= attempt
  BY <1>2 DEF Att, Unborn, Idle, ClientTypes, Client!Attempts
<1>6. /\ tasks' \in Seq(ClientTasks) /\ Queue'
      /\ \A d, m : Pending(d, m)' <=> Pending(d, m) \/ (e.do = d /\ e.n = m)
  BY <1>2, <1>3, <1>4, <1>5, PutOne DEF ClientTypes
<1>7. ClientTypes'
  BY <1>2, <1>6 DEF ClientTypes
<1>8. ASSUME NEW m \in Client!Attempts PROVE Att(m)'
  BY <1>2, <1>3, <1>6, <1>8, Untouched DEF Telling
<1>9. (\A m \in Client!Attempts : Att(m))'
  BY <1>8 DEF Client!Attempts
<1> QED BY <1>2, <1>6, <1>7, <1>9 DEF Crossing, Client!Busy

LEMMA ShutdownStep ==
    ASSUME ClientInv, Client!Shutdown
    PROVE  ClientInv'
<1> USE DEF ClientInv
<1>1. PICK n \in Client!Attempts : n = attempt
  BY DEF Client!Shutdown, ClientTypes
<1>2. /\ managed' = FALSE /\ UNCHANGED <<attempt, resolver, telling, told, crossed>>
      /\ conn[n] \in ConnRecords /\ Att(n)
  BY DEF Client!Shutdown, ClientTypes
<1>3. CASE conn[attempt].errEmit
  <2>1. UNCHANGED <<conn, tasks>>
    BY <1>3 DEF Client!Shutdown
  <2>2. /\ tasks' \in Seq(ClientTasks) /\ Queue'
        /\ \A d, m : Pending(d, m)' <=> Pending(d, m)
    BY <1>2, <2>1, SameQueue
  <2>3. Unborn(n)' /\ Single(n)' /\ Kept(n)'
    BY <1>2, <2>1, <2>2 DEF Att, Unborn, Idle, Undecided, Telling, Single, Kept, Failed
  <2>4. Informed(n)'
    BY <1>1, <1>2, <1>3, <2>1, <2>2 DEF Att, Informed, HasErr
  <2>5. \A m : m = attempt => Att(m)'
    BY <1>1, <2>3, <2>4 DEF Att
  <2> QED BY <1>1, <1>2, <2>1, <2>2, <2>5, Grows DEF ClientTypes
<1>4. CASE ~conn[attempt].errEmit
  <2> DEFINE e == [do |-> "err", n |-> n]
             c == [conn[n] EXCEPT !.errEmit = TRUE]
  <2>1. /\ conn' = [conn EXCEPT ![n] = c]
        /\ tasks' = tasks \o <<e>> /\ e \in ClientTasks /\ e.do = "err" /\ e.n = n
    BY <1>1, <1>4 DEF Client!Shutdown, Client!Post, ClientTasks
  <2>2. /\ c \in ConnRecords /\ c.errEmit /\ c.fd = conn[n].fd /\ c.watched = conn[n].watched
        /\ c.timer = conn[n].timer /\ c.awaiting = conn[n].awaiting
    BY <1>2 DEF ConnRecords
  <2> HIDE DEF e, c
  <2>3. conn' \in [Client!Attempts -> ConnRecords] /\ conn'[n] = c
        /\ \A m \in Client!Attempts \ {n} : conn'[m] = conn[m]
    BY <2>1, <2>2 DEF ClientTypes
  <2>4. tasks' = Append(tasks, e) /\ n \in Nat
    BY <2>1, AppendIsConcat DEF ClientTypes, Client!Attempts
  <2>5. /\ tasks' \in Seq(ClientTasks) /\ Queue'
        /\ \A d, m : Pending(d, m)' <=> Pending(d, m) \/ (e.do = d /\ e.n = m)
    BY <1>1, <1>2, <2>1, <2>4, PutOne DEF ClientTypes
  <2>6. Unborn(n)'
    BY <1>1, <1>2, <2>1, <2>2, <2>3, <2>4, <2>5 DEF Att, Unborn, Idle, Undecided, Telling
  <2>7. Single(n)'
    BY <1>2, <2>2, <2>3 DEF Att, Single, Undecided, Telling
  <2>8. Kept(n)'
    BY <1>2, <2>1, <2>2, <2>3, <2>5 DEF Att, Kept, Failed, Telling
  <2>9. Informed(n)'
    BY <2>1, <2>5 DEF Informed
  <2>10. \A m : m = attempt => Att(m)'
    BY <1>1, <2>6, <2>7, <2>8, <2>9 DEF Att
  <2> QED BY <1>1, <1>2, <2>1, <2>3, <2>5, <2>10, Grows DEF ClientTypes
<1> QED BY <1>3, <1>4

LEMMA DecidedStep ==
    ASSUME ClientInv, Client!Timeout \/ Client!OnConnected
    PROVE  ClientInv'
<1> USE DEF ClientInv
<1>1. PICK n \in Client!Attempts : n = attempt
  BY DEF Client!Timeout, Client!OnConnected, ClientTypes
<1>2. /\ telling = Client!None /\ UNCHANGED <<attempt, managed, tasks, resolver, told, crossed>>
      /\ conn[n] \in ConnRecords /\ Att(n) /\ attempt # 0
  BY DEF Client!Timeout, Client!OnConnected, Client!Busy, ClientTypes
<1>3. /\ tasks' \in Seq(ClientTasks) /\ Queue'
      /\ \A d, m : Pending(d, m)' <=> Pending(d, m)
  BY <1>2, SameQueue
<1>4. conn[n].timer /\ Undecided(n) /\ ~Pending("connect", n)
  BY <1>1, <1>2 DEF Client!Timeout, Client!OnConnected, Att, Single, Unborn, Idle
<1>5. PICK c \in ConnRecords, ok \in BOOLEAN :
          /\ Client!ConCb(n, c, ok) /\ (ok => c.fd /\ c.watched = "all")
          /\ c.errEmit => conn[n].errEmit
  <2>1. CASE Client!ConCb(n, conn[n], FALSE)
    BY <1>2, <2>1
  <2>2. CASE Client!OnConnected /\ ~Client!ConCb(n, conn[n], FALSE)
    <3> DEFINE w == [conn[n] EXCEPT !.watched = "all"]
    <3>1. Client!ConCb(n, w, TRUE) /\ conn[n].watched = "write"
      BY <1>1, <2>2 DEF Client!OnConnected
    <3>2. w \in ConnRecords /\ w.watched = "all" /\ w.fd = conn[n].fd /\ w.errEmit = conn[n].errEmit
      BY <1>2 DEF ConnRecords
    <3>3. conn[n].fd
      BY <1>2, <3>1 DEF Att, Kept
    <3> HIDE DEF w
    <3> QED BY <3>1, <3>2, <3>3
  <2> QED BY <1>1, <2>1, <2>2 DEF Client!Timeout
<1>6. Att(n)' /\ conn' \in [Client!Attempts -> ConnRecords] /\ telling' = [n |-> n, ok |-> ok]
  BY <1>1, <1>2, <1>3, <1>4, <1>5, Decides
<1>7. \A m \in Client!Attempts \ {n} : conn'[m] = conn[m] /\ told'[m] = told[m]
  BY <1>2, <1>5 DEF Client!ConCb, ClientTypes
<1>8. telling' \in [n : {attempt}, ok : BOOLEAN]
  BY <1>1, <1>6
<1> QED BY <1>1, <1>2, <1>6, <1>7, <1>8, HereStep DEF ClientTypes

LEMMA ErrStep ==
    ASSUME ClientInv, Client!ErrorEvent \/ Client!ShutdownHere
    PROVE  ClientInv'
<1> USE DEF ClientInv
<1>1. PICK n \in Client!Attempts : n = attempt
  BY DEF Client!ErrorEvent, Client!ShutdownHere, ClientTypes
<1>2. /\ telling = Client!None /\ UNCHANGED <<attempt, tasks, resolver, telling, crossed>>
      /\ Att(n) /\ attempt # 0
  BY DEF Client!ErrorEvent, Client!ShutdownHere, Client!Busy
<1>3. \A d, m : Pending(d, m)' <=> Pending(d, m)
  BY <1>2, SameQueue
<1>4. ~Pending("connect", n)
  <2>1. CASE Client!ErrorEvent
    BY <1>1, <1>2, <2>1 DEF Client!ErrorEvent, Att, Unborn, Idle
  <2>2. CASE Client!ShutdownHere
    <3>1. \A i \in DOMAIN tasks : tasks[i] # [do |-> "connect", n |-> n]
      BY <1>1, <2>2 DEF Client!ShutdownHere
    <3>2. \A t \in Range(tasks) : t \in ClientTasks /\ t # [do |-> "connect", n |-> n]
      BY <3>1, RangeType DEF ClientTypes, Range
    <3>3. \A t \in Range(tasks) : t.do = "connect" => t = [do |-> "connect", n |-> t.n]
      BY <3>2, TaskIs
    <3> QED BY <3>2, <3>3 DEF Pending
  <2> QED BY <2>1, <2>2
<1>5. CASE Client!OnErr(n)
  <2>1. /\ Att(n)' /\ conn' \in [Client!Attempts -> ConnRecords] /\ told' \in [Client!Attempts -> Seq(Results)]
        /\ managed' \in BOOLEAN
        /\ \A m \in Client!Attempts \ {n} : conn'[m] = conn[m] /\ told'[m] = told[m]
    BY <1>1, <1>2, <1>3, <1>4, <1>5, ErrsOnce
  <2> QED BY <1>1, <1>2, <2>1, HereStep
<1>6. CASE ~Client!OnErr(n)
  <2>1. UNCHANGED <<conn, told>> /\ conn[n].errEmit /\ managed' \in BOOLEAN
    BY <1>1, <1>6 DEF Client!ErrorEvent, Client!ShutdownHere, ClientTypes
  <2>2. Unborn(n)' /\ Single(n)' /\ Kept(n)'
    BY <1>2, <1>3, <2>1 DEF Att, Unborn, Idle, Undecided, Telling, Single, Kept, Failed
  <2>3. Informed(n)'
    BY <1>1, <1>2, <1>3, <2>1 DEF Att, Informed, HasErr
  <2>4. Att(n)'
    BY <2>2, <2>3 DEF Att
  <2> QED BY <1>1, <1>2, <2>1, <2>4, HereStep DEF ClientTypes
<1> QED BY <1>5, <1>6


LEMMA OnSockConnectStep ==
    ASSUME ClientInv, Client!OnSockConnect
    PROVE  ClientInv'
<1> USE DEF ClientInv
<1>1. telling \in [n : Client!Attempts, ok : BOOLEAN]
  BY DEF Client!OnSockConnect, Client!Busy, ClientTypes
<1>2. PICK n \in Client!Attempts, ok \in BOOLEAN : n = telling.n /\ ok = telling.ok
  BY <1>1
<1>3. PICK x \in {"ok", "fail"} : x = IF ok THEN "ok" ELSE "fail"
  OBVIOUS
<1>4. /\ telling' = Client!None /\ managed' = (managed /\ ok)
      /\ told' = [told EXCEPT ![n] = Append(told[n], x)]
      /\ UNCHANGED <<attempt, conn, tasks, resolver, crossed>>
  BY <1>2, <1>3 DEF Client!OnSockConnect
<1>5. /\ tasks' \in Seq(ClientTasks) /\ Queue'
      /\ \A d, m : Pending(d, m)' <=> Pending(d, m)
  BY <1>4, SameQueue
<1>6. /\ Att(n) /\ Telling(n) /\ told[n] = <<>> /\ DOMAIN told[n] = {}
  BY <1>2 DEF Telling, Att, Single
<1>7. /\ told' \in [Client!Attempts -> Seq(Results)] /\ told'[n] = <<x>>
      /\ \A m \in Client!Attempts \ {n} : told'[m] = told[m]
  <2>1. Append(told[n], x) = <<x>> /\ <<x>> \in Seq(Results)
    BY <1>6 DEF Results
  <2> QED BY <1>4, <2>1 DEF ClientTypes
<1>8. \A m \in Client!Attempts : ~Telling(m)'
  BY <1>4 DEF Telling, Client!None, Client!Attempts
<1>9. ClientTypes' /\ Crossing'
  <2>1. managed' \in BOOLEAN /\ telling' = Client!None
    BY <1>4
  <2>2. Crossing'
    BY <1>4 DEF Crossing, Client!Busy
  <2> QED BY <1>4, <1>5, <1>7, <2>1, <2>2 DEF ClientTypes
<1>10. Att(n)'
  <2>1. told'[n] # <<>> /\ told'[n][1] = x /\ DOMAIN told'[n] = {1}
    BY <1>7
  <2>2. (Failed(n)' <=> ~ok) /\ (Failed(n) <=> ~ok)
    BY <1>2, <1>3, <1>6, <1>8, <2>1 DEF Failed
  <2>3. Unborn(n)'
    BY <1>4, <1>5, <1>6 DEF Att, Unborn, Idle, Undecided
  <2>4. Single(n)'
    BY <1>4, <1>6, <1>8, <2>1 DEF Att, Single, Undecided
  <2>5. Kept(n)'
    BY <1>4, <1>5, <1>6, <2>2 DEF Att, Kept
  <2>6. ~HasErr(n) /\ ~HasErr(n)'
    BY <1>6, <2>1 DEF HasErr
  <2>7. Informed(n)'
    BY <1>4, <1>5, <1>6, <2>2, <2>6 DEF Att, Informed
  <2> QED BY <2>3, <2>4, <2>5, <2>7 DEF Att
<1>11. ASSUME NEW m \in Client!Attempts PROVE Att(m)'
  <2>1. CASE m # n
    <3>1. ~Telling(m) /\ (m = attempt => crossed)
      BY <1>2, <2>1 DEF Telling, Client!OnSockConnect, Crossing
    <3> QED BY <1>4, <1>5, <1>7, <1>8, <1>11, <2>1, <3>1, Untouched
  <2> QED BY <1>10, <2>1
<1>12. (\A m \in Client!Attempts : Att(m))'
  BY <1>11 DEF Client!Attempts
<1> QED BY <1>5, <1>9, <1>12

LEMMA ClientStep == ClientInv /\ [Client!Next]_(Client!clientVars) => ClientInv'
<1> SUFFICES ASSUME ClientInv, [Client!Next]_(Client!clientVars)
             PROVE  ClientInv'
  OBVIOUS
<1>1. CASE UNCHANGED Client!clientVars
  <2>1. UNCHANGED <<attempt, managed, conn, tasks, resolver, telling, told, crossed>>
    BY <1>1 DEF Client!clientVars
  <2>2. Queue' /\ \A d, m : Pending(d, m)' <=> Pending(d, m)
    BY <2>1, SameQueue DEF ClientInv
  <2>3. ASSUME NEW m \in Client!Attempts PROVE Att(m)'
    BY <2>1, <2>2, <2>3, Untouched DEF ClientInv, Telling
  <2>4. (\A m \in Client!Attempts : Att(m))'
    BY <2>3 DEF Client!Attempts
  <2> QED BY <2>1, <2>2, <2>4 DEF ClientInv, ClientTypes, Crossing, Client!Busy
<1>2. CASE Client!StartConnect
  BY <1>2, StartStep
<1>3. CASE Client!Shutdown
  BY <1>3, ShutdownStep
<1>4. CASE Client!RunTask
  BY <1>4, ClientTaskStep
<1>5. CASE Client!Timeout \/ Client!OnConnected
  BY <1>5, DecidedStep
<1>6. CASE Client!ErrorEvent \/ Client!ShutdownHere
  BY <1>6, ErrStep
<1>7. CASE Client!OnSockConnect
  BY <1>7, OnSockConnectStep
<1>8. ASSUME NEW n \in Client!Attempts, Client!Resolve(n) PROVE ClientInv'
  BY <1>8, ResolveStep
<1> QED BY <1>1, <1>2, <1>3, <1>4, <1>5, <1>6, <1>7, <1>8 DEF Client!Next

\* The module's own name for the size of a set.
LEMMA ClientCardinality == \A S : Client!Cardinality(S) = Cardinality(S)
BY DEF Client!Cardinality, Cardinality

LEMMA ClientSteps == [Next]_all => [Client!Next]_(Client!clientVars)
BY DEF Next, all, Delays, Connects, Serves, Sends, Waits, clientV, Client!clientVars

\* However the timer, the name server, the peer, shutdowns and new attempts race,
\* an attempt has one result and it comes before its error, no Socket keeps a
\* descriptor nobody closes, an open attempt has its timer, and so has the client.
THEOREM ConnectRightHolds == Spec => []ConnectRight
<1>1. ClientInv => Client!ConnectRight
  <2> SUFFICES ASSUME ClientInv PROVE Client!ConnectRight
    OBVIOUS
  <2>1. ASSUME NEW n \in Client!Attempts
        PROVE  /\ Att(n) /\ told[n] \in Seq(Results)
               /\ Len(told[n]) \in Nat /\ DOMAIN told[n] = 1..Len(told[n])
               /\ told[n] = <<>> <=> Len(told[n]) = 0
               /\ \A i \in DOMAIN told[n] : i > 1 => told[n][i] = "err"
    <3>1. Att(n) /\ told[n] \in Seq(Results)
      BY DEF ClientInv, ClientTypes
    <3> QED BY <3>1, LenProperties, EmptySeq DEF Att, Single
  <2>2. \A d, n : d # "resolved" /\ Pending(d, n) =>
            \E i \in DOMAIN tasks : tasks[i] = [do |-> d, n |-> n]
    <3> SUFFICES ASSUME NEW d, NEW n, d # "resolved", Pending(d, n)
                 PROVE  \E i \in DOMAIN tasks : tasks[i] = [do |-> d, n |-> n]
      OBVIOUS
    <3>1. PICK t \in Range(tasks) : t.do = d /\ t.n = n
      BY DEF Pending
    <3>2. t \in ClientTasks
      BY RangeType DEF ClientInv, ClientTypes
    <3>3. t = [do |-> d, n |-> n]
      BY <3>1, <3>2, TaskIs
    <3> QED BY <3>3 DEF Range
  <2>3. Client!OneResult
    <3> SUFFICES ASSUME NEW n \in Client!Attempts
                 PROVE  /\ Cardinality(Client!Said(n, {"ok", "fail"})) <= 1
                        /\ \A i \in Client!Said(n, {"err"}) : \A j \in Client!Said(n, {"ok", "fail"}) : j < i
      BY ClientCardinality DEF Client!OneResult
    <3>1. Client!Said(n, {"ok", "fail"}) \subseteq {1}
      BY <2>1 DEF Client!Said
    <3>2. IsFiniteSet({1}) /\ Cardinality({1}) = 1
      BY FS_Singleton
    <3>3. Cardinality(Client!Said(n, {"ok", "fail"})) <= 1
      BY <3>1, <3>2, FS_Subset
    <3>4. \A i \in Client!Said(n, {"err"}) : \A j \in Client!Said(n, {"ok", "fail"}) : j < i
      BY <2>1, <3>1 DEF Client!Said
    <3> QED BY <3>3, <3>4
  <2>4. Client!NoLeak
    <3> SUFFICES ASSUME NEW n \in Client!Attempts
                 PROVE  /\ conn[n].watched # "none" => conn[n].fd
                        /\ conn[n].fd /\ n # attempt =>
                              \E i \in DOMAIN tasks : tasks[i] = [do |-> "delete", n |-> n]
                        /\ Client!Said(n, {"fail"}) # {} => ~conn[n].fd
      BY DEF Client!NoLeak
    <3>1. Client!Said(n, {"fail"}) # {} => told[n] # <<>> /\ told[n][1] = "fail"
      BY <2>1 DEF Client!Said
    <3> QED BY <2>1, <2>2, <3>1 DEF Att, Kept, Failed
  <2>5. Client!Guarded
    BY <2>1 DEF Client!Guarded, Att, Single
  <2>6. Client!Managed
    <3>1. CASE attempt = 0
      BY <3>1 DEF Client!Managed
    <3>2. CASE attempt # 0
      <4>1. attempt \in Client!Attempts
        BY <3>2 DEF ClientInv, ClientTypes
      <4>2. Failed(attempt) =>
                (telling.n = attempt /\ ~telling.ok) \/ Client!Said(attempt, {"fail", "err"}) # {}
        BY <2>1, <4>1 DEF Failed, Telling, Client!Said
      <4>3. HasErr(attempt) => Client!Said(attempt, {"fail", "err"}) # {}
        BY DEF HasErr, Client!Said
      <4>4. managed \/ crossed \/ Failed(attempt) \/ HasErr(attempt) \/ Pending("err", attempt)
        BY <2>1, <4>1 DEF Att, Informed
      <4> QED BY <2>2, <4>2, <4>3, <4>4 DEF Client!Managed
    <3> QED BY <3>1, <3>2
  <2> QED BY <2>3, <2>4, <2>5, <2>6 DEF Client!ConnectRight
<1>2. Init => ClientInv
  BY ClientStart DEF Init
<1>3. ClientInv /\ [Next]_all => ClientInv'
  BY ClientStep, ClientSteps
<1> QED BY <1>1, <1>2, <1>3, PTL DEF Spec, ConnectRight
=============================================================================
