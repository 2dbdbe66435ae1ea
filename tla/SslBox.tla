------------------------------- MODULE SslBox -------------------------------
(***************************************************************************)
(* Two SSL_Box ends, of TcpClientWithSSL and of SessionWithSSL, over a     *)
(* connection.  What is sent before the handshake is over waits in         *)
(* _buffer_send; a callback that sends while the box is flushed only       *)
(* queues, and the flush under way must take it along.  The library is     *)
(* given by the flights of its handshake, of which the client sends the    *)
(* odd ones, and by one record for every piece of text.                    *)
(***************************************************************************)
EXTENDS Naturals, Sequences, SequencesExt

CONSTANTS MaxSends \* bound: pieces of text an end sends

VARIABLES flights, \* of the handshake: 3 or 4
          secure,  \* there is an _ssl; otherwise the text goes as it is
          box,     \* both ends
          net      \* the records on their way to an end

sslVars == <<flights, secure, box, net>>

Sides == {"client", "server"}
Other(e) == IF e = "client" THEN "server" ELSE "client"
Own(e) == IF e = "client" THEN 1 ELSE 0

Flight(n) == [kind |-> "flight", n |-> n]
Text(n) == [kind |-> "text", n |-> n]
Alert == [kind |-> "alert", n |-> 0]

Construct == [stage |-> 0,    \* flights sent and received
              read |-> <<>>, write |-> <<>>, \* _read_bio and _write_bio
              queue |-> <<>>, \* _buffer_send
              got |-> <<>>,   \* given to _on_dec
              out |-> <<>>,   \* given to _on_enc
              sent |-> 0, cut |-> FALSE, closed |-> FALSE, peerClosed |-> FALSE]

Init == /\ flights \in {3, 4} /\ secure \in BOOLEAN
        /\ box = [e \in Sides |-> Construct] /\ net = [e \in Sides |-> <<>>]

Finished(b) == b.stage = flights

-----------------------------------------------------------------------------
\* What the library makes of a record it reads, and of text it is given.

Advance(e, b) == IF b.stage < flights /\ (b.stage + 1) % 2 = Own(e)
                 THEN [b EXCEPT !.stage = @ + 1, !.write = Append(@, Flight(b.stage + 1))] ELSE b

ReadOne(e, b, r) == CASE r.kind = "flight" -> Advance(e, [b EXCEPT !.stage = r.n])
                      [] r.kind = "text"   -> [b EXCEPT !.got = Append(@, r.n)]
                      [] r.kind = "alert"  -> [b EXCEPT !.peerClosed = TRUE]

\* A client that reads or writes before it has begun begins the handshake.
Begin(e, b) == IF b.stage = 0 THEN Advance(e, b) ELSE b

-----------------------------------------------------------------------------
\* flushReadBio reads all there is; the callback may send.
FlushReadBio(e, b) == FoldLeft(LAMBDA acc, r : ReadOne(e, acc, r),
                               Begin(e, [b EXCEPT !.read = <<>>]), b.read)

Pushed(b, n) == [b EXCEPT !.queue = @ \o [i \in 1..n |-> Text(b.sent + i)], !.sent = @ + n]

\* flushWriteBio hands everything to _on_enc, with what is encrypted now.
FlushWriteBio(b) == [b EXCEPT !.write = <<>>, !.queue = <<>>, !.out = b.write \o b.queue]

\* mutant: the handshake is asked about before the records are read
FlushStale(e, b, replies) ==
    LET c == Pushed(FlushReadBio(e, b), replies)
    IN  IF Finished(b) \/ c.queue = <<>> THEN FlushWriteBio(c)
        ELSE [FlushWriteBio([c EXCEPT !.queue = <<>>]) EXCEPT !.queue = c.queue]

\* Text waits for the end of the handshake.  Once the alert is written no text can
\* be: the queue goes, and the records stay.
Flush(e, b, replies) ==
    LET c == Pushed(FlushReadBio(e, b), replies)
    IN  IF c.queue = <<>> THEN FlushWriteBio(c)
        ELSE IF ~Finished(c)
        THEN [FlushWriteBio([c EXCEPT !.queue = <<>>]) EXCEPT !.queue = c.queue]
        ELSE IF c.closed THEN [c EXCEPT !.queue = <<>>]
        ELSE FlushWriteBio(c)

\* The box of e is flushed, the first n records on their way to it being read.
Flushed(e, b, replies, n) ==
    LET c == Flush(e, b, replies)
    IN  /\ box' = [box EXCEPT ![e] = [c EXCEPT !.out = <<>>]]
        /\ net' = [net EXCEPT ![e] = SubSeq(@, n + 1, Len(@)), ![Other(e)] = @ \o c.out]
        /\ UNCHANGED <<flights, secure>>

-----------------------------------------------------------------------------
\* A segment with any number of records; the application answers what it likes.
OnRecv(e, n) ==
    LET seg == SubSeq(net[e], 1, n)
    IN  /\ n <= Len(net[e])
        /\ \/ /\ secure
              /\ \E replies \in 0..1 :
                    /\ replies > 0 => /\ box[e].sent < MaxSends
                                     /\ \E r \in ToSet(seg) : r.kind = "text"
                    /\ Flushed(e, [box[e] EXCEPT !.read = seg], replies, n)
           \/ /\ ~secure
              /\ box' = [box EXCEPT ![e].got = @ \o [i \in 1..n |-> seg[i].n]]
              /\ net' = [net EXCEPT ![e] = SubSeq(@, n + 1, Len(@))]
              /\ UNCHANGED <<flights, secure>>

OnSend(e) ==
    /\ box[e].sent < MaxSends
    /\ \/ secure /\ Flushed(e, Pushed(Begin(e, box[e]), 1), 0, 0)
       \/ /\ ~secure
          /\ box' = [box EXCEPT ![e].sent = @ + 1]
          /\ net' = [net EXCEPT ![Other(e)] = Append(@, Text(box[e].sent + 1))]
          /\ UNCHANGED <<flights, secure>>

\* SSL_shutdown says 1 only when the peer has closed before; otherwise the alert
\* stays in _write_bio until the box is flushed again.
Shutdown(e) ==
    /\ secure /\ ~box[e].cut
    /\ LET b == [box[e] EXCEPT !.queue = <<>>, !.cut = TRUE]
           c == IF Finished(b) THEN [b EXCEPT !.closed = TRUE, !.write = Append(@, Alert)] ELSE b
       IN  IF c.closed /\ c.peerClosed THEN Flushed(e, c, 0, 0)
           ELSE box' = [box EXCEPT ![e] = c] /\ UNCHANGED <<flights, secure, net>>

\* ~SessionWithSSL flushes.
Leave(e) == secure /\ box[e].write # <<>> /\ Flushed(e, box[e], 0, 0)

Next == \E e \in Sides : \/ OnSend(e) \/ Shutdown(e) \/ Leave(e)
                         \/ \E n \in 1..Len(net[e]) : OnRecv(e, n)

Spec == Init /\ [][Next]_sslVars

-----------------------------------------------------------------------------
TextOf(q) == [i \in 1..Len(SelectSeq(q, LAMBDA r : r.kind = "text")) |->
                 SelectSeq(q, LAMBDA r : r.kind = "text")[i].n]

\* Text arrives in the order it was sent, nothing is lost unless the sender shut
\* its box, and nothing waits at an end: the queue is empty once the handshake is
\* over, and a box keeps no record of its own but an alert.
SslRight == \A e \in Sides :
    LET b   == box[e]
        way == box[Other(e)].got \o TextOf(net[Other(e)]) \o TextOf(b.queue)
    IN  /\ \A i \in 1..(Len(way) - 1) : way[i] < way[i + 1]
        /\ ~b.cut => Len(way) = b.sent
        /\ Finished(b) => b.queue = <<>>
        /\ ToSet(b.write) \subseteq {Alert}
=============================================================================
