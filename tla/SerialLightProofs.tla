-------------------------- MODULE SerialLightProofs --------------------------
(* Proofs about SerialLight: IInv is inductive, for every value of the     *)
(* constants, and with it the invariants the model checker looks at.       *)
EXTENDS SerialLight, SequenceTheorems, TLAPS

(* The units the controller sends and the line damages are units.          *)
LEMMA UnitTypes ==
    /\ Ack \in Unit
    /\ Bad \in Unit
    /\ \A v \in Values : Head_(v) \in Unit /\ Tail_(v) \in Unit
  BY DEF Ack, Bad, Head_, Tail_, Unit, Values, NoData

(* What Deliver may do to the input queue: nothing new appears in it but   *)
(* the units delivered and damaged ones.                                   *)
LEMMA DeliverAdds ==
    ASSUME TypeOK, NEW us \in Seq(Unit), Deliver(us)
    PROVE  /\ rx' \in Seq(Unit)
           /\ Len(rx') <= MaxRx
           /\ ~portOpen => rx' = rx
           /\ \A i \in 1 .. Len(rx') :
                 \/ rx'[i] = Bad
                 \/ \E j \in 1 .. Len(rx) : rx'[i] = rx[j]
                 \/ \E j \in 1 .. Len(us) : rx'[i] = us[j]
<1>1. CASE rx' = rx
  BY <1>1, SerialAssumption DEF TypeOK
<1>2. CASE portOpen /\ Len(rx) + Len(us) <= MaxRx
             /\ \E d \in Damaged(us) : rx' = rx \o d
  <2>1. PICK d \in Damaged(us) : rx' = rx \o d
    BY <1>2
  <2>2. /\ d \in Seq(Unit)
        /\ Len(d) = Len(us)
        /\ \A i \in 1 .. Len(us) : d[i] = us[i] \/ d[i] = Bad
    <3>1. CASE d = us
      BY <3>1
    <3>2. CASE \E i \in 1 .. Len(us) : d = [us EXCEPT ![i] = Bad]
      <4>1. PICK i \in 1 .. Len(us) : d = [us EXCEPT ![i] = Bad]
        BY <3>2
      <4> QED
        BY <4>1, UnitTypes, ExceptSeq
    <3> QED
      BY <3>1, <3>2 DEF Damaged
  <2>3. /\ rx' \in Seq(Unit)
        /\ Len(rx') = Len(rx) + Len(us)
        /\ \A i \in 1 .. Len(rx') :
             rx'[i] = IF i <= Len(rx) THEN rx[i] ELSE d[i - Len(rx)]
    <3>1. rx \in Seq(Unit)
      BY DEF TypeOK
    <3> QED
      BY <2>1, <2>2, <3>1, ConcatProperties
  <2>4. ASSUME NEW i \in 1 .. Len(rx')
        PROVE  \/ rx'[i] = Bad
               \/ \E j \in 1 .. Len(rx) : rx'[i] = rx[j]
               \/ \E j \in 1 .. Len(us) : rx'[i] = us[j]
    <3>0. Len(rx) \in Nat /\ Len(us) \in Nat
      BY LenProperties DEF TypeOK
    <3>1. CASE i <= Len(rx)
      BY <3>0, <3>1, <2>3
    <3>2. CASE i > Len(rx)
      <4>1. i - Len(rx) \in 1 .. Len(us)
        BY <3>0, <3>2, <2>3
      <4> QED
        BY <3>0, <3>2, <4>1, <2>2, <2>3
    <3> QED
      BY <3>0, <3>1, <3>2, <2>3
  <2> QED
    BY <1>2, <2>3, <2>4
<1> QED
  BY <1>1, <1>2 DEF Deliver

(* Every exit of a call preserves the invariant, provided a result other   *)
(* than ERR_FAIL is backed by an ack and, if a report was taken, by it.    *)
LEMMA ReturnPreserves ==
    ASSUME IInv, NEW r \in {ERR_FAIL, ERR_OK, 1}, Return(r),
           op' = op, UNCHANGED device, hist' \in Hist,
           r # ERR_FAIL => hist'.acked,
           r # ERR_FAIL /\ hist'.answer \in {0, 1} =>
              /\ hist'.answer \in hist'.seen
              /\ hist'.answer = IF op.kind = "set" THEN op.val ELSE r
    PROVE  IInv'
<1>1. TypeOK'
  <2>1. r \in {NoRet, ERR_FAIL, ERR_OK, 1}
    OBVIOUS
  <2>2. /\ <<>> \in Seq(Unit) /\ Len(<<>>) = 0
        /\ 0 <= MaxRx /\ 0 <= BuffUnits
    BY EmptySeq, SerialAssumption
  <2> QED
    BY <2>1, <2>2 DEF IInv, TypeOK, Return, device
<1>2. PortReleased'
  BY DEF PortReleased, Return
<1>3. SuccessNeedsAck'
  BY DEF SuccessNeedsAck, Return, ERR_OK, ERR_FAIL
<1>4. ReportIsCurrent'
  BY DEF ReportIsCurrent, Return
<1>5. CallStage'
  BY EmptySeq DEF CallStage, UnitsSeen, Return
<1> QED
  BY <1>1, <1>2, <1>3, <1>4, <1>5 DEF IInv

(* The initial states satisfy the invariant.                               *)
LEMMA InitInv == Init => IInv
<1> SUFFICES ASSUME Init PROVE IInv
  OBVIOUS
<1>1. TypeOK
  <2>1. /\ rx \in Seq(Unit) /\ Len(rx) <= MaxRx
        /\ got \in Seq(Unit) /\ Len(got) <= BuffUnits
        /\ inbox \in Seq(Op) /\ Len(inbox) <= MaxInbox
    BY EmptySeq, SerialAssumption DEF Init
  <2>2. op \in Op /\ hist \in Hist
    BY DEF Init, Op, Query, Hist, NoHist, NoAnswer
  <2> QED
    BY <2>1, <2>2 DEF Init, TypeOK
<1>2. PortReleased /\ SuccessNeedsAck /\ ReportIsCurrent
  BY DEF Init, PortReleased, SuccessNeedsAck, ReportIsCurrent, NoHist,
         NoAnswer, NoRet, ERR_OK, ERR_FAIL
<1>3. CallStage
  BY EmptySeq DEF Init, CallStage, UnitsSeen
<1> QED
  BY <1>1, <1>2, <1>3 DEF IInv

(* The head of the input queue can be taken: what stays was there.         *)
LEMMA TakeHead ==
    ASSUME TypeOK, rx # <<>>
    PROVE  /\ Head(rx) \in Unit
           /\ Head(rx) = rx[1]
           /\ 1 \in 1 .. Len(rx)
           /\ Tail(rx) \in Seq(Unit)
           /\ Len(Tail(rx)) <= MaxRx
           /\ \A i \in 1 .. Len(Tail(rx)) :
                 i + 1 \in 1 .. Len(rx) /\ Tail(rx)[i] = rx[i + 1]
<1>1. rx \in Seq(Unit) /\ Len(rx) <= MaxRx /\ MaxRx \in Nat
  BY SerialAssumption DEF TypeOK
<1>2. Len(rx) \in Nat \ {0}
  BY <1>1, EmptySeq
<1> QED
  BY <1>1, <1>2, HeadTailProperties

LEMMA CallPreserves ==
    ASSUME IInv, NEW o \in Op, Call(o)
    PROVE  IInv'
<1>1. NoHist \in Hist
  BY DEF NoHist, Hist, NoAnswer
<1>2. TypeOK'
  BY <1>1 DEF IInv, TypeOK, Call, device
<1>3. PortReleased' /\ SuccessNeedsAck' /\ ReportIsCurrent'
  BY DEF IInv, Call, PortReleased, SuccessNeedsAck, ReportIsCurrent
<1>4. rx' = <<>> /\ got' = <<>> /\ ~portOpen'
  BY DEF IInv, Call, PortReleased
<1>5. CallStage'
  BY <1>4, EmptySeq DEF Call, CallStage, UnitsSeen, NoHist
<1> QED
  BY <1>2, <1>3, <1>5 DEF IInv

LEMMA OpenPreserves ==
    ASSUME IInv, Open
    PROVE  IInv'
<1>1. CASE Return(-1) /\ UNCHANGED <<op, device, hist>>
  <2>1. -1 = ERR_FAIL /\ hist' \in Hist
    BY <1>1 DEF ERR_FAIL, IInv, TypeOK
  <2> QED
    BY <1>1, <2>1, ReturnPreserves
<1>2. CASE /\ pc' = "send"
           /\ portOpen' = TRUE
           /\ rx' = <<>>
           /\ hup' = FALSE
           /\ hist' = [hist EXCEPT !.seen = {light}]
           /\ UNCHANGED <<op, got, ret, inbox, light, pend>>
  <2>1. hist' \in Hist /\ hist'.answer = hist.answer /\ hist'.seen = {light}
    BY <1>2 DEF IInv, TypeOK, Hist
  <2>2. rx' \in Seq(Unit) /\ Len(rx') <= MaxRx
    BY <1>2, EmptySeq, SerialAssumption
  <2>3. TypeOK'
    BY <1>2, <2>1, <2>2 DEF IInv, TypeOK
  <2>4. PortReleased' /\ SuccessNeedsAck' /\ ReportIsCurrent'
    BY <1>2 DEF PortReleased, SuccessNeedsAck, ReportIsCurrent
  <2>5. got' = <<>>
    BY <1>2 DEF Open, IInv, PortReleased
  <2>6. CallStage'
    BY <1>2, <2>1, <2>5, EmptySeq DEF Open, IInv, CallStage, UnitsSeen
  <2> QED
    BY <2>3, <2>4, <2>6 DEF IInv
<1> QED
  BY <1>1, <1>2 DEF Open

LEMMA SendPreserves ==
    ASSUME IInv, Send
    PROVE  IInv'
<1>1. /\ hist' \in Hist
      /\ hist'.answer = hist.answer
      /\ hist'.seen = hist.seen
  BY DEF Send, IInv, TypeOK, Hist
<1>2. inbox' \in Seq(Op) /\ Len(inbox') <= MaxInbox
  <2>1. /\ inbox \in Seq(Op) /\ Len(inbox) <= MaxInbox /\ op \in Op
        /\ MaxInbox \in Nat /\ Len(inbox) \in Nat
    BY SerialAssumption, LenProperties DEF IInv, TypeOK
  <2>2. CASE inbox' = inbox
    BY <2>1, <2>2
  <2>3. CASE inbox' = Append(inbox, op) /\ Len(inbox) < MaxInbox
    BY <2>1, <2>3, AppendProperties
  <2> QED
    BY <2>2, <2>3 DEF Send
<1>3. TypeOK'
  BY <1>1, <1>2 DEF Send, IInv, TypeOK
<1>4. PortReleased' /\ SuccessNeedsAck' /\ ReportIsCurrent'
  BY DEF Send, IInv, PortReleased, SuccessNeedsAck, ReportIsCurrent
<1>5. CallStage'
  BY <1>1 DEF Send, IInv, CallStage, UnitsSeen
<1> QED
  BY <1>3, <1>4, <1>5 DEF IInv

LEMMA WaitAckPreserves ==
    ASSUME IInv, WaitAck
    PROVE  IInv'
<1>1. CASE pc' = "recvAck" /\ UNCHANGED <<op, portOpen, rx, got, ret>>
  BY <1>1 DEF WaitAck, IInv, TypeOK, PortReleased, SuccessNeedsAck,
              ReportIsCurrent, CallStage, UnitsSeen, device
<1>2. CASE Return(ERR_FAIL) /\ UNCHANGED op
  <2>1. hist' \in Hist
    BY DEF WaitAck, IInv, TypeOK
  <2> QED
    BY <1>2, <2>1, ReturnPreserves DEF WaitAck
<1> QED
  BY <1>1, <1>2 DEF WaitAck

LEMMA RecvAckPreserves ==
    ASSUME IInv, RecvAck
    PROVE  IInv'
<1>1. CASE Head(rx) = Ack
  <2>1. /\ pc = "recvAck" /\ pc' = "waitBuf"
        /\ rx' = Tail(rx) /\ rx # <<>>
        /\ hist' = [hist EXCEPT !.acked = TRUE]
        /\ UNCHANGED <<op, portOpen, got, ret, device>>
    BY <1>1 DEF RecvAck
  <2>2. /\ hist' \in Hist /\ hist'.acked
        /\ hist'.answer = hist.answer
        /\ hist'.seen = hist.seen
    BY <2>1 DEF IInv, TypeOK, Hist
  <2>3. TypeOK'
    BY <2>1, <2>2, TakeHead DEF IInv, TypeOK, device
  <2>4. PortReleased' /\ SuccessNeedsAck' /\ ReportIsCurrent'
    BY <2>1 DEF IInv, PortReleased, SuccessNeedsAck, ReportIsCurrent
  <2>5. UnitsSeen(rx)'
    BY <2>1, <2>2, TakeHead DEF IInv, CallStage, UnitsSeen
  <2>6. CallStage'
    BY <2>1, <2>2, <2>5 DEF IInv, CallStage, UnitsSeen, device
  <2> QED
    BY <2>3, <2>4, <2>6 DEF IInv
<1>2. CASE Head(rx) # Ack
  <2>1. hist' \in Hist
    BY <1>2 DEF RecvAck, IInv, TypeOK
  <2> QED
    BY <1>2, <2>1, ReturnPreserves DEF RecvAck
<1> QED
  BY <1>1, <1>2

LEMMA WaitBufPreserves ==
    ASSUME IInv, WaitBuf
    PROVE  IInv'
<1>1. CASE pc' = "recvBuf" /\ UNCHANGED <<op, portOpen, rx, got, ret>>
  BY <1>1 DEF WaitBuf, IInv, TypeOK, PortReleased, SuccessNeedsAck,
              ReportIsCurrent, CallStage, UnitsSeen, device
<1>2. CASE Return(ERR_OK) /\ UNCHANGED op
  <2>1. hist' \in Hist /\ hist'.acked /\ hist'.answer = NoAnswer
    BY DEF WaitBuf, IInv, TypeOK, CallStage
  <2>2. hist'.answer \notin {0, 1}
    BY <2>1 DEF NoAnswer
  <2> QED
    BY <1>2, <2>1, <2>2, ReturnPreserves DEF WaitBuf
<1> QED
  BY <1>1, <1>2 DEF WaitBuf

LEMMA RecvBufPreserves ==
    ASSUME IInv, RecvBuf
    PROVE  IInv'
<1> DEFINE u == Head(rx)
<1>1. /\ got \in Seq(Unit) /\ Len(got) \in Nat /\ BuffUnits \in Nat
      /\ u \in Unit /\ Len(got) < BuffUnits
  BY TakeHead, SerialAssumption, LenProperties DEF RecvBuf, IInv, TypeOK
<1>2. /\ got' \in Seq(Unit) /\ Len(got') = Len(got) + 1
      /\ \A i \in 1 .. Len(got) : got'[i] = got[i]
      /\ got'[Len(got) + 1] = u
  BY <1>1, AppendProperties DEF RecvBuf
<1>3. TypeOK'
  BY <1>1, <1>2, TakeHead DEF RecvBuf, IInv, TypeOK, device
<1>4. PortReleased' /\ SuccessNeedsAck' /\ ReportIsCurrent'
  BY DEF RecvBuf, IInv, PortReleased, SuccessNeedsAck, ReportIsCurrent
<1>5. UnitsSeen(rx)'
  BY TakeHead DEF RecvBuf, IInv, CallStage, UnitsSeen
<1>6. UnitsSeen(got)'
  <2>1. u.val \in {0, 1} => u.val \in hist.seen
    BY TakeHead DEF RecvBuf, IInv, CallStage, UnitsSeen
  <2>2. \A i \in 1 .. Len(got') : i \in 1 .. Len(got) \/ i = Len(got) + 1
    BY <1>1, <1>2
  <2> QED
    BY <1>1, <1>2, <2>1, <2>2 DEF RecvBuf, IInv, CallStage, UnitsSeen
<1>7. CallStage'
  BY <1>5, <1>6 DEF RecvBuf, IInv, CallStage, device
<1> QED
  BY <1>3, <1>4, <1>7 DEF IInv

(* The end of recBuff, reached by a full buffer, by silence or by an error *)
(* of read.                                                                *)
LEMMA AnalysePreserves ==
    ASSUME IInv, pc = "recvBuf", Analyse
    PROVE  IInv'
<1>1. CASE /\ ReportIn(got)
           /\ op.kind = "set" => DataByte(got[2].val) = op.val
  <2> DEFINE v == got[2].val
  <2>1. /\ pc' = "sendAck"
        /\ hist' = [hist EXCEPT !.answer = v]
        /\ UNCHANGED <<op, portOpen, rx, got, ret, device>>
    BY <1>1 DEF Analyse
  <2>2. 2 \in 1 .. Len(got) /\ got[2] \in Unit
    BY <1>1, ElementOfSeq, LenProperties DEF ReportIn, IInv, TypeOK
  <2>3. v \in Values
    BY <2>2 DEF Unit
  <2>4. /\ hist' \in Hist /\ hist'.answer = v
        /\ hist'.acked = hist.acked
        /\ hist'.seen = hist.seen
    BY <2>1, <2>3 DEF IInv, TypeOK, Hist
  <2>5. TypeOK'
    BY <2>1, <2>4 DEF IInv, TypeOK, device
  <2>6. PortReleased' /\ SuccessNeedsAck' /\ ReportIsCurrent'
    BY <2>1 DEF IInv, PortReleased, SuccessNeedsAck, ReportIsCurrent
  <2>7. v \in {0, 1} => v \in hist.seen
    BY <2>2 DEF IInv, CallStage, UnitsSeen
  <2>8. CallStage'
    BY <1>1, <2>1, <2>3, <2>4, <2>7 DEF IInv, CallStage, UnitsSeen, device
  <2> QED
    BY <2>5, <2>6, <2>8 DEF IInv
<1>2. CASE ~ (/\ ReportIn(got)
              /\ op.kind = "set" => DataByte(got[2].val) = op.val)
  <2>1. Return(ERR_FAIL) /\ UNCHANGED <<op, device, hist>>
    BY <1>2 DEF Analyse
  <2>2. hist' \in Hist
    BY <2>1 DEF IInv, TypeOK
  <2> QED
    BY <2>1, <2>2, ReturnPreserves
<1> QED
  BY <1>1, <1>2

LEMMA ReadErrorPreserves ==
    ASSUME IInv, ReadError
    PROVE  IInv'
<1>1. CASE pc = "recvAck" /\ Return(ERR_FAIL) /\ UNCHANGED <<op, device, hist>>
  <2>1. hist' \in Hist
    BY <1>1 DEF IInv, TypeOK
  <2> QED
    BY <1>1, <2>1, ReturnPreserves
<1>2. CASE pc = "recvBuf" /\ Analyse
  BY <1>2, AnalysePreserves
<1> QED
  BY <1>1, <1>2 DEF ReadError

LEMMA SendAckPreserves ==
    ASSUME IInv, SendAck
    PROVE  IInv'
<1> DEFINE r == IF op.kind = "set" THEN ERR_OK ELSE DataByte(hist.answer)
<1>1. /\ pc = "sendAck" /\ Return(r) /\ UNCHANGED <<op, device>>
      /\ hist' \in Hist /\ hist'.acked /\ hist'.seen = hist.seen
      /\ hist'.answer = hist.answer /\ hist.answer \in Values
  BY DEF SendAck, IInv, TypeOK, CallStage, Hist
<1>2. r \in {ERR_FAIL, ERR_OK, 1}
  BY <1>1 DEF ERR_OK, DataByte, Values, NoData
<1>3. hist.answer \in {0, 1} =>
         /\ hist.answer \in hist.seen
         /\ hist.answer = IF op.kind = "set" THEN op.val ELSE r
  BY <1>1 DEF IInv, CallStage, DataByte, NoData
<1> QED
  BY <1>1, <1>2, <1>3, ReturnPreserves

(* A step of the controller changes nothing of the host but its input, and *)
(* the values in that input are values the lamp had.                       *)
LEMMA DeviceStep ==
    ASSUME IInv, NEW us \in Seq(Unit), Deliver(us), UNCHANGED host,
           hist' \in Hist, inbox' \in Seq(Op), Len(inbox') <= MaxInbox,
           light' \in {0, 1}, pend' \in BOOLEAN, hup' \in BOOLEAN,
           hist'.acked = hist.acked, hist'.answer = hist.answer,
           hist'.seen = IF portOpen THEN hist.seen \cup {light'} ELSE hist.seen,
           portOpen => \A i \in 1 .. Len(us) :
                          us[i].val \in {0, 1} => us[i].val \in hist'.seen
    PROVE  IInv'
<1>1. /\ rx' \in Seq(Unit)
      /\ Len(rx') <= MaxRx
      /\ ~portOpen => rx' = rx
      /\ \A i \in 1 .. Len(rx') :
            \/ rx'[i] = Bad
            \/ \E j \in 1 .. Len(rx) : rx'[i] = rx[j]
            \/ \E j \in 1 .. Len(us) : rx'[i] = us[j]
  BY DeliverAdds DEF IInv
<1>2. TypeOK'
  BY <1>1 DEF IInv, TypeOK, host
<1>3. PortReleased' /\ SuccessNeedsAck' /\ ReportIsCurrent'
  BY <1>1 DEF IInv, PortReleased, SuccessNeedsAck, ReportIsCurrent, host
<1>4. UnitsSeen(rx)'
  <2>1. Bad.val \notin {0, 1}
    BY DEF Bad, NoData
  <2>2. CASE portOpen
    BY <1>1, <2>1, <2>2 DEF IInv, CallStage, UnitsSeen
  <2>3. CASE ~portOpen
    BY <1>1, <2>3 DEF IInv, CallStage, UnitsSeen
  <2> QED
    BY <2>2, <2>3
<1>5. UnitsSeen(got)'
  BY DEF IInv, CallStage, UnitsSeen, host
<1>6. CallStage'
  BY <1>4, <1>5 DEF IInv, CallStage, host
<1> QED
  BY <1>2, <1>3, <1>6 DEF IInv

LEMMA SeenOnly ==
    ASSUME hist \in Hist, NEW v \in {0, 1}
    PROVE  /\ Seen(hist, v) \in Hist
           /\ Seen(hist, v).acked = hist.acked
           /\ Seen(hist, v).answer = hist.answer
           /\ Seen(hist, v).applied = hist.applied
           /\ Seen(hist, v).seen =
                IF portOpen THEN hist.seen \cup {v} ELSE hist.seen
  BY DEF Seen, Hist

LEMMA DevCommandPreserves ==
    ASSUME IInv, DevCommand
    PROVE  IInv'
<1> DEFINE c == Head(inbox)
<1>1. /\ c \in Op /\ inbox' \in Seq(Op) /\ Len(inbox') <= MaxInbox
  <2>1. inbox \in Seq(Op) /\ inbox # <<>> /\ Len(inbox) <= MaxInbox
        /\ MaxInbox \in Nat
    BY SerialAssumption DEF DevCommand, IInv, TypeOK
  <2>2. Len(inbox) \in Nat
    BY <2>1, LenProperties
  <2> QED
    BY <2>1, <2>2, HeadTailProperties DEF DevCommand
<1>2. light' \in {0, 1}
  BY <1>1 DEF DevCommand, IInv, TypeOK, Op, Query
<1>3. Seen(hist, light') \in Hist
  BY <1>2, SeenOnly DEF IInv, TypeOK
<1>4. /\ hist' \in Hist
      /\ hist'.acked = Seen(hist, light').acked
      /\ hist'.answer = Seen(hist, light').answer
      /\ hist'.seen = Seen(hist, light').seen
  BY <1>3 DEF DevCommand, Hist
<1>5. <<Ack>> \in Seq(Unit) /\ Len(<<Ack>>) = 1 /\ <<Ack>>[1] = Ack
  BY UnitTypes
<1>6. Ack.val \notin {0, 1}
  BY DEF Ack, NoData
<1>7. /\ hist'.acked = hist.acked /\ hist'.answer = hist.answer
      /\ hist'.seen = IF portOpen THEN hist.seen \cup {light'} ELSE hist.seen
  BY <1>2, <1>4, SeenOnly DEF IInv, TypeOK
<1>8. /\ Deliver(<<Ack>>) /\ UNCHANGED host
      /\ pend' \in BOOLEAN /\ hup' \in BOOLEAN
  BY DEF DevCommand, IInv, TypeOK
<1>9. \A i \in 1 .. Len(<<Ack>>) :
         <<Ack>>[i].val \in {0, 1} => <<Ack>>[i].val \in hist'.seen
  BY <1>5, <1>6
<1> QED
  BY <1>1, <1>2, <1>4, <1>5, <1>7, <1>8, <1>9, DeviceStep

LEMMA DevReportPreserves ==
    ASSUME IInv, DevReport
    PROVE  IInv'
<1>1. PICK v \in {light, NoData} : Deliver(<<Head_(v), Tail_(v)>>)
  BY DEF DevReport
<1> DEFINE us == <<Head_(v), Tail_(v)>>
<1>2. v \in Values
  BY <1>1 DEF IInv, TypeOK, Values
<1>3. us \in Seq(Unit)
  BY <1>2, UnitTypes
<1>4. /\ Len(us) = 2 /\ us[1].val = v /\ us[2].val = v
  BY DEF Head_, Tail_
<1>5. /\ UNCHANGED <<host, inbox, light, hup, hist>>
      /\ hist \in Hist /\ light \in {0, 1} /\ pend' \in BOOLEAN
      /\ hup \in BOOLEAN /\ inbox \in Seq(Op) /\ Len(inbox) <= MaxInbox
  BY DEF DevReport, IInv, TypeOK
<1>6. portOpen => light \in hist.seen
  BY DEF IInv, CallStage
<1>7. hist.seen = IF portOpen THEN hist.seen \cup {light} ELSE hist.seen
  BY <1>6
<1>8. portOpen => \A i \in 1 .. Len(us) :
         us[i].val \in {0, 1} => us[i].val \in hist.seen
  <2>1. portOpen /\ v \in {0, 1} => v \in hist.seen
    BY <1>6 DEF NoData
  <2>2. \A i \in 1 .. Len(us) : us[i].val = v
    BY <1>4
  <2> QED
    BY <2>1, <2>2
<1> QED
  BY <1>1, <1>3, <1>5, <1>7, <1>8, DeviceStep

LEMMA WallSwitchPreserves ==
    ASSUME IInv, WallSwitch
    PROVE  IInv'
<1>1. light' \in {0, 1}
  BY DEF WallSwitch, IInv, TypeOK
<1>2. /\ hist' \in Hist /\ hist'.acked = hist.acked
      /\ hist'.answer = hist.answer
      /\ hist'.seen = IF portOpen THEN hist.seen \cup {light'} ELSE hist.seen
  BY <1>1, SeenOnly DEF WallSwitch, IInv, TypeOK
<1>3. TypeOK'
  BY <1>1, <1>2 DEF WallSwitch, IInv, TypeOK, host
<1>4. PortReleased' /\ SuccessNeedsAck' /\ ReportIsCurrent'
  BY <1>2 DEF WallSwitch, IInv, PortReleased, SuccessNeedsAck,
              ReportIsCurrent, host
<1>5. CallStage'
  BY <1>2 DEF WallSwitch, IInv, CallStage, UnitsSeen, host
<1> QED
  BY <1>3, <1>4, <1>5 DEF IInv

LEMMA HangUpPreserves ==
    ASSUME IInv, HangUp
    PROVE  IInv'
  BY DEF HangUp, IInv, TypeOK, PortReleased, SuccessNeedsAck,
         ReportIsCurrent, CallStage, UnitsSeen, host

(* A step that changes nothing, which ReadZero is, too.                    *)
LEMMA StutterPreserves ==
    ASSUME IInv, UNCHANGED vars
    PROVE  IInv'
  BY DEF vars, IInv, TypeOK, PortReleased, SuccessNeedsAck,
         ReportIsCurrent, CallStage, UnitsSeen

LEMMA NextInv == IInv /\ [Next]_vars => IInv'
<1> SUFFICES ASSUME IInv, [Next]_vars PROVE IInv'
  OBVIOUS
<1>1. ASSUME NEW o \in Op, Call(o) PROVE IInv'
  BY <1>1, CallPreserves
<1>2. CASE Open
  BY <1>2, OpenPreserves
<1>3. CASE Send
  BY <1>3, SendPreserves
<1>4. CASE WaitAck
  BY <1>4, WaitAckPreserves
<1>5. CASE RecvAck
  BY <1>5, RecvAckPreserves
<1>6. CASE WaitBuf
  BY <1>6, WaitBufPreserves
<1>7. CASE RecvBuf
  BY <1>7, RecvBufPreserves
<1>8. CASE RecvBufDone
  BY <1>8, AnalysePreserves DEF RecvBufDone
<1>9. CASE ReadError
  BY <1>9, ReadErrorPreserves
<1>10. CASE ReadZero
  BY <1>10, StutterPreserves DEF ReadZero
<1>11. CASE SendAck
  BY <1>11, SendAckPreserves
<1>12. CASE DevCommand
  BY <1>12, DevCommandPreserves
<1>13. CASE DevReport
  BY <1>13, DevReportPreserves
<1>14. CASE WallSwitch
  BY <1>14, WallSwitchPreserves
<1>15. CASE HangUp
  BY <1>15, HangUpPreserves
<1>16. CASE UNCHANGED vars
  BY <1>16, StutterPreserves
<1> QED
  BY <1>1, <1>2, <1>3, <1>4, <1>5, <1>6, <1>7, <1>8, <1>9, <1>10, <1>11,
     <1>12, <1>13, <1>14, <1>15, <1>16 DEF Next

(* IInv is an invariant of the serial light control.                       *)
THEOREM IInvHolds == Spec => []IInv
  BY InitInv, NextInv, PTL DEF Spec

(* Every variable keeps its type, every queue and buffer its bound.        *)
THEOREM TypeOKHolds == Spec => []TypeOK
<1>1. IInv => TypeOK
  BY DEF IInv
<1> QED
  BY <1>1, IInvHolds, PTL

(* A call closes the port it opened on every path out of it.               *)
THEOREM PortReleasedHolds == Spec => []PortReleased
<1>1. IInv => PortReleased
  BY DEF IInv
<1> QED
  BY <1>1, IInvHolds, PTL

(* A call returns a value other than an error only if it was accepted.     *)
THEOREM SuccessNeedsAckHolds == Spec => []SuccessNeedsAck
<1>1. IInv => SuccessNeedsAck
  BY DEF IInv
<1> QED
  BY <1>1, IInvHolds, PTL

(* A value taken from a report is one the lamp had during the call.        *)
THEOREM ReportIsCurrentHolds == Spec => []ReportIsCurrent
<1>1. IInv => ReportIsCurrent
  BY DEF IInv
<1> QED
  BY <1>1, IInvHolds, PTL
=============================================================================
