----------------------------- MODULE SerialLight -----------------------------
(***************************************************************************)
(* The serial light control of com/ComFunc.cpp over com/ComDrive.cpp and   *)
(* com/ComPack.cpp: comLightControl (the "set" calls) and                  *)
(* comLightStateControl (the "query" calls), the tty they open for each    *)
(* call, and the light controller at the other end of the line.            *)
(*                                                                         *)
(* One call is the exchange                                                *)
(*     command ->   <- acceptance ack   <- report   report ack ->          *)
(* and no frame carries a sequence number, so what a frame answers is told *)
(* only by when it arrives.                                                *)
(*                                                                         *)
(* Input is modelled in units of 7 bytes, the size of an ack: an ack is    *)
(* one unit, a report of one data byte (6 bytes of pack, 8 of frame) is a  *)
(* "head" and a "tail" unit.  recAck takes exactly one unit, recBuff up to *)
(* BuffUnits of them (100 bytes in the code).  A damaged or negative frame *)
(* is "bad": every check of analysisAck and analysisPack rejects it.       *)
(***************************************************************************)
EXTENDS Integers, Sequences

CONSTANTS MaxRx,      \* units the tty's input queue holds
          MaxInbox,   \* commands on their way to the controller
          BuffUnits,  \* units recBuff reads at most: sizeof RecvBuff
          Hangups     \* whether the line may hang up (read then returns 0)

ASSUME SerialAssumption ==
    /\ MaxRx \in Nat /\ MaxRx >= 2
    /\ MaxInbox \in Nat \ {0}
    /\ BuffUnits \in Nat /\ BuffUnits >= 2
    /\ Hangups \in BOOLEAN

VARIABLES pc,        \* where the calling thread is
          op,        \* the call in progress, or the last one
          portOpen,  \* com_open succeeded and com_close has not run
          rx,        \* units waiting in the tty's input queue
          got,       \* units com_recv has put into RecvBuff
          ret,       \* what the last call returned
          inbox,     \* commands written and not yet handled
          light,     \* the lamp
          pend,      \* the controller has a report to send
          hup,       \* the line has hung up
          hist       \* what happened in the call (for the properties only)

host == <<pc, op, portOpen, got, ret>>
device == <<inbox, light, pend, hup>>
vars == <<pc, op, portOpen, rx, got, ret, inbox, light, pend, hup, hist>>

(* Return values (utils/ErrCode.h).  NoRet: no call has returned yet.      *)
ERR_OK == 0
ERR_FAIL == -1
NoRet == 1000

(* The data byte of a report: off, on, or a frame without data             *)
(* (frameLen = 7), for which recvBuff[0] keeps its memset value.           *)
NoData == 2
Values == {0, 1, NoData}
DataByte(v) == IF v = NoData THEN 0 ELSE v

Unit == [kind : {"ack", "bad", "head", "tail"}, val : Values]
Ack == [kind |-> "ack", val |-> NoData]
Bad == [kind |-> "bad", val |-> NoData]
Head_(v) == [kind |-> "head", val |-> v]
Tail_(v) == [kind |-> "tail", val |-> v]

Query == [kind |-> "query", val |-> 0]
Op == [kind : {"set"}, val : {0, 1}] \cup {Query}

NoAnswer == 3
Hist == [seen : SUBSET {0, 1},      \* what the lamp was while the port was open
         applied : BOOLEAN,         \* the lamp took this call's command
         acked : BOOLEAN,           \* recAck took a valid ack
         answer : Values \cup {NoAnswer}] \* the report recBuff accepted

NoHist == [seen |-> {}, applied |-> FALSE, acked |-> FALSE, answer |-> NoAnswer]

-----------------------------------------------------------------------------
Init ==
    /\ pc = "idle"
    /\ op = Query
    /\ portOpen = FALSE
    /\ rx = <<>>
    /\ got = <<>>
    /\ ret = NoRet
    /\ inbox = <<>>
    /\ light \in {0, 1}
    /\ pend = FALSE
    /\ hup = FALSE
    /\ hist = NoHist

(* Every way out of a call closes the port (when it was opened) and        *)
(* returns r.  Closing a tty discards its unread input.                    *)
Return(r) ==
    /\ pc' = "idle"
    /\ ret' = r
    /\ portOpen' = FALSE
    /\ rx' = <<>>
    /\ got' = <<>>

(* A click: openLight(0), openLight(1) or openLightState.                  *)
Call(o) ==
    /\ pc = "idle"
    /\ op' = o
    /\ pc' = "open"
    /\ hist' = NoHist
    /\ UNCHANGED <<portOpen, rx, got, ret, device>>

(* com_open: open(2) may fail; the call then returns -1.                   *)
Open ==
    /\ pc = "open"
    /\ \/ /\ Return(-1)
          /\ UNCHANGED <<op, device, hist>>
       \/ /\ pc' = "send"
          /\ portOpen' = TRUE
          /\ rx' = <<>>
          /\ hup' = FALSE
          /\ hist' = [hist EXCEPT !.seen = {light}]
          /\ UNCHANGED <<op, got, ret, inbox, light, pend>>

(* SendPacketIn.  A short write makes it return ERR_IOSEND, which is 10    *)
(* and passes the caller's test ret < 0: the call goes on to recAck.  A    *)
(* complete write may still be lost on the line.                           *)
Send ==
    /\ pc = "send"
    /\ pc' = "waitAck"
    /\ \/ /\ Len(inbox) < MaxInbox
          /\ inbox' = Append(inbox, op)
       \/ inbox' = inbox
    /\ UNCHANGED <<op, portOpen, rx, got, ret, light, pend, hup, hist>>

(* com_wait returns 0 when there is input, or when the line has hung up.   *)
Readable == rx # <<>> \/ hup

(* Mutant: the timeout is treated as recBuff's is.                         *)
WaitAckTimeoutOk ==
    /\ pc = "waitAck"
    /\ \/ /\ Readable
          /\ pc' = "recvAck"
          /\ UNCHANGED <<op, portOpen, rx, got, ret>>
       \/ /\ Return(ERR_OK)
          /\ UNCHANGED op
    /\ UNCHANGED <<device, hist>>

(* recAck's com_wait.  1 (timeout) and -1 (select failed, which a signal   *)
(* can cause at any time) both become ERR_TIME_OUT, and ERR_FAIL outside.  *)
WaitAck ==
    /\ pc = "waitAck"
    /\ \/ /\ Readable
          /\ pc' = "recvAck"
          /\ UNCHANGED <<op, portOpen, rx, got, ret>>
       \/ /\ Return(ERR_FAIL)
          /\ UNCHANGED op
    /\ UNCHANGED <<device, hist>>

(* recAck's com_recv of ACK_LEN bytes and analysisAck.                     *)
RecvAck ==
    /\ pc = "recvAck"
    /\ rx # <<>>
    /\ IF Head(rx) = Ack
       THEN /\ pc' = "waitBuf"
            /\ rx' = Tail(rx)
            /\ hist' = [hist EXCEPT !.acked = TRUE]
            /\ UNCHANGED <<portOpen, got, ret>>
       ELSE Return(ERR_FAIL) /\ UNCHANGED hist
    /\ UNCHANGED <<op, device>>

(* Mutant: the early return of a timeout forgets com_close.                *)
WaitBufNoClose ==
    /\ pc = "waitBuf"
    /\ \/ /\ Readable
          /\ pc' = "recvBuf"
          /\ UNCHANGED <<op, portOpen, rx, got, ret>>
       \/ /\ pc' = "idle"
          /\ ret' = ERR_OK
          /\ UNCHANGED <<op, portOpen, rx, got>>
    /\ UNCHANGED <<device, hist>>

(* recBuff's com_wait, of one second.  Its ERR_TIME_OUT, which again also  *)
(* stands for a failed select, is not a failure of the call.               *)
WaitBuf ==
    /\ pc = "waitBuf"
    /\ \/ /\ Readable
          /\ pc' = "recvBuf"
          /\ UNCHANGED <<op, portOpen, rx, got, ret>>
       \/ /\ Return(ERR_OK)
          /\ UNCHANGED op
    /\ UNCHANGED <<device, hist>>

(* One read of com_recv in recBuff.                                        *)
RecvBuf ==
    /\ pc = "recvBuf"
    /\ rx # <<>>
    /\ Len(got) < BuffUnits
    /\ got' = Append(got, Head(rx))
    /\ rx' = Tail(rx)
    /\ UNCHANGED <<pc, op, portOpen, ret, device, hist>>

(* analysisPack and analysisFrame look at the start of the buffer only: a  *)
(* report must start there, whatever follows it is dropped.                *)
ReportIn(buf) ==
    /\ Len(buf) >= 2
    /\ buf[1].kind = "head"
    /\ buf[2].kind = "tail"
    /\ buf[1].val = buf[2].val

(* Mutant: comLightControl does not compare the report with its argument.  *)
AnalyseNoCompare ==
    /\ IF ReportIn(got)
       THEN /\ pc' = "sendAck"
            /\ hist' = [hist EXCEPT !.answer = got[2].val]
            /\ UNCHANGED <<portOpen, rx, got, ret>>
       ELSE Return(ERR_FAIL) /\ UNCHANGED hist
    /\ UNCHANGED <<op, device>>

(* The end of recBuff, and what the caller does with its result: a set     *)
(* call compares the report with its argument, a query does not.           *)
Analyse ==
    /\ IF /\ ReportIn(got)
          /\ op.kind = "set" => DataByte(got[2].val) = op.val
       THEN /\ pc' = "sendAck"
            /\ hist' = [hist EXCEPT !.answer = got[2].val]
            /\ UNCHANGED <<portOpen, rx, got, ret>>
       ELSE Return(ERR_FAIL) /\ UNCHANGED hist
    /\ UNCHANGED <<op, device>>

(* Mutant: com_recv waits without a timeout until RecvBuff is full.        *)
RecvBufDoneWhenFull ==
    /\ pc = "recvBuf"
    /\ Len(got) = BuffUnits
    /\ Analyse

(* com_recv returns: RecvBuff is full, or the line was silent for a second *)
RecvBufDone ==
    /\ pc = "recvBuf"
    /\ Len(got) = BuffUnits \/ (rx = <<>> /\ ~hup)
    /\ Analyse

(* read(2) fails with something else than EAGAIN: com_recv returns what it *)
(* has, which is nothing in recAck.                                        *)
ReadError ==
    \/ /\ pc = "recvAck"
       /\ Return(ERR_FAIL)
       /\ UNCHANGED <<op, device, hist>>
    \/ /\ pc = "recvBuf"
       /\ Analyse

(* On a line that has hung up read(2) returns 0: com_recv adds 0 to k and  *)
(* reads again, without waiting.                                           *)
ReadZero ==
    /\ pc = "recvAck" \/ (pc = "recvBuf" /\ Len(got) < BuffUnits)
    /\ rx = <<>>
    /\ hup
    /\ UNCHANGED vars

(* sendAck.  A short write returns ERR_IOSEND, again not negative, and a    *)
(* lost ack is not missed: the controller does not wait for it.            *)
SendAck ==
    /\ pc = "sendAck"
    /\ Return(IF op.kind = "set" THEN ERR_OK ELSE DataByte(hist.answer))
    /\ UNCHANGED <<op, device, hist>>

-----------------------------------------------------------------------------
(* The controller and the line (external).                                 *)

(* A frame of the controller reaches the tty while it is open and has      *)
(* room; any of its units may be damaged on the way.                       *)
Damaged(us) == {us} \cup {[us EXCEPT ![i] = Bad] : i \in 1 .. Len(us)}

Deliver(us) ==
    IF portOpen /\ ~hup /\ Len(rx) + Len(us) <= MaxRx
    THEN \E d \in Damaged(us) : rx' = rx \o d
    ELSE rx' = rx

(* The values the lamp takes while the port is open.                       *)
Seen(h, v) == IF portOpen THEN [h EXCEPT !.seen = @ \cup {v}] ELSE h

(* The controller accepts a command, possibly long after its call is over: *)
(* it switches the lamp, acknowledges, and will report.                    *)
DevCommand ==
    /\ inbox # <<>>
    /\ LET c == Head(inbox) IN
       /\ light' = IF c.kind = "set" THEN c.val ELSE light
       /\ hist' = [Seen(hist, light') EXCEPT
                     !.applied = @ \/ (pc # "idle" /\ c = op)]
    /\ inbox' = Tail(inbox)
    /\ pend' = TRUE
    /\ Deliver(<<Ack>>)
    /\ UNCHANGED <<host, hup>>

(* The controller reports the state of the lamp, with or without data.     *)
DevReport ==
    /\ pend
    /\ pend' = FALSE
    /\ \E v \in {light, NoData} : Deliver(<<Head_(v), Tail_(v)>>)
    /\ UNCHANGED <<host, inbox, light, hup, hist>>

(* Somebody uses the wall switch.                                          *)
WallSwitch ==
    /\ light' = 1 - light
    /\ hist' = Seen(hist, light')
    /\ pend' = TRUE
    /\ UNCHANGED <<host, rx, inbox, hup>>

HangUp ==
    /\ Hangups
    /\ portOpen
    /\ ~hup
    /\ hup' = TRUE
    /\ UNCHANGED <<host, rx, inbox, light, pend, hist>>

-----------------------------------------------------------------------------
HostStep == Open \/ Send \/ WaitAck \/ RecvAck \/ WaitBuf \/ RecvBuf
            \/ RecvBufDone \/ SendAck

Next ==
    \/ \E o \in Op : Call(o)
    \/ Open \/ Send \/ WaitAck \/ RecvAck \/ WaitBuf \/ RecvBuf
    \/ RecvBufDone \/ ReadError \/ ReadZero \/ SendAck
    \/ DevCommand \/ DevReport \/ WallSwitch \/ HangUp

Spec == Init /\ [][Next]_vars

(* The calling thread runs, and its timeouts elapse.  Nothing is assumed   *)
(* of the controller, the line, or the user.                               *)
FairSpec == Spec /\ WF_vars(HostStep)

-----------------------------------------------------------------------------
(* Each variable has its type and each queue keeps its bound.              *)
TypeOK ==
    /\ pc \in {"idle", "open", "send", "waitAck", "recvAck", "waitBuf",
               "recvBuf", "sendAck"}
    /\ op \in Op
    /\ portOpen \in BOOLEAN
    /\ rx \in Seq(Unit) /\ Len(rx) <= MaxRx
    /\ got \in Seq(Unit) /\ Len(got) <= BuffUnits
    /\ ret \in {NoRet, ERR_FAIL, ERR_OK, 1}
    /\ inbox \in Seq(Op) /\ Len(inbox) <= MaxInbox
    /\ light \in {0, 1}
    /\ pend \in BOOLEAN
    /\ hup \in BOOLEAN
    /\ hist \in Hist

(* Whichever of its exits a call takes, the descriptor com_open gave it is *)
(* closed by then and never twice, and no byte of it stays buffered.       *)
PortReleased ==
    /\ portOpen <=> pc \notin {"idle", "open"}
    /\ ~portOpen => rx = <<>> /\ got = <<>>

(* comLightControl and comLightStateControl return a value other than an   *)
(* error only when the controller's acceptance arrived during the call:    *)
(* silence, a refusal, a damaged ack or a report in its place never count. *)
SuccessNeedsAck ==
    pc = "idle" /\ ret \in {ERR_OK, 1} => hist.acked

(* A call that returns after taking a report with data returns what the    *)
(* lamp was while the call ran (for a set call, the state it asked for),   *)
(* although reports are not numbered and unsolicited ones arrive, too.     *)
ReportIsCurrent ==
    pc = "idle" /\ hist.answer \in {0, 1} /\ ret # ERR_FAIL =>
        /\ hist.answer \in hist.seen
        /\ hist.answer = IF op.kind = "set" THEN op.val ELSE ret

(* Every call of comLightControl and comLightStateControl returns, however *)
(* much the controller sends: the reads are bounded in size and in time.   *)
(* Only a line that hangs up can keep com_recv reading for ever.           *)
CallReturns == pc # "idle" ~> pc = "idle" \/ hup

(* What makes the properties above inductive: the values in flight are     *)
(* values the lamp had, and each stage of a call remembers the one before. *)
UnitsSeen(us) ==
    \A i \in 1 .. Len(us) : us[i].val \in {0, 1} => us[i].val \in hist.seen

CallStage ==
    /\ portOpen => light \in hist.seen
    /\ UnitsSeen(rx) /\ UnitsSeen(got)
    /\ pc \in {"waitBuf", "recvBuf", "sendAck"} => hist.acked
    /\ pc \notin {"sendAck", "idle"} => hist.answer = NoAnswer
    /\ pc = "sendAck" =>
         /\ hist.answer \in Values
         /\ hist.answer \in {0, 1} => hist.answer \in hist.seen
         /\ op.kind = "set" => DataByte(hist.answer) = op.val

IInv == TypeOK /\ PortReleased /\ SuccessNeedsAck /\ ReportIsCurrent /\ CallStage

(* The claim of ComFunc.h for comLightControl, 0 is success: the lamp took *)
(* the command of this call.                                               *)
ZeroMeansSwitched ==
    pc = "idle" /\ op.kind = "set" /\ ret = ERR_OK => hist.applied
=============================================================================
