------------------------------ MODULE TxControl ------------------------------
(***************************************************************************)
(* How packets leave a transmit queue: the transmission control callback   *)
(* decides which of them go out now (etcpTxTc of test.c, the one           *)
(* implementation there is), and doEtcpNetTx hands those to the hardware.  *)
(*                                                                         *)
(* A slot holds a data packet [type "DAT", seq, noAck, txState,            *)
(* txAttempts] or an acknowledgement [type "ACK", base, sackCount, fields, *)
(* txState].  Time is left out: which of the packets on their way have     *)
(* been out for longer than their timeout is an argument.                  *)
(***************************************************************************)
EXTENDS CircularQueue, SequencesExt

CONSTANT AttemptLimit   \* transmissions after which the callback gives up: 10

ASSUME AttemptLimitAssumption == AttemptLimit \in Nat

Packet(q, s) == q.buff[Idx(s)]

WithPacket(q, s, p) == [q EXCEPT !.buff[Idx(s)] = p]

-----------------------------------------------------------------------------
(* etcpTxTc                                                                *)

\* The numbers the callback's loops go through
ReadNumbers(q) == q.rdMin .. q.rdMax - 1

\* They go from rdMin to the first number that stops them.
FirstStopped(q, stops) == Min(stops \cup {q.rdMax})

\* The numbers of q in S marked to be sent now
MarkedNow(q, S) ==
  [q EXCEPT !.buff =
    [j \in Slots |-> IF \E s \in S : Idx(s) = j
                     THEN [q.buff[j] EXCEPT !.txState = "NOW"] ELSE q.buff[j]]]

AckScanEnd(q) == FirstStopped(q, {s \in ReadNumbers(q) : ~Valid(q, s)})

\* Every acknowledgement that is ready goes.
TcAcks(q) ==
  MarkedNow(q, {s \in q.rdMin .. AckScanEnd(q) - 1 : Packet(q, s).txState = "RDY"})

TcMaxAck(q) == AckScanEnd(q) - q.rdMin

\* The data loop ends at a hole, and at a packet that is not ready.
DatScanEnd(q) ==
  FirstStopped(q, {s \in ReadNumbers(q) :
                    ~Valid(q, s) \/ Packet(q, s).txState # "RDY"})

DatScanned(q) == q.rdMin .. DatScanEnd(q) - 1

\* Sent for the first time, or again when its timeout is over
TcData(q, late) ==
  MarkedNow(q, {s \in DatScanned(q) : Packet(q, s).txAttempts = 0 \/ s \in late})

TcMaxDat(q) == DatScanEnd(q) - q.rdMin

\* The callback ends the process over a packet that timed out too often.
TcGivesUp(q, late) ==
  \E s \in DatScanned(q) \cap late : Packet(q, s).txAttempts > AttemptLimit

-----------------------------------------------------------------------------
(* doEtcpNetTx                                                             *)

DatFrame(p) == [type |-> "DAT", seq |-> p.seq, noAck |-> p.noAck]

AckFrame(p) ==
  [type |-> "ACK", base |-> p.base, sackCount |-> p.sackCount, fields |-> p.fields]

Frame(p) == IF p.type = "DAT" THEN DatFrame(p) ELSE AckFrame(p)

\* Seeded fault: every packet is let go of once it is sent.
AfterSendForgets(q, i, p) == cqReleaseSlot(q, i)

\* Seeded fault: attempts are not counted.
AfterSendUncounted(q, i, p) ==
  IF p.type = "ACK" \/ p.noAck THEN cqReleaseSlot(q, i) ELSE q

\* Seeded fault: a packet that wants no answer is marked to be dropped, and stays.
AfterSendDrops(q, i, p) ==
  IF p.type = "ACK" THEN cqReleaseSlot(q, i)
  ELSE WithPacket(q, i, [p EXCEPT !.txAttempts = @ + 1,
                                  !.txState = IF p.noAck THEN "DRP" ELSE @])

\* What becomes of the packet once the hardware took the call: an answer of
\* zero, no capacity, counts as sent.
AfterSend(q, i, p) ==
  IF p.type = "ACK" THEN cqReleaseSlot(q, i)
  ELSE LET r == WithPacket(q, i, [p EXCEPT !.txAttempts = @ + 1])
       IN IF p.noAck THEN cqReleaseSlot(r, i) ELSE r

\* Seeded fault: an error of the hardware goes unnoticed.
HwFailsNever(hw, i) == FALSE

HwFails(hw, i) == hw[Idx(i)] = "error"

\* One iteration for number i.  The bounds are read again every time: they
\* move as slots are released.  An empty slot is passed over; a number the
\* window has left behind (a release can carry rdSeq over a hole) ends the
\* loop.  A packet is made ready again before it is sent, so that a hardware
\* error, which ends the loop too, leaves it ready.
SendSlot(call, run, i) ==
  LET q == run.q
      p == Packet(q, i)
      ready == [p EXCEPT !.txState = "RDY"]
      q1 == WithPacket(q, i, ready)
  IN IF ~run.on THEN run
     ELSE IF i >= q.rdMax \/ i >= q.rdMin + call.maxSlots THEN [run EXCEPT !.on = FALSE]
     ELSE IF cqGetRdErr(q, i) = "cqEWRONGSLOT" THEN run
     ELSE IF cqGetRdErr(q, i) # "cqENOERR" THEN [run EXCEPT !.on = FALSE]
     ELSE IF p.txState = "DRP" THEN [run EXCEPT !.q = cqReleaseSlot(q, i)]
     ELSE IF p.txState # "NOW" THEN run
     ELSE IF HwFails(call.hw, i) THEN [run EXCEPT !.q = q1, !.on = FALSE]
     ELSE [run EXCEPT
            !.q = AfterSend(q1, i, ready),
            !.sent = IF call.hw[Idx(i)] = "sent" THEN @ \cup {Frame(p)} ELSE @]

SendLoop == INSTANCE Iteration WITH Step <- SendSlot

\* The queue and the frames that reached the wire.  hw is what the hardware
\* answers for the packet of each slot: "sent", "full" (0) or "error" (< 0).
doEtcpNetTx(q, maxSlots, hw) ==
  SendLoop!After([maxSlots |-> maxSlots, hw |-> hw],
                 [q |-> q, sent |-> {}, on |-> TRUE],
                 [k \in 1 .. SlotCount + 1 |-> q.rdMin + k - 1])
=============================================================================
