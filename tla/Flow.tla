-------------------------------- MODULE Flow --------------------------------
(***************************************************************************)
(* One direction of a connection, end to end: a client that sends          *)
(* (etcpSend, and the polls of its network that take acknowledgements in), *)
(* a server that receives and acknowledges (etcpRecv, etcpSend without     *)
(* data), and the Ethernet between them.  The queues are those of          *)
(* CircularQueue, the acknowledgements those of AckGeneration, the packets *)
(* sent those of TxControl.                                                *)
(*                                                                         *)
(* Each side is a single thread.  A call is one step, but for etcpRecv,    *)
(* whose receive loop takes packets while the client goes on sending: it   *)
(* begins, takes one packet per step, and ends.  The connection exists on  *)
(* both sides; a packet's data is known by its number.                     *)
(***************************************************************************)
EXTENDS AckGeneration, TxControl

CONSTANTS
  MaxPkts,         \* bound: packets the client makes
  Burst,           \* packets the data of one etcpSend needs at most
  MaxStale,        \* bound: packets in the stale list
  NoAckSeqs,       \* the packets with the noAck flag
  DatHeaderFound,  \* FALSE as the code stands: etcpOnRxDat uses a pointer to
                   \* the data header that nobody set
  AckHeaderSized,  \* FALSE as the code stands: etcpOnRxAck subtracts a header
                   \* size that nobody set
  Lossy, Duplicating, InOrder,  \* what the network does
  Premature,       \* a timeout may end while packet or answer is on its way
  Polls,           \* the server's network is also polled outside etcpRecv
  HwResults,       \* what the server's hardware answers to a transmission
  ClientHwResults, \* and the client's
  JunkFields       \* what may lie behind tmpBuff on the stack

ASSUME FlowAssumption ==
  /\ MaxPkts \in Nat /\ Burst \in Nat \ {0}
  /\ MaxStale \in Nat /\ NoAckSeqs \subseteq Nat
  /\ {DatHeaderFound, AckHeaderSized, Lossy, Duplicating, InOrder,
      Premature, Polls} \subseteq BOOLEAN
  /\ HwResults \cup ClientHwResults \subseteq {"sent", "full", "error"}
  /\ JunkFields # {} /\ JunkFields \subseteq [offset : Nat, count : Nat]

VARIABLES
  snd,        \* the client's sendConn: [txQ, rxQ, seqSnd]
  rcv,        \* the server's recvConn: [rxQ, ackQ, staleQ, seqAck]
  call,       \* where the server's etcpRecv is: "idle", or in the receive
              \* loop with no packet yet ("none") or some ("some"), or past
              \* it after a packet found its slot taken ("stopped")
  wire,       \* the frames on their way, in both directions
  delivered,  \* the messages etcpRecv has handed over, in their order
  ended       \* "no", "exited" (the client called exit), "crashed" (the server)

vars == <<snd, rcv, call, wire, delivered, ended>>

\* What the hardware may answer for the packets waiting in q, by their slots
ClientHw(q) == [{j \in Slots : q.valid[j]} -> ClientHwResults]
ServerHw(q) == [{j \in Slots : q.valid[j]} -> HwResults]

Init ==
  /\ snd = [txQ |-> cqNew, rxQ |-> cqNew, seqSnd |-> 0]
  /\ rcv = [rxQ |-> cqNew, ackQ |-> cqNew, staleQ |-> <<>>, seqAck |-> 0]
  /\ call = "idle"
  /\ wire = {}
  /\ delivered = <<>>
  /\ ended = "no"

\* The numbers an acknowledgement names
Named(f) ==
  UNION { {f.base + f.fields[k].offset + j : j \in 0 .. f.fields[k].count - 1} :
          k \in DOMAIN f.fields }

Acks == {f \in wire : f.type = "ACK"}
Dats == {f \in wire : f.type = "DAT"}

-----------------------------------------------------------------------------
(* The client                                                              *)

\* Seeded fault: a number is used up although no slot was found.
PacketMadeOrNot(c) ==
  LET q == Commit(c.txQ, c.txQ.wrSeq, [type |-> "DAT", seq |-> c.seqSnd,
             noAck |-> c.seqSnd \in NoAckSeqs, txState |-> "RDY", txAttempts |-> 0])
  IN [c EXCEPT !.txQ = IF cqGetNextWrErr(@) = "cqENOERR" THEN q ELSE @,
               !.seqSnd = @ + 1]

\* One round of doEtcpUserTx's loop, into the slot at wrSeq if it is free.  The
\* number in the packet is seqSnd, a counter of the connection's own.
PacketMade(c) ==
  IF cqGetNextWrErr(c.txQ) # "cqENOERR" THEN c
  ELSE [c EXCEPT
         !.txQ = Commit(@, @.wrSeq, [type |-> "DAT", seq |-> c.seqSnd,
                                     noAck |-> c.seqSnd \in NoAckSeqs,
                                     txState |-> "RDY", txAttempts |-> 0]),
         !.seqSnd = @ + 1]

PacketLoop == INSTANCE Iteration WITH Step <- LAMBDA none, c, k : PacketMade(c)

\* n rounds: what finds no slot is not sent.
doEtcpUserTx(c, n) ==
  PacketLoop!After({}, c, [k \in 1 .. n |-> k])

\* What is still on its way and could answer for packet s
Underway(s) ==
  \/ \E f \in Dats : f.seq = s
  \/ \E f \in Acks : s \in Named(f)

\* The packets sent before whose timeout may be over
Late(q) ==
  {s \in q.rdMin .. q.wrSeq - 1 :
     Valid(q, s) /\ Packet(q, s).txAttempts > 0 /\ (Premature \/ ~Underway(s))}

\* The rest of etcpSend, on connection c with the numbers in late timed out
Transmit(c, late, hw) ==
  LET run == doEtcpNetTx(TcData(c.txQ, late), TcMaxDat(c.txQ), hw) IN
  IF TcGivesUp(c.txQ, late)
  THEN snd' = c /\ wire' = wire /\ ended' = "exited"
  ELSE snd' = [c EXCEPT !.txQ = run.q] /\ wire' = wire \cup run.sent /\ ended' = ended

CSend ==
  /\ cqGetNextWrErr(snd.txQ) = "cqENOERR"
  /\ \E n \in 1 .. Burst :
       /\ snd.seqSnd + n <= MaxPkts
       /\ LET c == doEtcpUserTx(snd, n) IN
          \E late \in SUBSET Late(snd.txQ), hw \in ClientHw(c.txQ) : Transmit(c, late, hw)
  /\ UNCHANGED <<rcv, call, delivered>>

\* etcpSend with nothing to send, or no slot to put it in
CPump(late) ==
  /\ \E hw \in ClientHw(snd.txQ) : Transmit(snd, late, hw)
  /\ UNCHANGED <<rcv, call, delivered>>

CPumpSome == \E late \in SUBSET Late(snd.txQ) : CPump(late)

\* Enough time has passed for every timeout.
CPumpLate == CPump(Late(snd.txQ))

\* Seeded fault: the first packet of the window counts as acknowledged before.
etcpProcessAckAfterMin(q, s) ==
  IF s > q.rdMin /\ cqGetRdErr(q, s) = "cqENOERR" /\ Packet(q, s).seq = s
  THEN cqReleaseSlot(q, s) ELSE q

\* etcpProcessAck: the packet the number names is released, if it is there.
etcpProcessAck(q, s) ==
  IF s >= q.rdMin /\ cqGetRdErr(q, s) = "cqENOERR" /\ Packet(q, s).seq = s
  THEN cqReleaseSlot(q, s) ELSE q

FieldSeqs(f, k) ==
  [j \in 1 .. f.fields[k].count |-> f.base + f.fields[k].offset + j - 1]

\* The loop over the numbers of a field, and the one over the fields
NumberLoop == INSTANCE Iteration WITH Step <- LAMBDA f, q, s : etcpProcessAck(q, s)

FieldStep(f, q, k) == NumberLoop!After(f, q, FieldSeqs(f, k))

FieldLoop == INSTANCE Iteration WITH Step <- FieldStep

\* A copy goes to the sender's receive queue, which nobody reads: once it is
\* full no more are taken, and it is ok that they are not.
KeepSack(q) ==
  IF cqGetNextWrErr(q) = "cqENOERR" THEN Commit(q, q.wrSeq, "SACK") ELSE q

etcpOnRxAck(c, f) ==
  IF ~AckHeaderSized \/ f.sackCount # Len(f.fields) THEN c
  ELSE [c EXCEPT !.rxQ = KeepSack(@),
                 !.txQ = FieldLoop!After(f, @, [k \in 1 .. f.sackCount |-> k])]

Consume(f) == IF Duplicating THEN wire' \in {wire, wire \ {f}} ELSE wire' = wire \ {f}

CRxAck ==
  \E f \in Acks :
    /\ snd' = etcpOnRxAck(snd, f)
    /\ Consume(f)
    /\ UNCHANGED <<rcv, call, delivered, ended>>

-----------------------------------------------------------------------------
(* The server                                                              *)

\* The frames that may arrive next
Arriving ==
  IF InOrder THEN {f \in Dats : \A g \in Dats : f.seq <= g.seq} ELSE Dats

BelowWindow(c, f) == f.seq < c.rxQ.rdMin
AboveWindow(c, f) == f.seq >= c.rxQ.wrMax

\* etcpETRYAGAIN: the packet's slot is in use.
SlotTaken(c, f) ==
  ~BelowWindow(c, f) /\ ~AboveWindow(c, f)
  /\ cqPushErr(c.rxQ, f.seq, SlotDataSize) = "cqENOSLOT"

etcpOnRxDat(c, f) ==
  IF AboveWindow(c, f) \/ SlotTaken(c, f) THEN c
  ELSE IF BelowWindow(c, f)
       THEN IF f.noAck THEN c ELSE [c EXCEPT !.staleQ = llPushSeqOrd(@, f.seq)]
  ELSE [c EXCEPT !.rxQ = Commit(@, f.seq, [seq |-> f.seq, noAck |-> f.noAck,
                                           ackSent |-> FALSE])]

\* One packet of doEtcpNetRx's loop
ServerRx(f) ==
  /\ BelowWindow(rcv, f) => f.noAck \/ Len(rcv.staleQ) < MaxStale
  /\ Consume(f)
  /\ rcv' = IF DatHeaderFound THEN etcpOnRxDat(rcv, f) ELSE rcv
  /\ ended' = IF DatHeaderFound THEN ended ELSE "crashed"
  /\ UNCHANGED <<snd, delivered>>

\* Packets of this connection are taken in by the calls made for others, by
\* etcpAccept, or by etcpRecv without a buffer.
SPoll == Polls /\ call = "idle" /\ (\E f \in Arriving : ServerRx(f)) /\ UNCHANGED call

\* etcpRecv returns at once when its window has no slot available.
SRecvBegin ==
  /\ call = "idle" /\ rcv.rxQ.available # 0
  /\ call' = "none"
  /\ UNCHANGED <<snd, rcv, wire, delivered, ended>>

SRecvFrame ==
  /\ call \in {"none", "some"}
  /\ \E f \in Arriving :
       ServerRx(f) /\ call' = IF SlotTaken(rcv, f) THEN "stopped" ELSE "some"

\* doEtcpUserRx hands over the packet at rdSeq once its ack was made.  (The
\* flag staleDat is only ever set on packets of the stale list.)
CanDeliver(c) == cqGetNextRdErr(c.rxQ) = "cqENOERR" /\ At(c.rxQ, c.rxQ.rdSeq).ackSent

UserRx(c) ==
  IF CanDeliver(c)
  THEN /\ rcv' = [c EXCEPT !.rxQ = cqReleaseSlot(@, @.rdSeq)]
       /\ delivered' = Append(delivered, At(c.rxQ, c.rxQ.rdSeq).seq)
  ELSE rcv' = c /\ UNCHANGED delivered

\* Nothing came and nothing is readable: etcpETRYAGAIN
SRecvNothing ==
  /\ call = "none" /\ rcv.rxQ.readable = 0
  /\ call' = "idle"
  /\ UNCHANGED <<snd, rcv, wire, delivered, ended>>

\* The rest of etcpRecv, with the limits etcpRxTc sets: none
SRecvEnd ==
  /\ call # "idle" /\ ~(call = "none" /\ rcv.rxQ.readable = 0)
  /\ \E junk \in JunkFields :
       UserRx(generateStaleAcks(generateAcks(rcv, junk), junk))
  /\ call' = "idle"
  /\ UNCHANGED <<snd, wire, ended>>

\* The queue of acknowledgements with its cursors moved down by a multiple of
\* SlotCount and what released slots held forgotten.  Nothing reads either, so
\* this only keeps their number finite.
Rebased(q) ==
  LET b == SlotCount * (q.rdSeq \div SlotCount) IN
  [q EXCEPT !.rdSeq = @ - b, !.wrSeq = @ - b, !.rdMin = @ - b, !.rdMax = @ - b,
            !.wrMin = @ - b, !.wrMax = @ - b,
            !.buff = [j \in Slots |-> IF q.valid[j] THEN @[j] ELSE Zeroed]]

\* etcpSend without data
SSend ==
  /\ call = "idle"
  /\ \E hw \in ServerHw(rcv.ackQ) :
       LET run == doEtcpNetTx(TcAcks(rcv.ackQ), TcMaxAck(rcv.ackQ), hw)
       IN rcv' = [rcv EXCEPT !.ackQ = Rebased(run.q)] /\ wire' = wire \cup run.sent
  /\ UNCHANGED <<snd, call, delivered, ended>>

Lose ==
  /\ Lossy
  /\ \E f \in wire : wire' = wire \ {f}
  /\ UNCHANGED <<snd, rcv, call, delivered, ended>>

-----------------------------------------------------------------------------

Client == CSend \/ CPumpSome \/ CRxAck
Server == SPoll \/ SRecvBegin \/ SRecvFrame \/ SRecvNothing \/ SRecvEnd \/ SSend

Next ==
  \/ ended = "no" /\ Client
  \/ ended # "crashed" /\ Server
  \/ Lose

Spec == Init /\ [][Next]_vars

\* When the costly steps have something to do: each of these is the ENABLED of
\* the step it is named for, written out so that TLC need not search for it.
PumpHasWork  == ended = "no" /\ TcData(snd.txQ, Late(snd.txQ)) # snd.txQ
AckHere      == ended = "no" /\ Acks # {}
FrameHere ==
  /\ ended # "crashed" /\ call \in {"none", "some"}
  /\ \E f \in Arriving : BelowWindow(rcv, f) => f.noAck \/ Len(rcv.staleQ) < MaxStale
RecvToEnd    == ended # "crashed" /\ call # "idle" /\ ~(call = "none" /\ rcv.rxQ.readable = 0)
AcksToSend   == ended # "crashed" /\ call = "idle" /\ TcMaxAck(rcv.ackQ) > 0

\* The client keeps calling etcpSend and etcpRecv while time goes by, as the
\* loop of test.c does: weak fairness of its transmissions, strong fairness of
\* taking in an acknowledgement.
ClientFairness ==
  /\ <>[]PumpHasWork => []<><<CPumpLate>>_vars
  /\ []<>AckHere => []<><<CRxAck>>_vars

\* So does the server; a frame that keeps arriving is taken off its ring in
\* the end, although the ring is looked at in the receive loop only.
ServerFairness ==
  /\ WF_vars(SRecvBegin)
  /\ WF_vars(SRecvNothing)
  /\ []<>FrameHere => []<><<SRecvFrame>>_vars
  /\ <>[]RecvToEnd => []<><<SRecvEnd>>_vars
  /\ []<>AcksToSend => []<><<SSend>>_vars

FairSpec == Spec /\ ClientFairness /\ ServerFairness

-----------------------------------------------------------------------------
(* Type                                                                    *)

DatPackets ==
  [type : {"DAT"}, seq : Nat, noAck : BOOLEAN, txState : {"RDY", "NOW"}, txAttempts : Nat]

\* The queues have the fields of cq_t, the connections those of etcpConn_t
\* that the flow uses.
TypeOK ==
  /\ snd.txQ \in QueueType({Zeroed} \cup DatPackets)
  /\ snd.rxQ \in QueueType({Zeroed, "SACK"})
  /\ snd.seqSnd \in Nat
  /\ rcv.rxQ \in QueueType({Zeroed} \cup [seq : Nat, noAck : BOOLEAN, ackSent : BOOLEAN])
  /\ \A j \in Slots : rcv.ackQ.valid[j] =>
       rcv.ackQ.buff[j].type = "ACK" /\ rcv.ackQ.buff[j].txState \in {"RDY", "NOW"}
  /\ rcv.staleQ \in Seq(Nat) /\ rcv.seqAck \in Nat
  /\ call \in {"idle", "none", "some", "stopped"}
  /\ delivered \in Seq(Nat)
  /\ ended \in {"no", "exited", "crashed"}

-----------------------------------------------------------------------------
(* Safety                                                                  *)

\* Messages are handed over once each, in the order they were sent, without a
\* gap, whatever the network loses, repeats or reorders.
InOrderDelivery == \A k \in DOMAIN delivered : delivered[k] = k - 1

\* The number in a packet is the number of the slot it waits in, on both
\* sides, although the sender counts it twice (seqSnd and wrSeq).
NumberedBySlot ==
  /\ snd.seqSnd = snd.txQ.wrSeq
  /\ \A s \in snd.txQ.rdSeq .. snd.txQ.wrSeq - 1 :
       Valid(snd.txQ, s) => Packet(snd.txQ, s).seq = s
  /\ \A s \in rcv.rxQ.rdSeq .. rcv.rxQ.rdSeq + SlotCount - 1 :
       Valid(rcv.rxQ, s) => At(rcv.rxQ, s).seq = s

AckQueued ==
  {rcv.ackQ.buff[j] : j \in {i \in Slots : rcv.ackQ.valid[i]}}

\* No acknowledgement, queued or on the wire, names a packet the server has
\* not got, nor one beyond a gap in what it has got.
AcksTruthful ==
  \A f \in Acks \cup AckQueued : \A s \in Named(f) : s < rcv.rxQ.wrSeq

\* The sender lets go of a packet that wants an answer only when the server
\* has it: what is still missing there can still be sent again.
ReleasedOnlyIfReceived ==
  \A s \in 0 .. snd.seqSnd - 1 :
    (s < snd.txQ.rdSeq \/ ~Valid(snd.txQ, s)) =>
      s \in NoAckSeqs \/ s < rcv.rxQ.wrSeq

\* The packets whose ack was made come first in the window: doEtcpUserRx, who
\* stops at the first without one, passes over none that has one.
AckedPrefix ==
  \A s, t \in rcv.rxQ.rdSeq .. rcv.rxQ.wrSeq - 1 :
    s < t /\ At(rcv.rxQ, t).ackSent => At(rcv.rxQ, s).ackSent

\* Offsets are unsigned: the number they are relative to is never ahead of
\* the packet they name.
SeqAckBehind ==
  \A s \in rcv.rxQ.rdSeq .. rcv.rxQ.wrSeq - 1 :
    ~At(rcv.rxQ, s).ackSent => rcv.seqAck <= s

\* A packet has at most MaxSacks fields, packets.h:111 ("Sack count = 12
\* ranges per packet").
SackFits == \A f \in Acks \cup AckQueued : Len(f.fields) <= MaxSacks

\* Between calls no packet of the transmit window waits in the state "NOW",
\* which the callback's scan stops at: etcp.c:802, "before the packet is sent,
\* make it ready to send again in the future just in case something goes wrong".
ReadyAgain ==
  \A s \in snd.txQ.rdSeq .. snd.txQ.wrSeq - 1 :
    Valid(snd.txQ, s) => Packet(snd.txQ, s).txState = "RDY"

\* etcp.c:50: "Got a valid data header".
DataHeaderValid == ended # "crashed"

\* etcp.c:199: an acknowledged packet can be released, and "this slot" used
\* "for another TX": the step that takes an ack in does that for all it names.
AckTakesEffect ==
  [][\A f \in Acks : f \notin wire' =>
       \A s \in Named(f) : s < snd'.txQ.rdSeq \/ ~Valid(snd'.txQ, s)]_vars

\* An acknowledgement leaves its queue only onto the wire.  (etcpState.h:52 of
\* the hardware's answer 0: "no send capacity, try again".)
AckSentBeforeReleased ==
  [][\A p \in AckQueued : AckFrame(p) \in {AckFrame(r) : r \in AckQueued'} \cup wire']_vars

-----------------------------------------------------------------------------
(* Liveness                                                                *)

Released(s) == s < snd.txQ.rdSeq

\* Every packet is acknowledged in the end, or the sender gives up.
AckedOrGivenUp ==
  \A k \in 0 .. MaxPkts - 1 : snd.seqSnd > k ~> Released(k) \/ ended = "exited"

\* What the server has accepted, it hands over.
AcceptedDelivered ==
  \A k \in 0 .. MaxPkts - 1 : rcv.rxQ.wrSeq > k ~> Len(delivered) > k

\* etcp.c:96 of a packet below the window: "the ack must have got lost, send
\* another ack".  Once that is done the packet need not be kept.
StaleAnswered == rcv.staleQ # <<>> ~> rcv.staleQ = <<>>
=============================================================================
