------------------------------ MODULE UserData ------------------------------
(***************************************************************************)
(* What becomes of the bytes of a connection: etcpSend cuts them into      *)
(* packets built in the slots of a transmit window, the hardware carries   *)
(* frames, the receiver takes them apart, copies them into the slots of    *)
(* its window, and etcpRecv copies out what the application has room for.  *)
(* Every length is the code's own, in bytes.                               *)
(*                                                                         *)
(* Flow deals with loss, order and acknowledgements; here packets arrive   *)
(* in order and are acknowledged when they have, in one step (Carry).      *)
(* The application sends a stream: it goes on after the bytes that         *)
(* etcpSend reported.                                                      *)
(***************************************************************************)
EXTENDS CircularQueue, Sequences

CONSTANTS
  SendSizes,    \* the lengths the application asks to send
  Marks,        \* places of the stream
  RecvSizes,    \* the room it has to receive
  Vlan,         \* the VLAN of the connection, -1 for none
  FcsCounted,   \* whether the frames the hardware hands over, and their
                \* length, end with the check sequence
  HeaderInSlot, \* FALSE as the code stands: the header pointers of a stored
                \* packet still point into the frame buffer of doEtcpNetRx
  MaxPkts,      \* bounds: once this many packets are made,
  MaxBytes      \*   or bytes reported, no more is sent

ASSUME UserDataAssumption ==
  /\ SendSizes \cup RecvSizes \subseteq Nat \ {0}
  /\ Vlan \in Int /\ {FcsCounted, HeaderInSlot} \subseteq BOOLEAN /\ {MaxPkts, MaxBytes} \subseteq Nat

EthHeader   == 14        \* ETH_HLEN
EthFcs      == 4         \* ETH_FCS_LEN
EthMin      == 60        \* ETH_ZLEN
VlanTag     == 2         \* sizeof(eth8021qTCI_t)
MsgHead     == 56        \* sizeof(etcpMsgHead_t)
MsgDatHdr   == 16        \* sizeof(etcpMsgDatHdr_t)
PBuff       == 96        \* sizeof(pBuff_t)
Pointer     == 8         \* sizeof of a pointer to one
MaxFrame    == 2048      \* MAX_FRAME

\* What a slot really has room for
SlotRoom == SlotSize - SlotHeaderSize

VARIABLES
  txQ, rxQ,   \* the windows; a slot in use holds a packet
  frame,      \* the packet in the frame buffer of doEtcpNetRx
  pos,        \* how much of its stream the application believes sent
  got,        \* the pieces of the stream it received, [from, to)
  told,       \* the lengths etcpRecv gave for them
  overrun     \* a write went past the end of its buffer

vars == <<txQ, rxQ, frame, pos, got, told, overrun>>

Init ==
  /\ txQ = cqNew /\ rxQ = cqNew
  /\ frame = Zeroed
  /\ pos = 0 /\ got = <<>> /\ told = <<>>
  /\ overrun = FALSE

-----------------------------------------------------------------------------
(* Sending                                                                 *)

\* The Ethernet header as etcpMkEthPkt writes it.  The type of the frame is
\* that of ETCP with a tag behind it, or without.
EthLen == IF Vlan < 0 THEN EthHeader ELSE EthHeader + VlanTag

\* The room for data in a slot of length n.  The buffer is taken to begin a
\* pointer into the slot, but begins a pBuff_t into it.
DatSpace(n) == n - Pointer - EthLen - MsgHead - MsgDatHdr

\* A packet with a piece of the stream; msg is the length of its frame.
Packet(from, len) ==
  [ from |-> from, to |-> from + len, datLen |-> len,
    msg  |-> EthLen + MsgHead + MsgDatHdr + len ]

\* The packet made in the next slot.  Each takes the bytes from the start of
\* the user's data.
NextPacket(call, q) ==
  Packet(call.from, Lesser(DatSpace(q.len[Idx(q.wrSeq)]), call.len))

\* One packet of a call of doEtcpUserTx
Segment(call, t) ==
  LET q == t.q
      p == NextPacket(call, q)
  IN [ q    |-> cqCommitSlot([q EXCEPT !.buff[Idx(q.wrSeq)] = p], q.wrSeq, p.msg),
       sent |-> t.sent + p.datLen,
       over |-> t.over \/ PBuff + p.msg > SlotRoom ]

SlotFree(q) == cqGetNextWrErr(q) = "cqENOERR"

\* The slot takes an Ethernet header, and the others with a byte of data.
SlotFits(q) ==
  LET len == q.len[Idx(q.wrSeq)] IN len - Pointer >= EthMin /\ DatSpace(len) >= 1

\* The loop ends when all is sent, or at a slot that is not free or too small.
Round(call, t, k) ==
  IF t.sent < call.len /\ SlotFree(t.q) /\ SlotFits(t.q) THEN Segment(call, t) ELSE t

SegmentLoop == INSTANCE Iteration WITH Step <- Round

\* n bytes at pos are sent; no call makes more packets than there are slots.
doEtcpUserTx(n) ==
  SegmentLoop!After([len |-> n, from |-> pos],
                    [q |-> txQ, sent |-> 0, over |-> FALSE],
                    [k \in 1 .. SlotCount |-> k])

\* Seeded fault: the length is left as it was when slots run out.
ReportedAsked(t, n) == n

\* *toSendLen_io: what was sent, but left as it was by the error of a slot
\* that is too small, which etcpSend drops.
Reported(t, n) == IF t.sent < n /\ SlotFree(t.q) THEN n ELSE t.sent

Send(n) ==
  /\ txQ.wrSeq < MaxPkts /\ pos < MaxBytes
  /\ LET t == doEtcpUserTx(n) IN
     /\ txQ' = t.q
     /\ pos' = pos + Reported(t, n)
     /\ overrun' = (overrun \/ t.over)
  /\ UNCHANGED <<rxQ, frame, got, told>>

-----------------------------------------------------------------------------
(* Receiving                                                               *)

\* The length of packet p's frame as the hardware gives it
RxLen(p) == p.msg + IF FcsCounted THEN EthFcs ELSE 0

\* The room the frame buffer has, and the room doEtcpNetRx says it has
FrameRoom == MaxFrame - PBuff
FrameSaid == MaxFrame - Pointer

\* Seeded fault: the check sequence is not counted.
EncapBare == EthHeader

\* encapHdrSize: the frames etcpMkEthPkt makes have ETCP's own type, tagged or
\* not, so that the branch for tagged frames is not theirs.
Encap == EthHeader + EthFcs

\* The checks of etcpOnRxEthernetFrame, etcpOnRxPacket and etcpOnRxDat.  The
\* message head of a tagged frame is looked for where the tag is.
Parses(p) ==
  /\ RxLen(p) >= EthHeader + EthFcs
  /\ RxLen(p) - Encap >= MsgHead
  /\ EthLen = EthHeader
  /\ RxLen(p) - Encap - MsgHead >= MsgDatHdr
  /\ RxLen(p) - Encap - MsgHead - MsgDatHdr = p.datLen

\* Seeded fault: the whole frame buffer behind the head of the packet buffer.
CopiedWhole == MaxFrame + PBuff

\* What etcpOnRxDat copies of every packet, whatever its length
Copied == FrameSaid + PBuff

\* The slot at the end of the window takes a packet, as far as it says it has
\* room.
Stored(p) ==
  LET n == cqPushLen(rxQ, rxQ.wrSeq, Copied) IN
  /\ rxQ' = cqCommitSlot([rxQ EXCEPT !.buff[Idx(rxQ.wrSeq)] = p], rxQ.wrSeq, n)
  /\ overrun' = (overrun \/ n > SlotRoom \/ RxLen(p) > FrameRoom)

\* The first packet of the transmit window is sent and received.  One that
\* parses and finds a slot is stored and acknowledged, any other is lost.  One
\* that is longer than the hardware is told it may be is not handed over.
Carry ==
  /\ cqGetNextRdErr(txQ) = "cqENOERR"
  /\ LET p == txQ.buff[Idx(txQ.rdSeq)] IN
     /\ RxLen(p) <= FrameSaid
     /\ frame' = p
     /\ IF Parses(p) /\ cqPushErr(rxQ, rxQ.wrSeq, Copied) \in {"cqENOERR", "cqETRUNC"}
          THEN Stored(p) /\ txQ' = cqReleaseSlot(txQ, txQ.rdSeq)
          ELSE overrun' = (overrun \/ RxLen(p) > FrameRoom) /\ UNCHANGED <<txQ, rxQ>>
  /\ UNCHANGED <<pos, got, told>>

\* The packet whose header and data doEtcpUserRx reads: that of the slot, or
\* what the pointers in the slot find where the frame buffer was.
ReadAs == IF HeaderInSlot THEN {rxQ.buff[Idx(rxQ.rdSeq)]}
                          ELSE {rxQ.buff[Idx(rxQ.rdSeq)], frame}

\* doEtcpUserRx with room for n bytes: the rest is dropped with the slot, and
\* the length is left as it was.
Recv(n) ==
  /\ cqGetNextRdErr(rxQ) = "cqENOERR"
  /\ \E p \in ReadAs :
       got' = Append(got, [from |-> p.from, to |-> p.from + Lesser(p.datLen, n)])
  /\ told' = Append(told, n)
  /\ rxQ' = cqReleaseSlot(rxQ, rxQ.rdSeq)
  /\ UNCHANGED <<txQ, frame, pos, overrun>>

Next ==
  \/ \E n \in SendSizes : Send(n)
  \/ Carry
  \/ \E n \in RecvSizes : Recv(n)

Spec == Init /\ [][Next]_vars

\* Transmissions are repeated until they are answered, and the receiver keeps
\* receiving (the loops of test.c:48 and 90).
FairSpec == Spec /\ WF_vars(Carry) /\ WF_vars(\E n \in RecvSizes : Recv(n))

-----------------------------------------------------------------------------
(* Properties                                                              *)

Packets == [from : Nat, to : Nat, datLen : Nat, msg : Nat]

TypeOK ==
  /\ {txQ, rxQ} \subseteq QueueType({Zeroed} \cup Packets)
  /\ frame \in {Zeroed} \cup Packets
  /\ pos \in Nat
  /\ got \in Seq([from : Nat, to : Nat])
  /\ told \in Seq(RecvSizes) /\ Len(told) = Len(got)
  /\ overrun \in BOOLEAN

\* What the application receives is the stream, from its first byte on, no
\* byte missing, repeated or out of place, if it goes on sending after the
\* bytes that etcpSend reports, also when it ran out of slots.  Lengths that
\* take one packet, and fit the room to receive, are needed for this.
BytesInOrder ==
  \A i \in DOMAIN got : got[i].from = IF i = 1 THEN 0 ELSE got[i - 1].to

\* No write goes past its buffer, neither that of a packet into a slot, new
\* or used before (CircularQueue.c:413 gives it another length), nor that of
\* a frame into the frame buffer.
NoOverrun == ~overrun

Received == IF got = <<>> THEN 0 ELSE got[Len(got)].to

\* Whatever etcpSend reports as sent is received: a receiver takes the frames
\* of a sender, by the lengths each of them counts.
SentIsReceived == \A b \in Marks : pos >= b ~> Received >= b

\* etcp.c:955: "give the data over to the user": the length that comes with
\* them is theirs.
LengthTold == \A i \in DOMAIN got : told[i] = got[i].to - got[i].from

\* etcp.c:887, MAX_FRAME: no more is copied out of a frame buffer than it has.
CopyInFrame == \A i \in Slots : rxQ.valid[i] => rxQ.len[i] <= MaxFrame
=============================================================================
