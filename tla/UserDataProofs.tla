--------------------------- MODULE UserDataProofs ---------------------------
(***************************************************************************)
(* The bytes of a connection, for windows of any size and lengths of any   *)
(* kind: what has been received, is held by the receiver and is still to   *)
(* be received is one stream, piece after piece.                           *)
(***************************************************************************)
EXTENDS UserData, QueueLemmas

-----------------------------------------------------------------------------
(* The assumptions of the theorems on the lengths                          *)

\* What is made for the lengths the application sends fits its buffers, and so
\* does what etcpOnRxDat copies.
SizesFit ==
  /\ Copied <= SlotRoom
  /\ \A n \in SendSizes :
       PBuff + Packet(0, n).msg <= SlotRoom /\ RxLen(Packet(0, n)) <= FrameRoom

\* Each call of etcpSend makes one packet, which etcpRecv has room for, and
\* whose header is found in its slot.
OnePiece ==
  /\ HeaderInSlot
  /\ \A n \in SendSizes :
       n <= DatSpace(SlotDataSize) /\ \A m \in RecvSizes : n <= m

-----------------------------------------------------------------------------
(* Windows of packets                                                      *)

\* A packet that a call of etcpSend made
Made(p) ==
  /\ p \in Packets
  /\ p.to = p.from + p.datLen
  /\ p.msg = EthLen + MsgHead + MsgDatHdr + p.datLen
  /\ \E n \in SendSizes : p.datLen <= n

\* A window of such packets without a hole, its free slots as long as new ones
Holding(q) ==
  /\ q \in QueueType({Zeroed} \cup Packets)
  /\ Windowed(q) /\ NoHoles(q) /\ TailFree(q)
  /\ \A i \in Slots : q.valid[i] => Made(q.buff[i])
  /\ \A i \in Slots : ~q.valid[i] => SlotDataSize <= q.len[i]

\* The lengths of the headers are numbers.
LEMMA HeaderSizes ==
  /\ EthLen \in {14, 16} /\ EthHeader = 14 /\ EthFcs = 4 /\ EthMin = 60
  /\ MsgHead = 56 /\ MsgDatHdr = 16 /\ PBuff = 96 /\ Pointer = 8 /\ MaxFrame = 2048
  /\ SlotSize \in Nat /\ SlotDataSize <= SlotSize /\ SlotDataSize \in Nat
<1>1. EthLen \in {14, 16}
  BY UserDataAssumption DEF EthLen, EthHeader, VlanTag
<1>2. SlotSize \in Nat /\ SlotDataSize <= SlotSize
  BY SlotDataSizeAssumption DEF SlotSize, SlotHeaderSize
<1> QED
  BY <1>1, <1>2, SlotDataSizeAssumption
     DEF EthHeader, EthFcs, EthMin, MsgHead, MsgDatHdr, PBuff, Pointer, MaxFrame

Written(q, s, x) == [q EXCEPT !.buff[Idx(s)] = x]

\* Writing into a slot changes what it holds and nothing else.
LEMMA WrittenEffect ==
  ASSUME NEW C, NEW q \in QueueType(C), NEW x \in C, NEW s \in Nat,
         NEW p, p = Written(q, s, x)
  PROVE  /\ p \in QueueType(C) /\ SameWindow(q, p)
         /\ p.buff = [q.buff EXCEPT ![Idx(s)] = x]
<1>1. Idx(s) \in Slots
  BY IdxType
<1>2. p \in QueueType(C)
  BY <1>1 DEF Written, QueueType
<1> QED
  BY <1>1, <1>2 DEF Written, SameWindow, QueueType

\* p is q with x behind its last packet.
Extended(q, x, p) ==
  /\ p.rdSeq = q.rdSeq /\ p.wrSeq = q.wrSeq + 1
  /\ p.buff = [q.buff EXCEPT ![Idx(q.wrSeq)] = x]

\* p is q without its first packet.
Shortened(q, p) ==
  q.rdSeq < q.wrSeq /\ p.rdSeq = q.rdSeq + 1 /\ p.wrSeq = q.wrSeq /\ p.buff = q.buff

\* The slot at the write cursor takes a packet that is not too long for it.
LEMMA FillsNext ==
  ASSUME NEW q, Holding(q), InRange(q, q.wrSeq), ~Valid(q, q.wrSeq),
         NEW x, Made(x), NEW n \in Nat, n <= q.len[Idx(q.wrSeq)],
         NEW p, p = cqCommitSlot(Written(q, q.wrSeq, x), q.wrSeq, n)
  PROVE  Holding(p) /\ Extended(q, x, p)
<1> DEFINE C == {Zeroed} \cup Packets
           r == Written(q, q.wrSeq, x)
           s == q.wrSeq
<1>1. q \in QueueType(C) /\ Windowed(q) /\ x \in C
  BY DEF Holding, Made
<1>2. \A i \in Slots : q.valid[i] => Made(q.buff[i])
  BY DEF Holding
<1>3. \A i \in Slots : ~q.valid[i] => SlotDataSize <= q.len[i]
  BY DEF Holding
<1> HIDE DEF C
<1>4. /\ s \in Nat /\ s = q.wrSeq /\ Idx(s) \in Slots
      /\ q.valid \in [Slots -> BOOLEAN] /\ q.len \in [Slots -> Nat] /\ q.buff \in [Slots -> C]
  BY <1>1, Numbers, IdxType
<1> HIDE DEF s
<1>5. /\ r \in QueueType(C) /\ SameWindow(q, r)
      /\ r.buff = [q.buff EXCEPT ![Idx(s)] = x]
  BY <1>1, <1>4, WrittenEffect DEF s
<1>6. p = cqCommitSlot(r, s, n)
  BY <1>4
<1> HIDE DEF r
<1>7. /\ r.rdSeq = q.rdSeq /\ r.wrSeq = s /\ r.valid = q.valid /\ r.len = q.len
      /\ Windowed(r) /\ NoHoles(r) /\ TailFree(r)
  BY <1>4, <1>5, SameWindowFacts DEF SameWindow, Holding
<1>8. CommitRefusal(r, s, n) = "cqENOERR"
  <2>1. InRange(r, s) /\ ~Valid(r, s)
    BY <1>4, <1>7 DEF InRange, Valid
  <2>2. ~(n > r.len[Idx(s)])
    BY <1>4, <1>7
  <2> QED
    BY <2>1, <2>2 DEF CommitRefusal
<1>9. AfterCommit(r, s, n, p)
  BY <1>4, <1>5, <1>6, <1>7, <1>8, CommitEffect
<1>10. p \in QueueType(C) /\ Windowed(p)
  BY <1>4, <1>5, <1>6, <1>7, CommitKeepsWindow
<1>11. NoHoles(p)
  BY <1>4, <1>5, <1>6, <1>7, CommitKeepsNoHoles
<1>12. TailFree(p) /\ p.wrSeq = s + 1
  BY <1>4, <1>5, <1>6, <1>7, <1>8, CommitKeepsTailFree
<1>13. /\ p.rdSeq = q.rdSeq /\ p.buff = [q.buff EXCEPT ![Idx(s)] = x]
       /\ p.valid = [q.valid EXCEPT ![Idx(s)] = TRUE]
       /\ p.len = [q.len EXCEPT ![Idx(s)] = n]
  BY <1>5, <1>7, <1>9 DEF AfterCommit
<1>14. \A i \in Slots : p.valid[i] => Made(p.buff[i])
  BY <1>2, <1>4, <1>13
<1>15. \A i \in Slots : ~p.valid[i] => SlotDataSize <= p.len[i]
  BY <1>3, <1>4, <1>13
<1>16. Extended(q, x, p)
  BY <1>4, <1>12, <1>13 DEF Extended
<1> QED
  BY <1>10, <1>11, <1>12, <1>14, <1>15, <1>16 DEF Holding, C

\* The slot at the read cursor is emptied.
LEMMA FreesFirst ==
  ASSUME NEW q, Holding(q), Valid(q, q.rdSeq),
         NEW p, p = cqReleaseSlot(q, q.rdSeq)
  PROVE  Holding(p) /\ Shortened(q, p) /\ Made(q.buff[Idx(q.rdSeq)])
<1> DEFINE C == {Zeroed} \cup Packets
           s == q.rdSeq
<1>1. q \in QueueType(C) /\ Windowed(q)
  BY DEF Holding
<1>2. \A i \in Slots : q.valid[i] => Made(q.buff[i])
  BY DEF Holding
<1>3. \A i \in Slots : ~q.valid[i] => SlotDataSize <= q.len[i]
  BY DEF Holding
<1>4. NoHoles(q) /\ TailFree(q)
  BY DEF Holding
<1> HIDE DEF C
<1>5. /\ s \in Nat /\ s = q.rdSeq /\ Idx(s) \in Slots /\ q.rdSeq < q.wrSeq
      /\ q.valid \in [Slots -> BOOLEAN] /\ q.len \in [Slots -> Nat]
  BY <1>1, Numbers, IdxType, ReleasedIsBehind
<1>6. cqGetRdErr(q, s) = "cqENOERR"
  <2>1. SlotCount \in Nat /\ SlotCount > 0 /\ q.rdSeq \in Nat
    BY <1>1, Numbers
  <2>2. InRange(q, s)
    BY <2>1 DEF InRange
  <2> QED
    BY <2>2 DEF cqGetRdErr
<1>7. NoHoles(p) /\ p.rdSeq = q.rdSeq + 1
  BY <1>1, <1>4, <1>6, ReleaseKeepsNoHoles
<1> HIDE DEF s
<1>8. p = cqReleaseSlot(q, s)
  BY <1>5
<1>9. AfterRelease(q, s, p)
  BY <1>1, <1>5, <1>6, <1>8, ReleaseEffect
<1>10. p \in QueueType(C) /\ Windowed(p) /\ TailFree(p)
  BY <1>1, <1>4, <1>5, <1>8, ReleaseKeepsWindow, ReleaseKeepsTailFree
<1>11. /\ p.wrSeq = q.wrSeq /\ p.buff = q.buff
       /\ p.valid = [q.valid EXCEPT ![Idx(s)] = FALSE]
       /\ p.len = [q.len EXCEPT ![Idx(s)] = SlotSize]
  BY <1>9 DEF AfterRelease
<1>12. \A i \in Slots : p.valid[i] => Made(p.buff[i])
  BY <1>2, <1>5, <1>11
<1>13. \A i \in Slots : ~p.valid[i] => SlotDataSize <= p.len[i]
  BY <1>3, <1>5, <1>11, HeaderSizes
<1>14. Made(q.buff[Idx(q.rdSeq)])
  BY <1>2, <1>5 DEF Valid
<1> QED
  BY <1>5, <1>7, <1>10, <1>11, <1>12, <1>13, <1>14 DEF Holding, Shortened, C

-----------------------------------------------------------------------------
(* The pieces in a window                                                  *)

\* Where the packet with number t has to begin, if the first begins at a
EndBefore(q, a, t) == IF t = q.rdSeq THEN a ELSE q.buff[Idx(t - 1)].to

\* The packets of q are the stream from a to b, in order.
Links(q, a, b) ==
  /\ \A t \in q.rdSeq .. q.wrSeq - 1 : q.buff[Idx(t)].from = EndBefore(q, a, t)
  /\ EndBefore(q, a, q.wrSeq) = b

\* A packet that goes on where the others end makes the stream longer.
LEMMA LinksExtended ==
  ASSUME NEW q, Holding(q), NEW a, NEW b, Links(q, a, b), NEW x, x.from = b,
         q.wrSeq < q.rdSeq + SlotCount, NEW p, Extended(q, x, p)
  PROVE  Links(p, a, x.to)
<1>1. /\ q.rdSeq \in Nat /\ q.wrSeq \in Nat /\ q.rdSeq <= q.wrSeq
      /\ SlotCount \in Nat /\ SlotCount > 0
      /\ q.buff \in [Slots -> {Zeroed} \cup Packets]
  BY Numbers DEF Holding
<1>2. /\ p.rdSeq = q.rdSeq /\ p.wrSeq = q.wrSeq + 1
      /\ p.buff = [q.buff EXCEPT ![Idx(q.wrSeq)] = x]
  BY DEF Extended
<1>3. ASSUME NEW t \in q.rdSeq .. q.wrSeq
      PROVE  p.buff[Idx(t)] = IF t = q.wrSeq THEN x ELSE q.buff[Idx(t)]
  <2>1. t \in Nat /\ q.wrSeq < t + SlotCount /\ t < q.wrSeq + SlotCount
    BY <1>1
  <2>2. t # q.wrSeq => Idx(t) # Idx(q.wrSeq)
    BY <1>1, <2>1, IdxDistinct
  <2>3. Idx(t) \in Slots /\ Idx(q.wrSeq) \in Slots
    BY <1>1, <2>1, IdxType
  <2> QED
    BY <1>1, <1>2, <2>2, <2>3
<1>4. ASSUME NEW t \in q.rdSeq .. q.wrSeq PROVE EndBefore(p, a, t) = EndBefore(q, a, t)
  <2>1. CASE t = q.rdSeq
    BY <1>2, <2>1 DEF EndBefore
  <2>2. CASE t # q.rdSeq
    <3>1. t - 1 \in q.rdSeq .. q.wrSeq /\ t - 1 # q.wrSeq
      BY <1>1, <2>2
    <3>2. p.buff[Idx(t - 1)] = q.buff[Idx(t - 1)]
      BY <1>3, <3>1
    <3> QED
      BY <1>2, <2>2, <3>2 DEF EndBefore
  <2> QED
    BY <2>1, <2>2
<1>5. ASSUME NEW t \in p.rdSeq .. p.wrSeq - 1
      PROVE  p.buff[Idx(t)].from = EndBefore(p, a, t)
  <2>1. t \in q.rdSeq .. q.wrSeq
    BY <1>1, <1>2
  <2>2. CASE t = q.wrSeq
    <3>1. p.buff[Idx(t)] = x
      BY <1>3, <2>1, <2>2
    <3>2. EndBefore(p, a, t) = b
      BY <1>4, <2>1, <2>2 DEF Links
    <3> QED
      BY <3>1, <3>2
  <2>3. CASE t # q.wrSeq
    <3>1. t \in q.rdSeq .. q.wrSeq - 1
      BY <1>1, <2>1, <2>3
    <3>2. p.buff[Idx(t)] = q.buff[Idx(t)]
      BY <1>3, <2>1, <2>3
    <3>3. q.buff[Idx(t)].from = EndBefore(q, a, t)
      BY <3>1 DEF Links
    <3> QED
      BY <1>4, <2>1, <3>2, <3>3
  <2> QED
    BY <2>2, <2>3
<1>6. EndBefore(p, a, p.wrSeq) = x.to
  <2>1. p.wrSeq # p.rdSeq /\ p.wrSeq - 1 = q.wrSeq /\ q.wrSeq \in q.rdSeq .. q.wrSeq
    BY <1>1, <1>2
  <2>2. p.buff[Idx(q.wrSeq)] = x
    BY <1>3, <2>1
  <2> QED
    BY <2>1, <2>2 DEF EndBefore
<1> QED
  BY <1>5, <1>6 DEF Links

\* Without the first packet the stream begins where that ends.
LEMMA LinksShortened ==
  ASSUME NEW q, Holding(q), NEW a, NEW b, Links(q, a, b), NEW p, Shortened(q, p)
  PROVE  /\ q.buff[Idx(q.rdSeq)].from = a
         /\ Links(p, q.buff[Idx(q.rdSeq)].to, b)
<1> DEFINE c == q.buff[Idx(q.rdSeq)].to
<1>1. q.rdSeq \in Nat /\ q.wrSeq \in Nat
  BY Numbers DEF Holding
<1>2. q.rdSeq < q.wrSeq /\ p.rdSeq = q.rdSeq + 1 /\ p.wrSeq = q.wrSeq /\ p.buff = q.buff
  BY DEF Shortened
<1>3. q.buff[Idx(q.rdSeq)].from = a
  BY <1>1, <1>2 DEF Links, EndBefore
<1>4. ASSUME NEW t \in p.rdSeq .. q.wrSeq PROVE EndBefore(p, c, t) = EndBefore(q, a, t)
  <2>1. t # q.rdSeq
    BY <1>1, <1>2
  <2>2. CASE t = p.rdSeq
    <3>1. t - 1 = q.rdSeq
      BY <1>1, <1>2, <2>2
    <3> QED
      BY <2>1, <2>2, <3>1 DEF EndBefore
  <2>3. CASE t # p.rdSeq
    BY <1>2, <2>1, <2>3 DEF EndBefore
  <2> QED
    BY <2>2, <2>3
<1>5. ASSUME NEW t \in p.rdSeq .. p.wrSeq - 1
      PROVE  p.buff[Idx(t)].from = EndBefore(p, c, t)
  <2>1. t \in q.rdSeq .. q.wrSeq - 1 /\ t \in p.rdSeq .. q.wrSeq
    BY <1>1, <1>2
  <2>2. q.buff[Idx(t)].from = EndBefore(q, a, t)
    BY <2>1 DEF Links
  <2> QED
    BY <1>2, <1>4, <2>1, <2>2
<1>6. EndBefore(p, c, p.wrSeq) = b
  <2>1. q.wrSeq \in p.rdSeq .. q.wrSeq
    BY <1>1, <1>2
  <2> QED
    BY <1>2, <1>4, <2>1 DEF Links
<1> QED
  BY <1>3, <1>5, <1>6 DEF Links, c

-----------------------------------------------------------------------------
(* Sending                                                                 *)

\* A slot that is free is in the window.
LEMMA FreeSlot ==
  ASSUME NEW q, Holding(q), SlotFree(q)
  PROVE  /\ InRange(q, q.wrSeq) /\ ~Valid(q, q.wrSeq)
         /\ SlotDataSize <= q.len[Idx(q.wrSeq)] /\ q.len[Idx(q.wrSeq)] \in Nat
         /\ q.wrSeq < q.rdSeq + SlotCount
<1>1. InRange(q, q.wrSeq) /\ ~Valid(q, q.wrSeq)
  BY DEF SlotFree, cqGetNextWrErr
<1>2. Idx(q.wrSeq) \in Slots /\ q.len \in [Slots -> Nat]
  BY Numbers, IdxType DEF Holding
<1>3. SlotDataSize <= q.len[Idx(q.wrSeq)]
  BY <1>1, <1>2 DEF Holding, Valid
<1> QED
  BY <1>1, <1>2, <1>3 DEF InRange

\* A call of doEtcpUserTx
Call(call) == call.len \in SendSizes /\ call.from \in Nat

\* The packet made in a free slot that is large enough: it fits, and takes all
\* there is to send if a new slot has room for that.
LEMMA PacketMade ==
  ASSUME NEW call, Call(call), NEW q, Holding(q), SlotFree(q), SlotFits(q),
         NEW x, x = NextPacket(call, q)
  PROVE  /\ Made(x) /\ x.from = call.from /\ x.msg <= q.len[Idx(q.wrSeq)]
         /\ x.datLen <= call.len
         /\ OnePiece => x.datLen = call.len
<1> DEFINE room == q.len[Idx(q.wrSeq)]
           d == Lesser(DatSpace(room), call.len)
<1>1. room \in Nat /\ SlotDataSize <= room
  BY FreeSlot
<1>2. DatSpace(room) = room - 8 - EthLen - 72 /\ DatSpace(room) >= 1
  BY <1>1, HeaderSizes DEF DatSpace, SlotFits
<1>3. call.len \in Nat /\ call.len > 0
  BY UserDataAssumption DEF Call
<1>4. x = Packet(call.from, d)
  BY DEF NextPacket
<1>5. d \in Nat /\ d <= call.len /\ d <= DatSpace(room)
  <2>1. DatSpace(room) \in Nat
    BY <1>1, <1>2, HeaderSizes
  <2> HIDE DEF room
  <2> QED
    BY <1>3, <2>1 DEF Lesser
<1>6. OnePiece => d = call.len
  <2> SUFFICES ASSUME OnePiece PROVE d = call.len
    OBVIOUS
  <2>1. call.len <= DatSpace(SlotDataSize)
    BY DEF OnePiece, Call
  <2>2. DatSpace(SlotDataSize) <= DatSpace(room) /\ DatSpace(SlotDataSize) \in Int
    <3>1. DatSpace(SlotDataSize) = SlotDataSize - 8 - EthLen - 72
      BY HeaderSizes DEF DatSpace
    <3> HIDE DEF room
    <3> QED
      BY <1>1, <1>2, <3>1, HeaderSizes
  <2>3. DatSpace(room) \in Int
    BY <1>1, <1>2, HeaderSizes
  <2> HIDE DEF room
  <2>4. call.len <= DatSpace(room)
    BY <1>3, <2>1, <2>2, <2>3
  <2> QED
    BY <1>3, <2>3, <2>4 DEF Lesser
<1> HIDE DEF d, room
<1>7. /\ x.from = call.from /\ x.to = call.from + d /\ x.datLen = d
      /\ x.msg = EthLen + MsgHead + MsgDatHdr + d
  BY <1>4 DEF Packet
<1>8. x.msg \in Nat /\ x.msg <= room
  BY <1>1, <1>2, <1>5, <1>7, HeaderSizes
<1>9. x \in Packets
  BY <1>4, <1>5, <1>7, <1>8 DEF Packet, Packets, Call
<1>10. Made(x)
  BY <1>5, <1>7, <1>9 DEF Made, Call
<1> QED
  BY <1>5, <1>6, <1>7, <1>8, <1>10 DEF room

\* What a packet occupies is no more than the longest the application sends.
LEMMA MadeFits ==
  ASSUME SizesFit, NEW x, Made(x)
  PROVE  /\ ~(PBuff + x.msg > SlotRoom) /\ ~(RxLen(x) > FrameRoom)
<1>1. PICK n \in SendSizes : x.datLen <= n
  BY DEF Made
<1>2. n \in Nat /\ x.datLen \in Nat /\ x.msg = EthLen + MsgHead + MsgDatHdr + x.datLen
  BY UserDataAssumption DEF Made, Packets
<1>3. PICK y : y = Packet(0, n)
  OBVIOUS
<1>4. y.msg = EthLen + MsgHead + MsgDatHdr + n
  BY <1>3 DEF Packet
<1>5. PBuff + y.msg <= SlotRoom /\ RxLen(y) <= FrameRoom
  BY <1>3 DEF SizesFit
<1>6. SlotRoom \in Int /\ FrameRoom \in Int
  BY HeaderSizes DEF SlotRoom, FrameRoom, SlotHeaderSize
<1>7. x.msg <= y.msg /\ x.msg \in Nat /\ y.msg \in Nat
  BY <1>1, <1>2, <1>4, HeaderSizes
<1>8. PBuff + x.msg <= SlotRoom
  BY <1>5, <1>6, <1>7, HeaderSizes
<1>9. RxLen(x) <= FrameRoom /\ RxLen(x) \in Int
  BY <1>5, <1>6, <1>7, HeaderSizes DEF RxLen
<1> QED
  BY <1>6, <1>7, <1>8, <1>9, HeaderSizes

\* A free slot is large enough for what takes one packet.
LEMMA OnePieceFits ==
  ASSUME OnePiece, NEW call, Call(call), NEW q, Holding(q), SlotFree(q)
  PROVE  SlotFits(q)
<1> DEFINE room == q.len[Idx(q.wrSeq)]
<1>1. room \in Nat /\ SlotDataSize <= room
  BY FreeSlot
<1>2. call.len <= DatSpace(SlotDataSize) /\ call.len \in Nat /\ call.len > 0
  BY UserDataAssumption DEF OnePiece, Call
<1>3. DatSpace(SlotDataSize) = SlotDataSize - 8 - EthLen - 72
  BY HeaderSizes DEF DatSpace
<1>4. DatSpace(room) = room - 8 - EthLen - 72
  BY <1>1, HeaderSizes DEF DatSpace
<1> HIDE DEF room
<1>5. DatSpace(room) >= 1 /\ room - 8 >= 60
  BY <1>1, <1>2, <1>3, <1>4, HeaderSizes
<1> QED
  BY <1>5, HeaderSizes DEF SlotFits, room

\* How far the stream goes after k rounds: nothing was sent for want of a slot,
\* or everything was.
Onward(call, q0, k, t) ==
  \A a : Links(q0, a, call.from) =>
    \/ t.sent = 0 /\ Links(t.q, a, call.from) /\ (k = 0 \/ ~SlotFree(t.q))
    \/ t.sent = call.len /\ Links(t.q, a, call.from + call.len)

\* What is so after k rounds of a call that began with the window q0
Segmented(call, q0, k, t) ==
  /\ Holding(t.q) /\ t.sent \in Nat /\ t.over \in BOOLEAN
  /\ SizesFit => ~t.over
  /\ OnePiece => Onward(call, q0, k, t)

LEMMA RoundKeeps ==
  ASSUME NEW call, Call(call), NEW q0, NEW k \in Nat, NEW t, Segmented(call, q0, k, t),
         NEW e, NEW next, next = Round(call, t, e)
  PROVE  Segmented(call, q0, k + 1, next)
<1> DEFINE q == t.q
<1>1. Holding(q) /\ t.sent \in Nat /\ t.over \in BOOLEAN
  BY DEF Segmented
<1>2. call.len \in Nat /\ call.len > 0
  BY UserDataAssumption DEF Call
<1>3. k + 1 # 0
  OBVIOUS
<1>4. CASE ~(t.sent < call.len /\ SlotFree(q) /\ SlotFits(q))
  <2>1. next = t
    BY <1>4 DEF Round
  <2>2. ASSUME OnePiece PROVE Onward(call, q0, k + 1, t)
    <3>1. t.sent = 0 => ~SlotFree(t.q)
      BY <1>1, <1>2, <1>4, <2>2, OnePieceFits
    <3>2. Onward(call, q0, k, t)
      BY <2>2 DEF Segmented
    <3> QED
      BY <3>1, <3>2 DEF Onward
  <2> QED
    BY <2>1, <2>2 DEF Segmented
<1>5. CASE t.sent < call.len /\ SlotFree(q) /\ SlotFits(q)
  <2>1. PICK x : x = NextPacket(call, q)
    OBVIOUS
  <2>2. next = [ q    |-> cqCommitSlot(Written(q, q.wrSeq, x), q.wrSeq, x.msg),
                 sent |-> t.sent + x.datLen,
                 over |-> t.over \/ PBuff + x.msg > SlotRoom ]
    BY <1>5, <2>1 DEF Round, Segment, Written
  <2> HIDE DEF q
  <2>3. /\ Made(x) /\ x.from = call.from /\ x.msg <= q.len[Idx(q.wrSeq)]
        /\ x.datLen <= call.len
        /\ OnePiece => x.datLen = call.len
    BY <1>1, <1>5, <2>1, PacketMade
  <2>4. x.msg \in Nat /\ x.datLen \in Nat /\ x.to = x.from + x.datLen
    BY <2>3 DEF Made, Packets
  <2>5. InRange(q, q.wrSeq) /\ ~Valid(q, q.wrSeq) /\ q.wrSeq < q.rdSeq + SlotCount
    BY <1>1, <1>5, FreeSlot
  <2>6. PICK p : p = cqCommitSlot(Written(q, q.wrSeq, x), q.wrSeq, x.msg)
    OBVIOUS
  <2>7. Holding(p) /\ Extended(q, x, p)
    BY <1>1, <2>3, <2>4, <2>5, <2>6, FillsNext
  <2>8. /\ next.q = p /\ next.sent = t.sent + x.datLen
        /\ next.over = (t.over \/ PBuff + x.msg > SlotRoom)
    BY <2>2, <2>6
  <2>9. next.over \in BOOLEAN
    BY <2>8
  <2>10. SizesFit => ~next.over
    BY <2>3, <2>8, MadeFits DEF Segmented
  <2>11. ASSUME OnePiece PROVE Onward(call, q0, k + 1, next)
    <3> SUFFICES ASSUME NEW a, Links(q0, a, call.from)
                 PROVE  next.sent = call.len /\ Links(p, a, call.from + call.len)
      BY <2>8 DEF Onward
    <3>1. t.sent = 0 /\ Links(q, a, call.from)
      BY <1>5, <1>2, <2>11 DEF Segmented, Onward, q
    <3>2. Links(p, a, x.to)
      BY <1>1, <2>3, <2>5, <2>7, <3>1, LinksExtended
    <3> QED
      BY <1>2, <2>3, <2>4, <2>8, <2>11, <3>1, <3>2
  <2> QED
    BY <1>1, <2>4, <2>7, <2>8, <2>9, <2>10, <2>11 DEF Segmented
<1> QED
  BY <1>4, <1>5

SegmentStates == INSTANCE IterationProofs WITH Step <- Round

\* What a call of doEtcpUserTx leaves behind
LEMMA UserTxSegments ==
  ASSUME pos \in Nat, Holding(txQ), NEW n \in SendSizes, NEW call,
         call = [len |-> n, from |-> pos], NEW t, t = doEtcpUserTx(n)
  PROVE  Segmented(call, txQ, SlotCount, t)
<1> DEFINE start == [q |-> txQ, sent |-> 0, over |-> FALSE]
           elems == [k \in 1 .. SlotCount |-> k]
           r == SegmentStates!Run(call, start, elems)
           Held == {k \in 0 .. SlotCount : Segmented(call, txQ, k, r[k])}
<1>1. SlotCount \in Nat /\ Len(elems) = SlotCount /\ Call(call)
  BY SlotCountAssumption DEF Call
<1>2. t = r[SlotCount]
  BY <1>1 DEF doEtcpUserTx, SegmentLoop!After, SegmentLoop!Run, SegmentStates!Run
<1>3. Segmented(call, txQ, 0, start)
  BY DEF Segmented, Onward
<1> HIDE DEF start, elems
<1>4. /\ r[0] = start
      /\ \A k \in 1 .. SlotCount : r[k] = Round(call, r[k - 1], elems[k])
  <2>1. Len(elems) \in Nat
    BY <1>1
  <2>2. /\ r[0] = start
        /\ \A k \in 1 .. Len(elems) : r[k] = Round(call, r[k - 1], elems[k])
    BY <2>1, SegmentStates!RunSteps
  <2> HIDE DEF r
  <2> QED
    BY <1>1, <2>2
<1> HIDE DEF r
<1>5. 0 \in Held
  BY <1>1, <1>3, <1>4
<1>6. ASSUME NEW k \in 1 .. SlotCount, k - 1 \in Held PROVE k \in Held
  <2>1. k \in 0 .. SlotCount /\ Segmented(call, txQ, k - 1, r[k - 1])
    BY <1>1, <1>6
  <2>2. r[k] = Round(call, r[k - 1], elems[k])
    BY <1>4
  <2>3. PICK j \in Nat : j = k - 1
    BY <1>1
  <2>4. Segmented(call, txQ, j + 1, r[k])
    BY <1>1, <2>1, <2>2, <2>3, RoundKeeps
  <2>5. j + 1 = k
    BY <2>3
  <2> QED
    BY <2>1, <2>4, <2>5
<1>7. SlotCount \in Held
  <2> HIDE DEF Held
  <2> QED
    BY <1>1, <1>5, <1>6, SegmentStates!CountUp, Zenon
<1> QED
  BY <1>2, <1>7

-----------------------------------------------------------------------------
(* The inductive invariant                                                 *)

\* Both windows hold packets, and the frame buffer the one that came last.
WindowsHold ==
  /\ Holding(txQ) /\ Holding(rxQ)
  /\ frame \in {Zeroed} \cup Packets
  /\ (\E i \in Slots : rxQ.valid[i]) => frame \in Packets

Accounts ==
  /\ pos \in Nat
  /\ got \in Seq([from : Nat, to : Nat])
  /\ told \in Seq(RecvSizes) /\ Len(told) = Len(got)
  /\ overrun \in BOOLEAN

\* What was received ends where the receiver's window begins, that ends where
\* the sender's begins, and that where the application goes on.
Stream ==
  \E m \in Nat : Links(rxQ, Received, m) /\ Links(txQ, m, pos)

UserDataInv ==
  /\ WindowsHold /\ Accounts
  /\ SizesFit => NoOverrun
  /\ OnePiece => BytesInOrder /\ Stream

\* A call of etcpSend changes the sender's window and the place reached.
LEMMA SendKeeps ==
  ASSUME UserDataInv, NEW n \in SendSizes, Send(n)
  PROVE  UserDataInv'
<1>1. PICK call : call = [len |-> n, from |-> pos]
  OBVIOUS
<1>2. PICK t : t = doEtcpUserTx(n)
  OBVIOUS
<1>3. /\ txQ' = t.q /\ pos' = pos + Reported(t, n) /\ overrun' = (overrun \/ t.over)
      /\ rxQ' = rxQ /\ frame' = frame /\ got' = got /\ told' = told
  BY <1>2 DEF Send
<1>4. WindowsHold /\ Accounts
  BY DEF UserDataInv
<1>5. Segmented(call, txQ, SlotCount, t)
  BY <1>1, <1>2, <1>4, UserTxSegments DEF WindowsHold, Accounts
<1>6. /\ n \in Nat /\ n > 0 /\ SlotCount # 0 /\ call.len = n /\ call.from = pos
      /\ t.sent \in Nat /\ t.over \in BOOLEAN /\ Holding(t.q)
  BY <1>1, <1>5, UserDataAssumption, SlotCountAssumption DEF Segmented
<1>7. Reported(t, n) \in Nat
  BY <1>6 DEF Reported
<1>8. WindowsHold'
  BY <1>3, <1>4, <1>6 DEF WindowsHold
<1>9. Accounts'
  BY <1>3, <1>4, <1>6, <1>7 DEF Accounts
<1>10. SizesFit => NoOverrun'
  BY <1>3, <1>5 DEF UserDataInv, NoOverrun, Segmented
<1>11. ASSUME OnePiece PROVE BytesInOrder' /\ Stream'
  <2>1. BytesInOrder'
    BY <1>3, <1>11 DEF UserDataInv, BytesInOrder
  <2>2. PICK m \in Nat : Links(rxQ, Received, m) /\ Links(txQ, m, pos)
    BY <1>11 DEF UserDataInv, Stream
  <2>3. \/ t.sent = 0 /\ Links(t.q, m, pos) /\ ~SlotFree(t.q)
        \/ t.sent = n /\ Links(t.q, m, pos + n)
    BY <1>5, <1>6, <1>11, <2>2 DEF Segmented, Onward
  <2>4. Links(t.q, m, pos + Reported(t, n))
    <3>1. pos \in Nat
      BY <1>4 DEF Accounts
    <3>2. CASE t.sent = 0 /\ Links(t.q, m, pos) /\ ~SlotFree(t.q)
      <4>1. Reported(t, n) = 0 /\ pos + 0 = pos
        BY <3>1, <3>2 DEF Reported
      <4> QED
        BY <3>2, <4>1
    <3>3. CASE t.sent = n /\ Links(t.q, m, pos + n)
      <4>1. Reported(t, n) = n
        BY <1>6, <3>3 DEF Reported
      <4> QED
        BY <3>3, <4>1
    <3> QED
      BY <2>3, <3>2, <3>3
  <2>5. Received' = Received
    BY <1>3 DEF Received
  <2>6. Stream'
    BY <1>3, <2>2, <2>4, <2>5 DEF Stream
  <2> QED
    BY <2>1, <2>6
<1> QED
  BY <1>8, <1>9, <1>10, <1>11 DEF UserDataInv

-----------------------------------------------------------------------------
(* Receiving                                                               *)

\* The first packet in use of a window is one that was made.
LEMMA FirstPacket ==
  ASSUME NEW q, Holding(q), cqGetNextRdErr(q) = "cqENOERR"
  PROVE  Valid(q, q.rdSeq) /\ Idx(q.rdSeq) \in Slots /\ Made(q.buff[Idx(q.rdSeq)])
<1>1. Valid(q, q.rdSeq)
  BY DEF cqGetNextRdErr
<1>2. Idx(q.rdSeq) \in Slots
  BY Numbers, IdxType DEF Holding
<1> QED
  BY <1>1, <1>2 DEF Holding, Valid

\* A frame that is taken goes from one window to the other; one that is not
\* stays where it is.
LEMMA CarryKeeps ==
  ASSUME UserDataInv, Carry
  PROVE  UserDataInv'
<1> DEFINE p == txQ.buff[Idx(txQ.rdSeq)]
           n == cqPushLen(rxQ, rxQ.wrSeq, Copied)
<1>1. WindowsHold /\ Accounts
  BY DEF UserDataInv
<1>2. Holding(txQ) /\ Holding(rxQ) /\ cqGetNextRdErr(txQ) = "cqENOERR"
  BY <1>1 DEF WindowsHold, Carry
<1>3. Valid(txQ, txQ.rdSeq) /\ Made(p) /\ p \in Packets
  BY <1>2, FirstPacket DEF Made
<1>4. /\ frame' = p /\ pos' = pos /\ got' = got /\ told' = told /\ Received' = Received
      /\ \/ /\ cqPushErr(rxQ, rxQ.wrSeq, Copied) \in {"cqENOERR", "cqETRUNC"}
            /\ Stored(p) /\ txQ' = cqReleaseSlot(txQ, txQ.rdSeq)
         \/ /\ overrun' = (overrun \/ RxLen(p) > FrameRoom)
            /\ txQ' = txQ /\ rxQ' = rxQ
  BY DEF Carry, Received
<1> HIDE DEF p
<1>5. SizesFit => ~(RxLen(p) > FrameRoom)
  BY <1>3, MadeFits
<1>6. BytesInOrder' <=> BytesInOrder
  BY <1>4 DEF BytesInOrder
<1>7. CASE /\ overrun' = (overrun \/ RxLen(p) > FrameRoom)
           /\ txQ' = txQ /\ rxQ' = rxQ
  <2>1. WindowsHold' /\ Accounts'
    BY <1>1, <1>3, <1>4, <1>7 DEF WindowsHold, Accounts
  <2>2. SizesFit => NoOverrun'
    BY <1>5, <1>7 DEF UserDataInv, NoOverrun
  <2>3. Stream => Stream'
    BY <1>4, <1>7 DEF Stream
  <2> QED
    BY <1>6, <2>1, <2>2, <2>3 DEF UserDataInv
<1>8. CASE /\ cqPushErr(rxQ, rxQ.wrSeq, Copied) \in {"cqENOERR", "cqETRUNC"}
           /\ Stored(p) /\ txQ' = cqReleaseSlot(txQ, txQ.rdSeq)
  <2>1. Holding(txQ') /\ Shortened(txQ, txQ')
    BY <1>2, <1>3, <1>8, FreesFirst
  <2>2. InRange(rxQ, rxQ.wrSeq) /\ ~Valid(rxQ, rxQ.wrSeq)
    BY <1>8 DEF cqPushErr
  <2>3. rxQ.wrSeq < rxQ.rdSeq + SlotCount
    BY <2>2 DEF InRange
  <2>4. n \in Nat /\ n <= rxQ.len[Idx(rxQ.wrSeq)] /\ n <= Copied
    <3>1. rxQ.len[Idx(rxQ.wrSeq)] \in Nat
      BY <1>2, Numbers, IdxType DEF Holding
    <3>2. Copied = 2136
      BY HeaderSizes DEF Copied, FrameSaid
    <3> QED
      BY <3>1, <3>2 DEF cqPushLen, Lesser
  <2>5. /\ rxQ' = cqCommitSlot(Written(rxQ, rxQ.wrSeq, p), rxQ.wrSeq, n)
        /\ overrun' = (overrun \/ n > SlotRoom \/ RxLen(p) > FrameRoom)
    BY <1>8 DEF Stored, Written
  <2> HIDE DEF n
  <2>6. Holding(rxQ') /\ Extended(rxQ, p, rxQ')
    BY <1>2, <1>3, <2>2, <2>4, <2>5, FillsNext
  <2>7. WindowsHold'
    BY <1>3, <1>4, <2>1, <2>6 DEF WindowsHold
  <2>8. Accounts'
    BY <1>1, <1>4, <2>5 DEF Accounts
  <2>9. SizesFit => NoOverrun'
    <3>1. SizesFit => ~(n > SlotRoom)
      <4>1. SlotRoom \in Int /\ Copied \in Int
        BY HeaderSizes DEF SlotRoom, SlotHeaderSize, Copied, FrameSaid
      <4> QED
        BY <2>4, <4>1 DEF SizesFit
    <3> QED
      BY <1>5, <2>5, <3>1 DEF UserDataInv, NoOverrun
  <2>10. ASSUME OnePiece PROVE BytesInOrder' /\ Stream'
    <3>1. PICK m \in Nat : Links(rxQ, Received, m) /\ Links(txQ, m, pos)
      BY <2>10 DEF UserDataInv, Stream
    <3>2. p.from = m /\ Links(txQ', p.to, pos)
      BY <1>2, <2>1, <3>1, LinksShortened DEF p
    <3>3. Links(rxQ', Received, p.to)
      BY <1>2, <2>3, <2>6, <3>1, <3>2, LinksExtended
    <3>4. p.to \in Nat
      BY <1>3 DEF Packets
    <3>5. Stream'
      BY <1>4, <3>2, <3>3, <3>4 DEF Stream
    <3> QED
      BY <1>6, <2>10, <3>5 DEF UserDataInv
  <2> QED
    BY <2>7, <2>8, <2>9, <2>10 DEF UserDataInv
<1> QED
  BY <1>4, <1>7, <1>8

\* The piece that etcpRecv hands over with room for n bytes
Piece(p, n) == [from |-> p.from, to |-> p.from + Lesser(p.datLen, n)]

\* What etcpRecv hands over is the first packet of the receiver's window.
LEMMA RecvKeeps ==
  ASSUME UserDataInv, NEW n \in RecvSizes, Recv(n)
  PROVE  UserDataInv'
<1> DEFINE first == rxQ.buff[Idx(rxQ.rdSeq)]
<1>1. WindowsHold /\ Accounts
  BY DEF UserDataInv
<1>2. Holding(rxQ) /\ cqGetNextRdErr(rxQ) = "cqENOERR"
  BY <1>1 DEF WindowsHold, Recv
<1>3. Valid(rxQ, rxQ.rdSeq) /\ Idx(rxQ.rdSeq) \in Slots /\ Made(first)
  BY <1>2, FirstPacket
<1>4. PICK p \in ReadAs : got' = Append(got, Piece(p, n))
  BY DEF Recv, Piece
<1>5. /\ told' = Append(told, n) /\ rxQ' = cqReleaseSlot(rxQ, rxQ.rdSeq)
      /\ txQ' = txQ /\ frame' = frame /\ pos' = pos /\ overrun' = overrun
  BY DEF Recv
<1>6. p \in Packets
  <2>1. frame \in Packets
    BY <1>1, <1>3 DEF WindowsHold, Valid
  <2> QED
    BY <1>3, <2>1 DEF ReadAs, Made
<1>7. n \in Nat /\ n > 0
  BY UserDataAssumption
<1> HIDE DEF first
<1>8. PICK piece : piece = Piece(p, n)
  OBVIOUS
<1>9. piece \in [from : Nat, to : Nat]
  BY <1>6, <1>7, <1>8 DEF Packets, Piece, Lesser
<1>10. /\ got \in Seq([from : Nat, to : Nat]) /\ got' = Append(got, piece)
       /\ Len(got) \in Nat
  BY <1>1, <1>4, <1>8 DEF Accounts
<1>11. /\ got' \in Seq([from : Nat, to : Nat]) /\ Len(got') = Len(got) + 1
       /\ got'[Len(got) + 1] = piece
       /\ \A i \in 1 .. Len(got) : got'[i] = got[i]
  BY <1>9, <1>10
<1>12. told' \in Seq(RecvSizes) /\ Len(told') = Len(told) + 1
  BY <1>1, <1>5 DEF Accounts
<1>13. Holding(rxQ') /\ Shortened(rxQ, rxQ')
  BY <1>2, <1>3, <1>5, FreesFirst
<1>14. WindowsHold'
  <2>1. frame \in Packets
    BY <1>1, <1>3 DEF WindowsHold, Valid
  <2> QED
    BY <1>1, <1>5, <1>13, <2>1 DEF WindowsHold
<1>15. Accounts'
  BY <1>1, <1>5, <1>11, <1>12 DEF Accounts
<1>16. SizesFit => NoOverrun'
  BY <1>5 DEF UserDataInv, NoOverrun
<1>17. ASSUME OnePiece PROVE BytesInOrder' /\ Stream'
  <2>1. p = first
    BY <1>17 DEF OnePiece, ReadAs, first
  <2>2. piece.from = p.from /\ piece.to = p.to
    <3>1. PICK m \in SendSizes : p.datLen <= m
      BY <1>3, <2>1 DEF Made
    <3>2. m <= n /\ m \in Nat
      BY <1>17, UserDataAssumption DEF OnePiece
    <3>3. p.datLen \in Nat /\ p.to = p.from + p.datLen
      BY <1>3, <2>1 DEF Made, Packets
    <3>4. Lesser(p.datLen, n) = p.datLen
      BY <1>7, <3>1, <3>2, <3>3 DEF Lesser
    <3> QED
      BY <1>8, <3>3, <3>4 DEF Piece
  <2>3. PICK m \in Nat : Links(rxQ, Received, m) /\ Links(txQ, m, pos)
    BY <1>17 DEF UserDataInv, Stream
  <2>4. p.from = Received /\ Links(rxQ', p.to, m)
    BY <1>2, <1>13, <2>1, <2>3, LinksShortened DEF first
  <2>5. Received' = p.to
    BY <1>10, <1>11, <2>2 DEF Received
  <2>6. Stream'
    BY <1>5, <2>3, <2>4, <2>5 DEF Stream
  <2>7. BytesInOrder'
    <3>0. DOMAIN got' = 1 .. Len(got) + 1
      BY <1>11
    <3> SUFFICES ASSUME NEW i \in 1 .. Len(got) + 1
                 PROVE  got'[i].from = IF i = 1 THEN 0 ELSE got'[i - 1].to
      BY <3>0, Zenon DEF BytesInOrder
    <3>1. BytesInOrder
      BY <1>17 DEF UserDataInv
    <3>2. CASE i <= Len(got)
      <4>1. i \in 1 .. Len(got) /\ (i # 1 => i - 1 \in 1 .. Len(got))
        BY <1>10, <3>2
      <4>2. got[i].from = IF i = 1 THEN 0 ELSE got[i - 1].to
        BY <1>10, <3>1, <4>1 DEF BytesInOrder
      <4> QED
        BY <1>11, <4>1, <4>2
    <3>3. CASE i = Len(got) + 1
      <4>1. got'[i].from = Received
        BY <1>11, <2>2, <2>4, <3>3
      <4>2. CASE Len(got) = 0
        <5>1. got = <<>>
          BY <1>10, <4>2
        <5> QED
          BY <3>3, <4>1, <4>2, <5>1 DEF Received
      <4>3. CASE Len(got) # 0
        <5>1. got # <<>> /\ i - 1 = Len(got) /\ i # 1 /\ Len(got) \in 1 .. Len(got)
          BY <1>10, <3>3, <4>3
        <5>2. got'[Len(got)] = got[Len(got)]
          BY <1>11, <5>1
        <5> QED
          BY <4>1, <5>1, <5>2 DEF Received
      <4> QED
        BY <4>2, <4>3
    <3> QED
      BY <1>10, <3>2, <3>3
  <2> QED
    BY <2>6, <2>7
<1> QED
  BY <1>14, <1>15, <1>16, <1>17 DEF UserDataInv

-----------------------------------------------------------------------------
(* The theorems                                                            *)

LEMMA InitInv == Init => UserDataInv
<1> SUFFICES ASSUME Init PROVE UserDataInv
  OBVIOUS
<1>1. PICK q : q = cqNew
  OBVIOUS
<1>2. /\ txQ = q /\ rxQ = q /\ frame = Zeroed /\ pos = 0
      /\ got = <<>> /\ told = <<>> /\ overrun = FALSE
  BY <1>1 DEF Init
<1>3. /\ q.rdSeq = 0 /\ q.wrSeq = 0
      /\ \A i \in Slots : ~q.valid[i] /\ q.len[i] = SlotDataSize
  BY <1>1 DEF cqNew
<1>4. q \in QueueType({Zeroed} \cup Packets)
  BY <1>1, SlotCountAssumption, SlotDataSizeAssumption DEF cqNew, QueueType
<1>5. CursorsAgree(q) /\ WriteCursorInWindow(q)
  BY <1>1, SlotCountAssumption DEF cqNew, CursorsAgree, WriteCursorInWindow
<1>6. \A t \in Nat : ~Valid(q, t)
  BY <1>3, IdxType DEF Valid
<1>7. CursorsAtRest(q)
  BY <1>3, <1>6 DEF CursorsAtRest
<1>8. NoHoles(q) /\ TailFree(q)
  BY <1>3, <1>6, SlotCountAssumption DEF NoHoles, TailFree
<1>9. Holding(q)
  BY <1>3, <1>4, <1>5, <1>7, <1>8, SlotDataSizeAssumption DEF Holding, Windowed
<1>10. WindowsHold /\ Accounts /\ NoOverrun
  <2>1. <<>> \in Seq([from : Nat, to : Nat]) /\ <<>> \in Seq(RecvSizes)
    OBVIOUS
  <2>2. WindowsHold /\ NoOverrun
    BY <1>2, <1>3, <1>9 DEF WindowsHold, NoOverrun
  <2>3. Accounts
    BY <1>2, <2>1 DEF Accounts
  <2> QED
    BY <2>2, <2>3
<1>11. Links(q, 0, 0)
  BY <1>3 DEF Links, EndBefore
<1>12. BytesInOrder /\ Received = 0
  BY <1>2 DEF BytesInOrder, Received
<1>13. Stream
  BY <1>2, <1>11, <1>12 DEF Stream
<1> QED
  BY <1>10, <1>12, <1>13 DEF UserDataInv

LEMMA StepInv == UserDataInv /\ [Next]_vars => UserDataInv'
<1> SUFFICES ASSUME UserDataInv, [Next]_vars PROVE UserDataInv'
  OBVIOUS
<1>1. CASE \E n \in SendSizes : Send(n)
  BY <1>1, SendKeeps
<1>2. CASE Carry
  BY <1>2, CarryKeeps
<1>3. CASE \E n \in RecvSizes : Recv(n)
  BY <1>3, RecvKeeps
<1>4. CASE UNCHANGED vars
  BY <1>4 DEF vars, UserDataInv, WindowsHold, Accounts, NoOverrun, BytesInOrder,
              Stream, Links, EndBefore, Received
<1> QED
  BY <1>1, <1>2, <1>3, <1>4 DEF Next

\* Whatever lengths are sent and received, and however many slots there are,
\* the windows stay windows of packets made by doEtcpUserTx, and under the
\* conditions SizesFit and OnePiece the rest holds as below.
THEOREM UserDataInvariant == Spec => []UserDataInv
  BY InitInv, StepInv, PTL DEF Spec

\* The state of a connection keeps its type: no length or number in it ever
\* becomes negative, and every slot in use holds a packet.
THEOREM UserDataTypes == Spec => []TypeOK
<1>1. ASSUME UserDataInv PROVE TypeOK
  BY <1>1 DEF UserDataInv, WindowsHold, Accounts, Holding, TypeOK
<1> QED
  BY <1>1, UserDataInvariant, PTL

\* Neither doEtcpUserTx nor etcpOnRxDat nor the hardware writes past the end
\* of a slot or of the frame buffer, if the longest packet the application
\* makes fits them, although a slot used before claims to be longer than it is.
THEOREM BuffersSuffice == ASSUME SizesFit PROVE Spec => []NoOverrun
<1>1. ASSUME UserDataInv PROVE NoOverrun
  BY <1>1 DEF UserDataInv
<1> QED
  BY <1>1, UserDataInvariant, PTL

\* What etcpRecv hands over is what was given to etcpSend, in order and
\* without a gap or a repetition, however often slots run out, if a call takes
\* one packet and the receiver has room for it.
THEOREM StreamArrivesInOrder == ASSUME OnePiece PROVE Spec => []BytesInOrder
<1>1. ASSUME UserDataInv PROVE BytesInOrder
  BY <1>1 DEF UserDataInv
<1> QED
  BY <1>1, UserDataInvariant, PTL
=============================================================================
