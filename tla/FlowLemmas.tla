----------------------------- MODULE FlowLemmas -----------------------------
(***************************************************************************)
(* What each call does to its side of a connection, for queues, packets    *)
(* and acknowledgements of any size.  The client: transmission, and what   *)
(* an acknowledgement releases.  The server: taking a packet in, the two   *)
(* passes that make acknowledgements, handing a packet over.               *)
(***************************************************************************)
EXTENDS Flow, QueueLemmas

\* Every slot has room for a packet.
Roomy(q) == \A j \in Slots : SlotDataSize <= q.len[j]

\* A queue in order, with contents from C
Sound(C, q) == q \in QueueType(C) /\ Windowed(q) /\ Roomy(q)

\* An emptied slot, header included, has room for a packet.
LEMMA SlotHasRoom == SlotSize \in Nat /\ SlotDataSize <= SlotSize
  BY SlotDataSizeAssumption DEF SlotSize, SlotHeaderSize

\* A fresh queue is in order.
LEMMA NewIsSound ==
  ASSUME NEW C, Zeroed \in C, NEW q, q = cqNew
  PROVE  /\ Sound(C, q) /\ TailFree(q) /\ NoHoles(q)
         /\ q.rdSeq = 0 /\ q.wrSeq = 0 /\ q.available = SlotCount
         /\ \A j \in Slots : ~q.valid[j]
<1>1. q.rdSeq = 0 /\ q.wrSeq = 0 /\ \A j \in Slots : ~q.valid[j]
  BY DEF cqNew
<1>2. q \in QueueType(C)
  BY SlotCountAssumption, SlotDataSizeAssumption DEF cqNew, QueueType
<1>3. CursorsAgree(q) /\ WriteCursorInWindow(q) /\ Roomy(q) /\ q.available = SlotCount
  BY SlotCountAssumption, SlotDataSizeAssumption
     DEF cqNew, CursorsAgree, WriteCursorInWindow, Roomy, Slots
<1>4. \A t \in Nat : ~Valid(q, t)
  BY <1>1, IdxType DEF Valid
<1>5. CursorsAtRest(q)
  BY <1>1, <1>4 DEF CursorsAtRest
<1>6. TailFree(q) /\ NoHoles(q)
  BY <1>1, <1>4, SlotCountAssumption DEF TailFree, NoHoles
<1> QED
  BY <1>1, <1>2, <1>3, <1>5, <1>6 DEF Sound, Windowed

\* Writing into a slot changes what it holds and nothing else.
LEMMA StoredEffect ==
  ASSUME NEW C, NEW q, Sound(C, q), NEW x \in C, NEW s \in Nat,
         NEW p, p = Stored(q, s, x)
  PROVE  /\ Sound(C, p) /\ SameWindow(q, p)
         /\ p.buff = [q.buff EXCEPT ![Idx(s)] = x]
<1>1. q \in QueueType(C) /\ Idx(s) \in Slots
  BY IdxType DEF Sound
<1>2. p \in QueueType(C)
  BY <1>1 DEF Stored, QueueType
<1>3. SameWindow(q, p) /\ p.buff = [q.buff EXCEPT ![Idx(s)] = x]
  BY <1>1 DEF Stored, SameWindow, QueueType
<1>4. Windowed(p)
  BY <1>3, SameWindowFacts DEF Sound
<1>5. Roomy(p)
  BY <1>3 DEF Sound, Roomy, SameWindow
<1> QED
  BY <1>2, <1>3, <1>4, <1>5 DEF Sound

\* A free slot of the window filled with x
AfterStore(q, s, x, p) ==
  /\ p.rdSeq = q.rdSeq
  /\ p.valid = [q.valid EXCEPT ![Idx(s)] = TRUE]
  /\ p.buff = [q.buff EXCEPT ![Idx(s)] = x]
  /\ p.wrSeq \in q.wrSeq .. q.rdSeq + SlotCount
  /\ TailFree(q) /\ s = q.wrSeq => TailFree(p) /\ p.wrSeq = q.wrSeq + 1
  /\ NoHoles(q) => NoHoles(p)

\* Commit is not refused on a free slot of the window.
LEMMA CommitStores ==
  ASSUME NEW C, NEW q, Sound(C, q), NEW x \in C, NEW s \in Nat,
         InRange(q, s), ~Valid(q, s), NEW p, p = Commit(q, s, x)
  PROVE  Sound(C, p) /\ AfterStore(q, s, x, p)
<1> DEFINE r == Stored(q, s, x)
<1>1. /\ Sound(C, r) /\ SameWindow(q, r)
      /\ r.buff = [q.buff EXCEPT ![Idx(s)] = x]
  BY StoredEffect
<1>2. p = cqCommitSlot(r, s, SlotDataSize)
  BY DEF Commit
<1> HIDE DEF r
<1>3. r \in QueueType(C) /\ Windowed(r) /\ Roomy(r)
  BY <1>1 DEF Sound
<1>4. /\ r.rdSeq = q.rdSeq /\ r.wrSeq = q.wrSeq /\ r.valid = q.valid
      /\ NoHoles(q) <=> NoHoles(r)
      /\ TailFree(q) <=> TailFree(r)
  BY <1>1, SameWindowFacts DEF SameWindow
<1>5. CommitRefusal(r, s, SlotDataSize) = "cqENOERR"
  <2>1. InRange(r, s) /\ ~Valid(r, s)
    BY <1>4 DEF InRange, Valid
  <2>2. ~(SlotDataSize > r.len[Idx(s)])
    <3>1. Idx(s) \in Slots
      BY IdxType
    <3>2. r.len[Idx(s)] \in Nat /\ SlotDataSize <= r.len[Idx(s)]
      BY <1>3, <3>1 DEF Roomy, QueueType
    <3> QED
      BY <3>2, SlotDataSizeAssumption
  <2> QED
    BY <2>1, <2>2 DEF CommitRefusal
<1>6. AfterCommit(r, s, SlotDataSize, p)
  BY <1>2, <1>3, <1>5, CommitEffect, SlotDataSizeAssumption
<1>7. p \in QueueType(C) /\ Windowed(p)
  BY <1>2, <1>3, CommitKeepsWindow, SlotDataSizeAssumption
<1>8. Roomy(p)
  <2>1. p.len = [r.len EXCEPT ![Idx(s)] = SlotDataSize]
    BY <1>6 DEF AfterCommit
  <2>2. r.len \in [Slots -> Nat]
    BY <1>3 DEF QueueType
  <2> QED
    BY <1>3, <2>1, <2>2, SlotDataSizeAssumption DEF Roomy
<1>9. NoHoles(q) => NoHoles(p)
  BY <1>2, <1>3, <1>4, CommitKeepsNoHoles, SlotDataSizeAssumption
<1>10. TailFree(q) /\ s = q.wrSeq => TailFree(p) /\ p.wrSeq = q.wrSeq + 1
  BY <1>2, <1>3, <1>4, <1>5, CommitKeepsTailFree, SlotDataSizeAssumption
<1>11. AfterStore(q, s, x, p)
  BY <1>1, <1>4, <1>6, <1>9, <1>10 DEF AfterStore, AfterCommit
<1> QED
  BY <1>7, <1>8, <1>11 DEF Sound

\* p is q with some of its slots emptied, and perhaps other contents.
Shrunk(q, p) ==
  /\ p.wrSeq = q.wrSeq
  /\ p.rdSeq \in q.rdSeq .. q.wrSeq
  /\ \A t \in q.rdSeq .. p.rdSeq - 1 : ~Valid(p, t)
  /\ \A j \in Slots : p.valid[j] => q.valid[j]
  /\ TailFree(q) => TailFree(p)

\* A release empties the slot of the number released, or does nothing.
LEMMA ReleaseShrinks ==
  ASSUME NEW C, NEW q, Sound(C, q), NEW s \in Int, NEW p, p = cqReleaseSlot(q, s)
  PROVE  /\ Sound(C, p) /\ Shrunk(q, p) /\ p.buff = q.buff
         /\ p.valid = IF cqGetRdErr(q, s) = "cqENOERR"
                      THEN [q.valid EXCEPT ![Idx(s)] = FALSE] ELSE q.valid
<1>1. q \in QueueType(C) /\ Windowed(q) /\ Roomy(q)
  BY DEF Sound
<1>2. /\ q.rdSeq \in Nat /\ q.wrSeq \in Nat /\ q.rdSeq <= q.wrSeq
      /\ q.valid \in [Slots -> BOOLEAN] /\ q.len \in [Slots -> Nat]
  BY <1>1, Numbers
<1>3. CASE cqGetRdErr(q, s) # "cqENOERR"
  <2>1. p = q
    BY <1>3 DEF cqReleaseSlot
  <2>2. Shrunk(q, q)
    BY <1>2 DEF Shrunk
  <2> QED
    BY <1>3, <2>1, <2>2
<1>4. CASE cqGetRdErr(q, s) = "cqENOERR"
  <2>1. s \in Nat
    BY <1>2, <1>4 DEF cqGetRdErr, InRange, cqGetErr
  <2>2. AfterRelease(q, s, p)
    BY <1>1, <1>4, <2>1, ReleaseEffect
  <2>3. p \in QueueType(C) /\ Windowed(p)
    BY <1>1, <2>1, ReleaseKeepsWindow
  <2>4. TailFree(q) => TailFree(p)
    BY <1>1, <2>1, ReleaseKeepsTailFree
  <2>5. Roomy(p)
    <3>1. p.len = [q.len EXCEPT ![Idx(s)] = SlotSize]
      BY <2>2 DEF AfterRelease
    <3> QED
      BY <1>1, <1>2, <3>1, SlotHasRoom DEF Roomy
  <2>6. p.valid = [q.valid EXCEPT ![Idx(s)] = FALSE] /\ p.buff = q.buff
    BY <2>2 DEF AfterRelease
  <2>7. \A j \in Slots : p.valid[j] => q.valid[j]
    BY <1>2, <2>6
  <2>8. Shrunk(q, p)
    BY <2>2, <2>4, <2>7 DEF Shrunk, AfterRelease
  <2> QED
    BY <1>4, <2>3, <2>5, <2>6, <2>8 DEF Sound
<1> QED
  BY <1>3, <1>4

\* A number can be read when it is in the window and its slot is in use.
LEMMA Readable ==
  ASSUME NEW C, NEW q, Sound(C, q), NEW s \in Int
  PROVE  cqGetRdErr(q, s) = "cqENOERR" <=> InRange(q, s) /\ Valid(q, s)
<1>1. q.rdSeq \in Nat /\ SlotCount \in Nat
  BY Numbers DEF Sound
<1> QED
  BY <1>1 DEF cqGetRdErr, cqGetErr, InRange

\* Emptying slots twice over is emptying slots.
LEMMA ShrunkTwice ==
  ASSUME NEW C, NEW q, Sound(C, q), NEW r, Sound(C, r), NEW p, Shrunk(q, r), Shrunk(r, p)
  PROVE  Shrunk(q, p)
<1>1. q.rdSeq \in Nat /\ q.wrSeq \in Nat /\ r.rdSeq \in Nat /\ r.valid \in [Slots -> BOOLEAN]
  BY Numbers DEF Sound
<1>2. \A t \in q.rdSeq .. p.rdSeq - 1 : ~Valid(p, t)
  <2> SUFFICES ASSUME NEW t \in q.rdSeq .. p.rdSeq - 1 PROVE ~Valid(p, t)
    OBVIOUS
  <2>1. t \in Nat /\ Idx(t) \in Slots
    BY <1>1, IdxType DEF Shrunk
  <2>2. CASE t >= r.rdSeq
    BY <1>1, <2>1, <2>2 DEF Shrunk
  <2>3. CASE t < r.rdSeq
    <3>1. ~Valid(r, t)
      BY <1>1, <2>1, <2>3 DEF Shrunk
    <3> QED
      BY <2>1, <3>1 DEF Shrunk, Valid
  <2> QED
    BY <1>1, <2>1, <2>2, <2>3
<1> QED
  BY <1>1, <1>2 DEF Shrunk
-----------------------------------------------------------------------------
(* Packets                                                                 *)

AckFields == [offset : Int, count : Nat]

AckPackets ==
  [type : {"ACK"}, txState : {"RDY", "NOW"}, base : Nat, sackCount : Nat,
   fields : Seq(AckFields)]

\* What goes out for r is what goes out for p.
Same(p, r) == r.type = p.type /\ Frame(r) = Frame(p)

\* Nobody waits for an answer to it.
LetGo(p) == p.type = "ACK" \/ p.noAck

\* The packets of one queue are all of one type.
PacketSet(P) == P = DatPackets \/ P = AckPackets

Marked(x, m) == [x EXCEPT !.txState = m]

Tried(x) == [x EXCEPT !.txAttempts = @ + 1]

\* Marking a packet leaves it the same.
LEMMA MarkedSame ==
  ASSUME NEW P, PacketSet(P), NEW x \in P, NEW y, Same(y, x), NEW m \in {"RDY", "NOW"}
  PROVE  Marked(x, m) \in P /\ Same(y, Marked(x, m))
<1> DEFINE r == Marked(x, m)
<1>1. CASE P = DatPackets
  <2>1. /\ r \in DatPackets /\ r.type = "DAT" /\ x.type = "DAT"
        /\ r.seq = x.seq /\ r.noAck = x.noAck
    BY <1>1 DEF DatPackets, Marked
  <2> HIDE DEF r
  <2>2. Frame(r) = Frame(x)
    BY <2>1 DEF Frame, DatFrame
  <2> QED
    BY <1>1, <2>1, <2>2 DEF r, Same
<1>2. CASE P = AckPackets
  <2>1. /\ r \in AckPackets /\ r.type = "ACK" /\ x.type = "ACK"
        /\ r.base = x.base /\ r.sackCount = x.sackCount /\ r.fields = x.fields
    BY <1>2 DEF AckPackets, Marked
  <2> HIDE DEF r
  <2>2. Frame(r) = Frame(x)
    BY <2>1 DEF Frame, AckFrame
  <2> QED
    BY <1>2, <2>1, <2>2 DEF r, Same
<1> QED
  BY <1>1, <1>2 DEF PacketSet

\* So does counting an attempt to send it.
LEMMA TriedSame ==
  ASSUME NEW P, PacketSet(P), NEW x \in P, x.type = "DAT", NEW y, Same(y, x)
  PROVE  Tried(x) \in P /\ Same(y, Tried(x)) /\ x.noAck = y.noAck
<1> DEFINE r == Tried(x)
<1>1. P = DatPackets
  <2>1. ASSUME P = AckPackets PROVE x.type = "ACK"
    BY <2>1 DEF AckPackets
  <2> QED
    BY <2>1 DEF PacketSet
<1>2. /\ r \in DatPackets /\ r.type = "DAT" /\ x.type = "DAT"
      /\ r.seq = x.seq /\ r.noAck = x.noAck
  BY <1>1 DEF DatPackets, Tried
<1> HIDE DEF r
<1>3. Frame(r) = Frame(x) /\ y.type = "DAT"
  BY <1>2 DEF Frame, DatFrame, Same
<1>4. DatFrame(y) = DatFrame(x)
  BY <1>2, <1>3 DEF Frame, Same
<1>5. DatFrame(y).noAck = y.noAck /\ DatFrame(x).noAck = x.noAck
  BY DEF DatFrame
<1>6. x.noAck = y.noAck
  BY <1>4, <1>5, Zenon
<1> QED
  BY <1>1, <1>2, <1>3, <1>6 DEF Same, r

\* A packet is of one of the two types.
LEMMA PacketType ==
  ASSUME NEW P, PacketSet(P), NEW x \in P
  PROVE  /\ x.type \in {"DAT", "ACK"} /\ x.txState \in {"RDY", "NOW"} /\ Same(x, x)
         /\ x.type = "DAT" => P = DatPackets
         /\ x.type = "ACK" => P = AckPackets
<1>1. Same(x, x)
  BY DEF Same
<1>2. CASE P = DatPackets
  <2>1. x.type = "DAT" /\ x.txState \in {"RDY", "NOW"}
    BY <1>2 DEF DatPackets
  <2> QED
    BY <1>1, <1>2, <2>1
<1>3. CASE P = AckPackets
  <2>1. x.type = "ACK" /\ x.txState \in {"RDY", "NOW"}
    BY <1>3 DEF AckPackets
  <2> QED
    BY <1>1, <1>3, <2>1
<1> QED
  BY <1>2, <1>3 DEF PacketSet

\* What is left of the packets of q0: each in its slot, and the same.
Kept(P, q0, q) ==
  /\ Sound({Zeroed} \cup P, q)
  /\ Shrunk(q0, q)
  /\ \A j \in Slots : q.valid[j] => q.buff[j] \in P /\ Same(q0.buff[j], q.buff[j])

\* The slots that are used hold packets of P.
Holds(P, q) == \A j \in Slots : q.valid[j] => q.buff[j] \in P

LEMMA KeptAtFirst ==
  ASSUME NEW P, PacketSet(P), NEW q, Sound({Zeroed} \cup P, q), Holds(P, q)
  PROVE  Kept(P, q, q)
<1>1. q.rdSeq \in Nat /\ q.wrSeq \in Nat /\ q.rdSeq <= q.wrSeq
  BY Numbers DEF Sound
<1>2. Shrunk(q, q)
  BY <1>1 DEF Shrunk
<1> QED
  BY <1>2, PacketType DEF Kept, Holds

\* Writing the same packet in its slot
LEMMA KeptRewritten ==
  ASSUME NEW P, PacketSet(P), NEW q0, NEW q, Kept(P, q0, q),
         NEW i \in Nat, Valid(q, i), NEW x \in P, Same(q0.buff[Idx(i)], x),
         NEW p, p = WithPacket(q, i, x)
  PROVE  Kept(P, q0, p) /\ p.valid = q.valid /\ Packet(p, i) = x
<1>1. Idx(i) \in Slots /\ Sound({Zeroed} \cup P, q) /\ Shrunk(q0, q)
  BY IdxType DEF Kept
<1>2. p = Stored(q, i, x)
  BY DEF WithPacket, Stored
<1>3. x \in {Zeroed} \cup P
  OBVIOUS
<1>4. /\ Sound({Zeroed} \cup P, p) /\ SameWindow(q, p)
      /\ p.buff = [q.buff EXCEPT ![Idx(i)] = x]
  BY <1>1, <1>2, <1>3, StoredEffect
<1>5. Shrunk(q0, p)
  <2>1. TailFree(p) <=> TailFree(q)
    BY <1>4, SameWindowFacts
  <2> QED
    BY <1>1, <1>4, <2>1 DEF Shrunk, SameWindow, Valid
<1>6. q.buff \in [Slots -> {Zeroed} \cup P]
  BY <1>1 DEF Sound, QueueType
<1>7. Packet(p, i) = x
  BY <1>1, <1>4, <1>6 DEF Packet
<1>8. p.valid = q.valid
  BY <1>4 DEF SameWindow
<1>9. \A j \in Slots : p.valid[j] => p.buff[j] \in P /\ Same(q0.buff[j], p.buff[j])
  <2> SUFFICES ASSUME NEW j \in Slots, p.valid[j]
               PROVE  p.buff[j] \in P /\ Same(q0.buff[j], p.buff[j])
    OBVIOUS
  <2>1. CASE j = Idx(i)
    BY <1>7, <2>1 DEF Packet
  <2>2. CASE j # Idx(i)
    <3>1. p.buff[j] = q.buff[j]
      BY <1>4, <1>6, <2>2
    <3> QED
      BY <1>8, <3>1 DEF Kept
  <2> QED
    BY <2>1, <2>2
<1> QED
  BY <1>4, <1>5, <1>7, <1>8, <1>9 DEF Kept

\* No slot was emptied but that of number i, which could be read.
OnlyEmptied(q, p, i) ==
  \A j \in Slots : q.valid[j] /\ ~p.valid[j] =>
    j = Idx(i) /\ cqGetRdErr(q, i) = "cqENOERR"

\* Releasing one of the packets
LEMMA KeptReleased ==
  ASSUME NEW P, PacketSet(P), NEW q0, Sound({Zeroed} \cup P, q0),
         NEW q, Kept(P, q0, q),
         NEW i \in Int, NEW p, p = cqReleaseSlot(q, i)
  PROVE  Kept(P, q0, p) /\ p.buff = q.buff /\ OnlyEmptied(q, p, i)
<1>1. Sound({Zeroed} \cup P, q) /\ Shrunk(q0, q)
  BY DEF Kept
<1>2. /\ Sound({Zeroed} \cup P, p) /\ Shrunk(q, p) /\ p.buff = q.buff
      /\ p.valid = IF cqGetRdErr(q, i) = "cqENOERR"
                   THEN [q.valid EXCEPT ![Idx(i)] = FALSE] ELSE q.valid
  BY <1>1, ReleaseShrinks
<1>3. Shrunk(q0, p)
  BY <1>1, <1>2, ShrunkTwice
<1>4. \A j \in Slots : p.valid[j] => q.valid[j]
  BY <1>2 DEF Shrunk
<1>5. \A j \in Slots : p.valid[j] => p.buff[j] \in P /\ Same(q0.buff[j], p.buff[j])
  BY <1>2, <1>4 DEF Kept
<1>6. q.valid \in [Slots -> BOOLEAN]
  BY <1>1 DEF Sound, QueueType
<1>7. OnlyEmptied(q, p, i)
  BY <1>2, <1>6, Zenon DEF OnlyEmptied
<1> QED
  BY <1>2, <1>3, <1>5, <1>7 DEF Kept
-----------------------------------------------------------------------------
(* doEtcpNetTx                                                             *)

\* A packet that went out stays, unless nobody waits for an answer to it.
LEMMA SentKeeps ==
  ASSUME NEW P, PacketSet(P), NEW q0, Sound({Zeroed} \cup P, q0), Holds(P, q0),
         NEW q, Kept(P, q0, q), NEW i \in Nat, Valid(q, i),
         NEW x \in P, Same(q0.buff[Idx(i)], x),
         NEW ready, ready = Marked(x, "RDY"),
         NEW p, p = AfterSend(q, i, ready)
  PROVE  /\ Kept(P, q0, p)
         /\ \A j \in Slots : q.valid[j] /\ ~p.valid[j] => j = Idx(i) /\ LetGo(q0.buff[j])
<1> DEFINE y == q0.buff[Idx(i)]
<1>1. Idx(i) \in Slots /\ y \in P
  BY IdxType DEF Kept, Shrunk, Valid, Holds
<1>2. /\ ready \in P /\ Same(y, ready)
      /\ ready.type = "DAT" =>
           Tried(ready) \in P /\ Same(y, Tried(ready)) /\ ready.noAck = y.noAck
  <2>1. Same(y, x)
    OBVIOUS
  <2> HIDE DEF y
  <2>2. ready \in P /\ Same(y, ready)
    BY <2>1, MarkedSame
  <2> QED
    BY <2>2, TriedSame
<1>3. ready.type \in {"DAT", "ACK"}
  BY <1>2, PacketType
<1> HIDE DEF y
<1>4. ready.type = y.type
  BY <1>2 DEF Same
<1>5. i \in Int
  OBVIOUS
<1>6. CASE ready.type = "ACK"
  <2>1. p = cqReleaseSlot(q, i)
    BY <1>6 DEF AfterSend
  <2>2. LetGo(y)
    BY <1>4, <1>6 DEF LetGo
  <2>3. Kept(P, q0, p) /\ OnlyEmptied(q, p, i)
    BY <1>5, <2>1, KeptReleased
  <2> QED
    BY <2>2, <2>3 DEF y, OnlyEmptied
<1>7. CASE ready.type = "DAT"
  <2> DEFINE r == WithPacket(q, i, Tried(ready))
  <2>1. p = IF ready.noAck THEN cqReleaseSlot(r, i) ELSE r
    BY <1>7 DEF AfterSend, Tried
  <2>2. Kept(P, q0, r) /\ r.valid = q.valid
    BY <1>2, <1>7, KeptRewritten DEF y
  <2> HIDE DEF r
  <2>3. CASE ready.noAck
    <3>1. LetGo(y)
      BY <1>2, <1>7, <2>3 DEF LetGo
    <3>2. p = cqReleaseSlot(r, i)
      BY <2>1, <2>3
    <3>3. Kept(P, q0, p) /\ OnlyEmptied(r, p, i)
      BY <1>5, <2>2, <3>2, KeptReleased
    <3> QED
      BY <2>2, <3>1, <3>3 DEF y, OnlyEmptied
  <2>4. CASE ~ready.noAck
    BY <2>1, <2>2, <2>4
  <2> QED
    BY <2>3, <2>4
<1> QED
  BY <1>3, <1>6, <1>7

\* What is so throughout the loop, which began with q0: every packet is still
\* there, or was let go of after the hardware took it or had no capacity.
TxRun(P, q0, hw, run) ==
  /\ run = [q |-> run.q, sent |-> run.sent, on |-> run.on]
  /\ Kept(P, q0, run.q)
  /\ \A f \in run.sent : \E j \in Slots : q0.valid[j] /\ f = Frame(q0.buff[j])
  /\ \A j \in Slots : q0.valid[j] /\ ~run.q.valid[j] =>
       LetGo(q0.buff[j]) /\ (hw[j] = "full" \/ Frame(q0.buff[j]) \in run.sent)

\* The hardware answers for every packet.
Answers(q0, hw) == \A j \in Slots : q0.valid[j] => hw[j] \in {"sent", "full", "error"}

LEMMA SendKeeps ==
  ASSUME NEW P, PacketSet(P), NEW q0, Sound({Zeroed} \cup P, q0), Holds(P, q0),
         NEW hw, Answers(q0, hw), NEW maxSlots, NEW i \in Nat,
         NEW run, TxRun(P, q0, hw, run),
         NEW next, next = SendSlot([maxSlots |-> maxSlots, hw |-> hw], run, i)
  PROVE  TxRun(P, q0, hw, next)
<1> DEFINE q == run.q
           x == Packet(q, i)
           ready == Marked(x, "RDY")
           q1 == WithPacket(q, i, ready)
<1>1. CASE next = run
  BY <1>1
<1>2. CASE next = [run EXCEPT !.on = FALSE]
  <2>1. /\ next.q = run.q /\ next.sent = run.sent
        /\ next = [q |-> next.q, sent |-> next.sent, on |-> next.on]
    BY <1>2 DEF TxRun
  <2> QED
    BY <2>1 DEF TxRun
<1>3. ASSUME cqGetRdErr(q, i) = "cqENOERR"
      PROVE  /\ Valid(q, i) /\ Idx(i) \in Slots /\ x \in P /\ Same(q0.buff[Idx(i)], x)
             /\ q0.valid[Idx(i)] /\ x.txState \in {"RDY", "NOW"} /\ q0.buff[Idx(i)] \in P
  <2>1. Valid(q, i) /\ Idx(i) \in Slots
    BY <1>3, IdxType, Readable DEF TxRun, Kept
  <2>2. x \in P /\ Same(q0.buff[Idx(i)], x) /\ q0.valid[Idx(i)]
    BY <2>1 DEF TxRun, Kept, Shrunk, Valid, Packet
  <2> HIDE DEF x
  <2> QED
    BY <2>1, <2>2, PacketType DEF Holds
<1>4. CASE cqGetRdErr(q, i) = "cqENOERR" /\ next = [run EXCEPT !.q = q1, !.on = FALSE]
  <2> HIDE DEF q, x
  <2>1. ready \in P /\ Same(q0.buff[Idx(i)], ready)
    BY <1>3, <1>4, MarkedSame
  <2>2. Kept(P, q0, q)
    BY DEF TxRun, q
  <2> HIDE DEF ready
  <2>3. Kept(P, q0, q1) /\ q1.valid = q.valid
    BY <1>3, <1>4, <2>1, <2>2, KeptRewritten
  <2> HIDE DEF q1
  <2>4. next.q = q1 /\ next.sent = run.sent
        /\ next = [q |-> next.q, sent |-> next.sent, on |-> next.on]
    BY <1>4 DEF TxRun
  <2> QED
    BY <2>3, <2>4 DEF TxRun, q
<1>5. CASE /\ cqGetRdErr(q, i) = "cqENOERR" /\ ~HwFails(hw, i)
           /\ next = [run EXCEPT
                !.q = AfterSend(q1, i, ready),
                !.sent = IF hw[Idx(i)] = "sent" THEN @ \cup {Frame(x)} ELSE @]
  <2> HIDE DEF q, x
  <2>1. ready \in P /\ Same(q0.buff[Idx(i)], ready)
    BY <1>3, <1>5, MarkedSame
  <2>2. Kept(P, q0, q)
    BY DEF TxRun, q
  <2>3. Kept(P, q0, q1) /\ q1.valid = q.valid
    <3> HIDE DEF ready
    <3> QED
      BY <1>3, <1>5, <2>1, <2>2, KeptRewritten
  <2>4. Valid(q1, i)
    BY <1>3, <1>5, <2>3 DEF Valid
  <2> DEFINE n == AfterSend(q1, i, ready)
  <2>a. ready = Marked(x, "RDY")
    OBVIOUS
  <2> HIDE DEF q1, ready
  <2>5. /\ Kept(P, q0, n)
        /\ \A j \in Slots : q1.valid[j] /\ ~n.valid[j] => j = Idx(i) /\ LetGo(q0.buff[j])
    BY <1>3, <1>5, <2>3, <2>4, <2>a, SentKeeps
  <2> HIDE DEF n
  <2>6. /\ next.q = n
        /\ next.sent = IF hw[Idx(i)] = "sent" THEN run.sent \cup {Frame(x)} ELSE run.sent
        /\ next = [q |-> next.q, sent |-> next.sent, on |-> next.on]
    BY <1>5 DEF TxRun, n
  <2>7. Frame(x) = Frame(q0.buff[Idx(i)])
    BY <1>3, <1>5 DEF Same
  <2>8. \A f \in next.sent : \E j \in Slots : q0.valid[j] /\ f = Frame(q0.buff[j])
    BY <1>3, <1>5, <2>6, <2>7 DEF TxRun
  <2>9. hw[Idx(i)] = "sent" \/ hw[Idx(i)] = "full"
    BY <1>3, <1>5 DEF HwFails, Answers
  <2>10. ASSUME NEW j \in Slots, q0.valid[j], ~n.valid[j]
         PROVE  LetGo(q0.buff[j]) /\ (hw[j] = "full" \/ Frame(q0.buff[j]) \in next.sent)
    <3>1. CASE q.valid[j]
      <4>1. j = Idx(i) /\ LetGo(q0.buff[j])
        BY <2>3, <2>5, <2>10, <3>1
      <4> QED
        BY <4>1, <2>6, <2>7, <2>9
    <3>2. CASE ~q.valid[j]
      BY <2>6, <2>10, <3>2 DEF TxRun, q
    <3> QED
      BY <3>1, <3>2
  <2> QED
    BY <2>5, <2>6, <2>8, <2>10 DEF TxRun
<1>6. cqGetRdErr(q, i) = "cqENOERR" => x.txState # "DRP"
  BY <1>3
<1> QED
  <2> HIDE DEF q1, ready
  <2> QED
    BY <1>1, <1>2, <1>4, <1>5, <1>6 DEF SendSlot, q1, ready, Marked

SendStates == INSTANCE IterationProofs WITH Step <- SendSlot

\* The transmission loop: what went out was there, nothing was changed but the
\* marks, and only what was sent, or met with no capacity, is gone.
LEMMA NetTxKeeps ==
  ASSUME NEW P, PacketSet(P), NEW q0, Sound({Zeroed} \cup P, q0), Holds(P, q0),
         NEW hw, Answers(q0, hw), NEW maxSlots,
         NEW run, run = doEtcpNetTx(q0, maxSlots, hw)
  PROVE  TxRun(P, q0, hw, run)
<1> DEFINE fixed == [maxSlots |-> maxSlots, hw |-> hw]
           start == [q |-> q0, sent |-> {}, on |-> TRUE]
           elems == [k \in 1 .. SlotCount + 1 |-> q0.rdMin + k - 1]
           n == SlotCount + 1
           r == SendStates!Run(fixed, start, elems)
           Held == {k \in 0 .. n : TxRun(P, q0, hw, r[k])}
<1>1. n \in Nat /\ q0.rdMin \in Nat
  BY SlotCountAssumption DEF Sound, QueueType
<1>2. Len(elems) = n /\ \A k \in 1 .. n : elems[k] \in Nat
  BY <1>1
<1>3. run = r[n]
  BY <1>2 DEF doEtcpNetTx, SendLoop!After, SendLoop!Run, SendStates!Run
<1>4. TxRun(P, q0, hw, start)
  <2>1. Kept(P, q0, q0)
    BY KeptAtFirst
  <2> QED
    BY <2>1 DEF TxRun
<1> HIDE DEF start, elems, n, fixed
<1>5. /\ r[0] = start
      /\ \A k \in 1 .. n : r[k] = SendSlot(fixed, r[k - 1], elems[k])
  <2>1. Len(elems) \in Nat
    BY <1>1, <1>2
  <2>2. /\ r[0] = start
        /\ \A k \in 1 .. Len(elems) : r[k] = SendSlot(fixed, r[k - 1], elems[k])
    BY <2>1, SendStates!RunSteps
  <2> HIDE DEF r
  <2> QED
    BY <1>2, <2>2
<1> HIDE DEF r
<1>6. 0 \in Held
  BY <1>1, <1>4, <1>5
<1>7. ASSUME NEW k \in 1 .. n, k - 1 \in Held PROVE k \in Held
  <2>1. k \in 0 .. n /\ elems[k] \in Nat /\ TxRun(P, q0, hw, r[k - 1])
    BY <1>1, <1>2, <1>7
  <2>2. r[k] = SendSlot([maxSlots |-> maxSlots, hw |-> hw], r[k - 1], elems[k])
    BY <1>5 DEF fixed
  <2>3. TxRun(P, q0, hw, r[k])
    BY <2>1, <2>2, SendKeeps
  <2> QED
    BY <2>1, <2>3
<1>8. n \in Held
  <2> HIDE DEF Held
  <2> QED
    BY <1>1, <1>6, <1>7, SendStates!CountUp, Zenon
<1> QED
  BY <1>3, <1>8
-----------------------------------------------------------------------------
(* etcpTxTc                                                                *)

\* The numbers before the first that stops the callback's loop do not.
LEMMA BeforeStop ==
  ASSUME NEW q, q.rdMin \in Nat, q.rdMax \in Nat, NEW stops, stops \subseteq ReadNumbers(q),
         NEW s \in q.rdMin .. FirstStopped(q, stops) - 1
  PROVE  s \in ReadNumbers(q) /\ s \notin stops /\ s \in Nat
<1> DEFINE T == stops \cup {q.rdMax}
<1>1. T \subseteq Nat /\ T # {}
  <2>1. ReadNumbers(q) \subseteq Nat
    BY DEF ReadNumbers
  <2>2. stops \subseteq Nat
    BY <2>1
  <2> QED
    BY <2>2
<1>2. \E x \in T : \A y \in T : x <= y
  <2> HIDE DEF T
  <2> QED
    BY <1>1, LeastNatural
<1>3. FirstStopped(q, stops) = CHOOSE x \in T : \A y \in T : x <= y
  BY DEF FirstStopped, Min
<1>4. /\ FirstStopped(q, stops) \in T
      /\ \A y \in T : FirstStopped(q, stops) <= y
  <2> HIDE DEF T
  <2> QED
    BY <1>2, <1>3
<1>5. FirstStopped(q, stops) \in Nat /\ FirstStopped(q, stops) <= q.rdMax
  BY <1>1, <1>4
<1>6. s \in q.rdMin .. q.rdMax - 1 /\ s \in Nat /\ ~(FirstStopped(q, stops) <= s)
  BY <1>5
<1>7. s \notin stops
  BY <1>4, <1>6
<1> QED
  BY <1>6, <1>7 DEF ReadNumbers

\* Marking packets leaves them the same, where they are.
LEMMA MarkedNowKeeps ==
  ASSUME NEW P, PacketSet(P), NEW q, Sound({Zeroed} \cup P, q), Holds(P, q),
         NEW S, S \subseteq Nat, \A s \in S : Valid(q, s),
         NEW p, p = MarkedNow(q, S)
  PROVE  Kept(P, q, p) /\ SameWindow(q, p)
<1> DEFINE C == {Zeroed} \cup P
           named == {j \in Slots : \E s \in S : Idx(s) = j}
<1>1. q \in QueueType(C) /\ q.buff \in [Slots -> C]
  BY DEF Sound, QueueType
<1>2. \A j \in named : q.valid[j] /\ q.buff[j] \in P
  BY DEF Valid, Holds
<1>3. /\ SameWindow(q, p)
      /\ p = [q EXCEPT !.buff = p.buff]
      /\ p.buff = [j \in Slots |-> IF j \in named THEN Marked(q.buff[j], "NOW") ELSE q.buff[j]]
  BY <1>1 DEF MarkedNow, Marked, SameWindow, QueueType
<1>4. ASSUME NEW j \in Slots
      PROVE  /\ p.buff[j] \in C
             /\ q.valid[j] => p.buff[j] \in P /\ Same(q.buff[j], p.buff[j])
  <2>1. CASE j \in named
    <3>1. q.buff[j] \in P
      BY <1>2, <2>1
    <3>2. Same(q.buff[j], q.buff[j])
      BY DEF Same
    <3>3. Marked(q.buff[j], "NOW") \in P /\ Same(q.buff[j], Marked(q.buff[j], "NOW"))
      BY <3>1, <3>2, MarkedSame
    <3>4. p.buff[j] = Marked(q.buff[j], "NOW")
      BY <1>3, <2>1
    <3> QED
      BY <3>3, <3>4
  <2>2. CASE j \notin named
    <3>1. p.buff[j] = q.buff[j]
      BY <1>3, <2>2
    <3> QED
      BY <1>1, <3>1 DEF Same, Holds
  <2> QED
    BY <2>1, <2>2
<1>5. p.buff \in [Slots -> C]
  BY <1>3, <1>4
<1>6. p \in QueueType(C)
  <2> HIDE DEF C, named
  <2> QED
    BY <1>1, <1>3, <1>5 DEF QueueType
<1>7. Sound(C, p)
  BY <1>3, <1>6, SameWindowFacts DEF Sound, Roomy, SameWindow
<1>8. Shrunk(q, p)
  <2>1. Shrunk(q, q)
    BY KeptAtFirst DEF Kept
  <2>2. TailFree(p) <=> TailFree(q)
    BY <1>3, SameWindowFacts
  <2> QED
    BY <1>3, <2>1, <2>2 DEF Shrunk, SameWindow, Valid
<1> QED
  BY <1>3, <1>4, <1>7, <1>8 DEF Kept, SameWindow

\* The callback marks packets that are there, and nothing else.
LEMMA TcKeeps ==
  ASSUME NEW P, PacketSet(P), NEW q, Sound({Zeroed} \cup P, q), Holds(P, q), NEW late
  PROVE  /\ Kept(P, q, TcData(q, late)) /\ SameWindow(q, TcData(q, late))
         /\ Kept(P, q, TcAcks(q)) /\ SameWindow(q, TcAcks(q))
<1>1. q.rdMin \in Nat /\ q.rdMax \in Nat
  BY DEF Sound, QueueType
<1>2. \A s \in q.rdMin .. AckScanEnd(q) - 1 : s \in Nat /\ Valid(q, s)
  <2> DEFINE stops == {s \in ReadNumbers(q) : ~Valid(q, s)}
  <2>1. ASSUME NEW s \in q.rdMin .. FirstStopped(q, stops) - 1
        PROVE  s \in ReadNumbers(q) /\ s \notin stops /\ s \in Nat
    <3>1. stops \subseteq ReadNumbers(q)
      OBVIOUS
    <3> HIDE DEF stops
    <3> QED
      BY <1>1, <3>1, BeforeStop
  <2> QED
    BY <2>1 DEF AckScanEnd
<1>3. \A s \in DatScanned(q) : s \in Nat /\ Valid(q, s)
  <2> DEFINE stops == {s \in ReadNumbers(q) : ~Valid(q, s) \/ Packet(q, s).txState # "RDY"}
  <2>1. ASSUME NEW s \in q.rdMin .. FirstStopped(q, stops) - 1
        PROVE  s \in ReadNumbers(q) /\ s \notin stops /\ s \in Nat
    <3>1. stops \subseteq ReadNumbers(q)
      OBVIOUS
    <3> HIDE DEF stops
    <3> QED
      BY <1>1, <3>1, BeforeStop
  <2> QED
    BY <2>1 DEF DatScanEnd, DatScanned
<1>4. Kept(P, q, TcData(q, late)) /\ SameWindow(q, TcData(q, late))
  <2> DEFINE S == {s \in DatScanned(q) : Packet(q, s).txAttempts = 0 \/ s \in late}
  <2>1. S \subseteq Nat /\ \A s \in S : Valid(q, s)
    BY <1>3
  <2>2. TcData(q, late) = MarkedNow(q, S)
    BY DEF TcData
  <2> HIDE DEF S
  <2> QED
    BY <2>1, <2>2, MarkedNowKeeps
<1>5. Kept(P, q, TcAcks(q)) /\ SameWindow(q, TcAcks(q))
  <2> DEFINE S == {s \in q.rdMin .. AckScanEnd(q) - 1 : Packet(q, s).txState = "RDY"}
  <2>1. S \subseteq Nat /\ \A s \in S : Valid(q, s)
    BY <1>2
  <2>2. TcAcks(q) = MarkedNow(q, S)
    BY DEF TcAcks
  <2> HIDE DEF S
  <2> QED
    BY <2>1, <2>2, MarkedNowKeeps
<1> QED
  BY <1>4, <1>5
\* What the callback and the loop together did to q0
TxDone(P, q0, hw, run) ==
  /\ Kept(P, q0, run.q)
  /\ \A f \in run.sent : \E j \in Slots : q0.valid[j] /\ f = Frame(q0.buff[j])
  /\ \A j \in Slots : q0.valid[j] /\ ~run.q.valid[j] =>
       LetGo(q0.buff[j]) /\ (hw[j] = "full" \/ Frame(q0.buff[j]) \in run.sent)

\* Packets that are the same are let go of alike.
LEMMA SameLetGo ==
  ASSUME NEW P, PacketSet(P), NEW x \in P, NEW y, Same(y, x)
  PROVE  LetGo(x) <=> LetGo(y)
<1>1. x.type \in {"DAT", "ACK"} /\ y.type = x.type
  BY PacketType DEF Same
<1>2. CASE x.type = "DAT"
  BY <1>1, <1>2, TriedSame DEF LetGo
<1>3. CASE x.type = "ACK"
  BY <1>1, <1>3 DEF LetGo
<1> QED
  BY <1>1, <1>2, <1>3

LEMMA TransmitKeeps ==
  ASSUME NEW P, PacketSet(P), NEW q0, Sound({Zeroed} \cup P, q0), Holds(P, q0),
         NEW hw, Answers(q0, hw), NEW maxSlots,
         NEW q1, Kept(P, q0, q1), SameWindow(q0, q1),
         NEW run, run = doEtcpNetTx(q1, maxSlots, hw)
  PROVE  TxDone(P, q0, hw, run)
<1>1. q1.valid = q0.valid /\ Sound({Zeroed} \cup P, q1) /\ Holds(P, q1) /\ Answers(q1, hw)
  BY DEF SameWindow, Kept, Holds, Answers
<1>2. TxRun(P, q1, hw, run)
  BY <1>1, NetTxKeeps
<1>3. Shrunk(q0, run.q)
  <2>1. Shrunk(q0, q1) /\ Shrunk(q1, run.q) /\ Sound({Zeroed} \cup P, q1)
    BY <1>1, <1>2 DEF TxRun, Kept
  <2> QED
    BY <2>1, ShrunkTwice
<1>4. \A j \in Slots : q0.valid[j] => q1.buff[j] \in P /\ Same(q0.buff[j], q1.buff[j])
  BY <1>1 DEF Kept
<1>5. \A j \in Slots : q0.valid[j] => Frame(q1.buff[j]) = Frame(q0.buff[j])
  BY <1>4 DEF Same
<1>6. \A j \in Slots : q0.valid[j] => (LetGo(q1.buff[j]) <=> LetGo(q0.buff[j]))
  BY <1>4, SameLetGo
<1>7. Kept(P, q0, run.q)
  <2>1. ASSUME NEW j \in Slots, run.q.valid[j]
        PROVE  run.q.buff[j] \in P /\ Same(q0.buff[j], run.q.buff[j])
    <3>1. q0.valid[j]
      BY <1>3, <2>1 DEF Shrunk
    <3>2. run.q.buff[j] \in P /\ Same(q1.buff[j], run.q.buff[j])
      BY <1>2, <2>1 DEF TxRun, Kept
    <3>3. Same(q0.buff[j], q1.buff[j])
      BY <1>4, <3>1
    <3> QED
      BY <3>2, <3>3 DEF Same
  <2> QED
    BY <1>2, <1>3, <2>1 DEF TxRun, Kept
<1>8. \A f \in run.sent : \E j \in Slots : q0.valid[j] /\ f = Frame(q0.buff[j])
  BY <1>1, <1>2, <1>5 DEF TxRun
<1>9. ASSUME NEW j \in Slots, q0.valid[j], ~run.q.valid[j]
      PROVE  LetGo(q0.buff[j]) /\ (hw[j] = "full" \/ Frame(q0.buff[j]) \in run.sent)
  <2>1. q1.valid[j]
    BY <1>1, <1>9
  <2>2. LetGo(q1.buff[j]) /\ (hw[j] = "full" \/ Frame(q1.buff[j]) \in run.sent)
    BY <1>2, <1>9, <2>1 DEF TxRun
  <2> QED
    BY <1>5, <1>6, <1>9, <2>2
<1> QED
  BY <1>7, <1>8, <1>9 DEF TxDone
-----------------------------------------------------------------------------
(* Taking an acknowledgement in                                            *)

\* Of the packets of q0 some of those with numbers in N are gone.
Acknowledged(q0, q, N) ==
  /\ Kept(DatPackets, q0, q)
  /\ q.buff = q0.buff
  /\ \A j \in Slots : q0.valid[j] /\ ~q.valid[j] => q0.buff[j].seq \in N

\* An acknowledgement as it is on the wire
AckFrames == [type : {"ACK"}, base : Nat, sackCount : Nat, fields : Seq(AckFields)]

\* A number releases the packet that has it, and no other.
LEMMA ProcessAckKeeps ==
  ASSUME NEW q0, Sound({Zeroed} \cup DatPackets, q0), NEW N, NEW q, Acknowledged(q0, q, N),
         NEW s \in Int, s \in N, NEW p, p = etcpProcessAck(q, s)
  PROVE  Acknowledged(q0, p, N)
<1>1. CASE p = q
  BY <1>1
<1>2. CASE p = cqReleaseSlot(q, s) /\ Packet(q, s).seq = s
  <2>1. Kept(DatPackets, q0, p) /\ p.buff = q.buff /\ OnlyEmptied(q, p, s)
    BY <1>2, KeptReleased DEF PacketSet, Acknowledged
  <2>2. ASSUME NEW j \in Slots, q0.valid[j], ~p.valid[j] PROVE q0.buff[j].seq \in N
    <3>1. CASE q.valid[j]
      <4>1. j = Idx(s)
        BY <2>1, <2>2, <3>1 DEF OnlyEmptied
      <4> QED
        BY <1>2, <4>1 DEF Acknowledged, Packet
    <3>2. CASE ~q.valid[j]
      BY <2>2, <3>2 DEF Acknowledged
    <3> QED
      BY <3>1, <3>2
  <2> QED
    BY <2>1, <2>2 DEF Acknowledged
<1> QED
  BY <1>1, <1>2 DEF etcpProcessAck

NumberStates == INSTANCE IterationProofs WITH Step <- LAMBDA f, q, s : etcpProcessAck(q, s)

\* The loop over the numbers of a field
LEMMA FieldKeeps ==
  ASSUME NEW q0, Sound({Zeroed} \cup DatPackets, q0), NEW f \in AckFrames,
         NEW k \in DOMAIN f.fields, NEW q, Acknowledged(q0, q, Named(f)),
         NEW p, p = FieldStep(f, q, k)
  PROVE  Acknowledged(q0, p, Named(f))
<1> DEFINE n == f.fields[k].count
           first == f.base + f.fields[k].offset
           elems == FieldSeqs(f, k)
           r == NumberStates!Run(f, q, elems)
           Held == {i \in 0 .. n : Acknowledged(q0, r[i], Named(f))}
<1>1. n \in Nat /\ first \in Int
  <2>1. f.fields \in Seq(AckFields) /\ f.base \in Nat
    BY DEF AckFrames
  <2>2. f.fields[k] \in AckFields
    BY <2>1
  <2> QED
    BY <2>1, <2>2 DEF AckFields
<1>2. Len(elems) = n /\ \A i \in 1 .. n : elems[i] = first + i - 1
  BY <1>1 DEF FieldSeqs
<1>3. \A i \in 1 .. n : elems[i] \in Int /\ elems[i] \in Named(f)
  <2> TAKE i \in 1 .. n
  <2>1. i - 1 \in 0 .. n - 1 /\ elems[i] = first + (i - 1)
    BY <1>1, <1>2
  <2>2. elems[i] \in {first + j : j \in 0 .. n - 1}
    BY <2>1
  <2> QED
    BY <1>1, <2>1, <2>2 DEF Named
<1>4. p = r[n]
  BY <1>2 DEF FieldStep, NumberLoop!After, NumberLoop!Run, NumberStates!Run
<1> HIDE DEF elems, n, first
<1>5. r[0] = q /\ \A i \in 1 .. n : r[i] = etcpProcessAck(r[i - 1], elems[i])
  <2>1. Len(elems) \in Nat
    BY <1>1, <1>2
  <2>2. /\ r[0] = q
        /\ \A i \in 1 .. Len(elems) : r[i] = etcpProcessAck(r[i - 1], elems[i])
    BY <2>1, NumberStates!RunSteps
  <2> HIDE DEF r
  <2> QED
    BY <1>2, <2>2
<1> HIDE DEF r
<1>6. 0 \in Held
  BY <1>1, <1>5
<1>7. ASSUME NEW i \in 1 .. n, i - 1 \in Held PROVE i \in Held
  <2>1. i \in 0 .. n /\ Acknowledged(q0, r[i - 1], Named(f))
    BY <1>1, <1>7
  <2>2. Acknowledged(q0, r[i], Named(f))
    BY <1>3, <1>5, <2>1, ProcessAckKeeps
  <2> QED
    BY <2>1, <2>2
<1>8. n \in Held
  <2> HIDE DEF Held
  <2> QED
    BY <1>1, <1>6, <1>7, NumberStates!CountUp, Zenon
<1> QED
  BY <1>4, <1>8

FieldStates == INSTANCE IterationProofs WITH Step <- FieldStep

\* The loops of etcpOnRxAck release no packet but those the acknowledgement
\* names.
LEMMA AckKeeps ==
  ASSUME NEW q0, Sound({Zeroed} \cup DatPackets, q0), Holds(DatPackets, q0),
         NEW f \in AckFrames, f.sackCount = Len(f.fields),
         NEW p, p = FieldLoop!After(f, q0, [k \in 1 .. f.sackCount |-> k])
  PROVE  Acknowledged(q0, p, Named(f))
<1> DEFINE n == f.sackCount
           elems == [k \in 1 .. n |-> k]
           r == FieldStates!Run(f, q0, elems)
           Held == {i \in 0 .. n : Acknowledged(q0, r[i], Named(f))}
<1>1. n \in Nat /\ DOMAIN f.fields = 1 .. n
  BY DEF AckFrames
<1>2. Len(elems) = n /\ \A i \in 1 .. n : elems[i] = i
  BY <1>1
<1>3. Acknowledged(q0, q0, Named(f))
  <2>1. Kept(DatPackets, q0, q0)
    BY KeptAtFirst DEF PacketSet
  <2> QED
    BY <2>1 DEF Acknowledged
<1>4. p = r[n]
  BY <1>2 DEF FieldLoop!After, FieldLoop!Run, FieldStates!Run
<1> HIDE DEF elems, n
<1>5. r[0] = q0 /\ \A i \in 1 .. n : r[i] = FieldStep(f, r[i - 1], i)
  <2>1. Len(elems) \in Nat
    BY <1>1, <1>2
  <2>2. /\ r[0] = q0
        /\ \A i \in 1 .. Len(elems) : r[i] = FieldStep(f, r[i - 1], elems[i])
    BY <2>1, FieldStates!RunSteps
  <2> HIDE DEF r
  <2> QED
    BY <1>2, <2>2
<1> HIDE DEF r
<1>6. 0 \in Held
  BY <1>1, <1>3, <1>5
<1>7. ASSUME NEW i \in 1 .. n, i - 1 \in Held PROVE i \in Held
  <2>1. i \in 0 .. n /\ Acknowledged(q0, r[i - 1], Named(f))
    BY <1>1, <1>7
  <2>2. Acknowledged(q0, r[i], Named(f))
    BY <1>1, <1>5, <2>1, FieldKeeps
  <2> QED
    BY <2>1, <2>2
<1>8. n \in Held
  <2> HIDE DEF Held
  <2> QED
    BY <1>1, <1>6, <1>7, FieldStates!CountUp, Zenon
<1> QED
  BY <1>4, <1>8
-----------------------------------------------------------------------------
(* The sender's connection                                                 *)

\* A packet of the transmit window is in the slot of its number, and is one
\* of those that want no answer if it says so.
NumberedTx(q) ==
  \A j \in Slots : q.valid[j] =>
    /\ q.buff[j] \in DatPackets
    /\ q.buff[j].seq \in q.rdSeq .. q.wrSeq - 1
    /\ Idx(q.buff[j].seq) = j
    /\ q.buff[j].noAck <=> q.buff[j].seq \in NoAckSeqs

TxSide(c) ==
  /\ c = [txQ |-> c.txQ, rxQ |-> c.rxQ, seqSnd |-> c.seqSnd]
  /\ Sound({Zeroed} \cup DatPackets, c.txQ) /\ TailFree(c.txQ)
  /\ Sound({Zeroed} \cup {"SACK"}, c.rxQ)
  /\ c.seqSnd = c.txQ.wrSeq
  /\ NumberedTx(c.txQ)

\* Packets that are the same have one number, and want an answer alike.
LEMMA SameNumber ==
  ASSUME NEW x \in DatPackets, NEW y \in DatPackets, Same(x, y)
  PROVE  x.seq = y.seq /\ (x.noAck <=> y.noAck)
<1>1. x.type = "DAT" /\ y.type = "DAT"
  BY DEF DatPackets
<1>2. DatFrame(x) = DatFrame(y)
  BY <1>1 DEF Same, Frame
<1>3. /\ DatFrame(x).seq = x.seq /\ DatFrame(y).seq = y.seq
      /\ DatFrame(x).noAck = x.noAck /\ DatFrame(y).noAck = y.noAck
  BY DEF DatFrame
<1> QED
  BY <1>2, <1>3, Zenon

\* What is left of a numbered window is numbered.
LEMMA NumberedKept ==
  ASSUME NEW q0, Sound({Zeroed} \cup DatPackets, q0), NumberedTx(q0),
         NEW q, Kept(DatPackets, q0, q)
  PROVE  NumberedTx(q)
<1>1. /\ q0.rdSeq \in Nat /\ q0.wrSeq \in Nat /\ Shrunk(q0, q)
      /\ q.rdSeq \in Nat /\ q.wrSeq = q0.wrSeq
  BY Numbers DEF Sound, Kept, Shrunk
<1> SUFFICES ASSUME NEW j \in Slots, q.valid[j]
             PROVE  /\ q.buff[j] \in DatPackets
                    /\ q.buff[j].seq \in q.rdSeq .. q.wrSeq - 1
                    /\ Idx(q.buff[j].seq) = j
                    /\ q.buff[j].noAck <=> q.buff[j].seq \in NoAckSeqs
  BY DEF NumberedTx
<1>2. q0.valid[j] /\ q.buff[j] \in DatPackets /\ Same(q0.buff[j], q.buff[j])
  BY <1>1 DEF Shrunk, Kept
<1> DEFINE s == q0.buff[j].seq
<1>3. /\ q0.buff[j] \in DatPackets /\ s \in q0.rdSeq .. q0.wrSeq - 1
      /\ Idx(s) = j /\ (q0.buff[j].noAck <=> s \in NoAckSeqs)
  BY <1>2 DEF NumberedTx
<1>4. q.buff[j].seq = s /\ (q.buff[j].noAck <=> q0.buff[j].noAck)
  BY <1>2, <1>3, SameNumber
<1> HIDE DEF s
<1>5. ~(s < q.rdSeq)
  <2>1. Valid(q, s)
    BY <1>3 DEF Valid
  <2> QED
    BY <1>1, <1>3, <2>1 DEF Shrunk
<1>6. s \in q.rdSeq .. q.wrSeq - 1
  BY <1>1, <1>3, <1>5
<1> QED
  BY <1>2, <1>3, <1>4, <1>6

\* c is c0 with more packets.
More(c0, c) ==
  /\ TxSide(c)
  /\ c.txQ.rdSeq = c0.txQ.rdSeq /\ c.seqSnd >= c0.seqSnd
  /\ \A j \in Slots : c0.txQ.valid[j] => c.txQ.valid[j] /\ c.txQ.buff[j] = c0.txQ.buff[j]
  /\ \A s \in c0.seqSnd .. c.seqSnd - 1 : Valid(c.txQ, s)
  /\ \A j \in Slots : c.txQ.valid[j] =>
       c0.txQ.valid[j] \/ c.txQ.buff[j].seq >= c0.seqSnd

\* A window without a free slot at the write cursor gives none out.
LEMMA NextWr ==
  ASSUME NEW C, NEW q, Sound(C, q)
  PROVE  cqGetNextWrErr(q) = "cqENOERR" <=> InRange(q, q.wrSeq) /\ ~Valid(q, q.wrSeq)
<1>1. q.rdSeq \in Nat /\ q.wrSeq \in Nat /\ q.rdSeq <= q.wrSeq
  BY Numbers DEF Sound
<1> QED
  BY <1>1 DEF cqGetNextWrErr

\* A packet made is one more.
LEMMA PacketMadeKeeps ==
  ASSUME NEW c0, TxSide(c0), NEW c, More(c0, c), NEW d, d = PacketMade(c)
  PROVE  More(c0, d)
<1>1. CASE cqGetNextWrErr(c.txQ) # "cqENOERR"
  BY <1>1 DEF PacketMade
<1>2. CASE cqGetNextWrErr(c.txQ) = "cqENOERR"
  <2> DEFINE q == c.txQ
             n == c.seqSnd
             x == [type |-> "DAT", seq |-> n, noAck |-> n \in NoAckSeqs,
                   txState |-> "RDY", txAttempts |-> 0]
             p == Commit(q, q.wrSeq, x)
  <2>1. /\ d.txQ = p /\ d.rxQ = c.rxQ /\ d.seqSnd = n + 1
        /\ d = [txQ |-> d.txQ, rxQ |-> d.rxQ, seqSnd |-> d.seqSnd]
    BY <1>2 DEF PacketMade, More, TxSide
  <2>2. /\ Sound({Zeroed} \cup DatPackets, q) /\ TailFree(q) /\ n = q.wrSeq /\ NumberedTx(q)
        /\ n \in Nat /\ q.rdSeq \in Nat /\ q.rdSeq <= n
        /\ c0.seqSnd \in Nat /\ n >= c0.seqSnd
    BY Numbers DEF More, TxSide, Sound
  <2>3. InRange(q, n) /\ ~Valid(q, n) /\ Idx(n) \in Slots
    BY <1>2, <2>2, NextWr, IdxType
  <2>4. x \in DatPackets /\ x.seq = n /\ (x.noAck <=> n \in NoAckSeqs)
    <3>1. n \in Nat /\ (n \in NoAckSeqs) \in BOOLEAN
      BY <2>2
    <3> HIDE DEF n
    <3>2. x.noAck = (n \in NoAckSeqs)
      BY Zenon
    <3>3. x \in DatPackets /\ x.seq = n
      BY <3>1 DEF DatPackets
    <3> QED
      BY <3>2, <3>3, Zenon
  <2> HIDE DEF q, n, x
  <2>5. Sound({Zeroed} \cup DatPackets, p) /\ AfterStore(q, n, x, p)
    BY <2>2, <2>3, <2>4, CommitStores
  <2> HIDE DEF p
  <2>6. /\ p.rdSeq = q.rdSeq /\ TailFree(p) /\ p.wrSeq = n + 1
        /\ p.valid = [q.valid EXCEPT ![Idx(n)] = TRUE]
        /\ p.buff = [q.buff EXCEPT ![Idx(n)] = x]
        /\ q.valid \in [Slots -> BOOLEAN]
        /\ q.buff \in [Slots -> {Zeroed} \cup DatPackets]
    BY <2>2, <2>5 DEF AfterStore, Sound, QueueType
  <2>7. /\ p.valid[Idx(n)] /\ p.buff[Idx(n)] = x
        /\ \A j \in Slots : j # Idx(n) => p.valid[j] = q.valid[j] /\ p.buff[j] = q.buff[j]
        /\ ~q.valid[Idx(n)]
    BY <2>3, <2>6 DEF Valid
  <2>8. NumberedTx(p)
    <3> SUFFICES ASSUME NEW j \in Slots, p.valid[j]
                 PROVE  /\ p.buff[j] \in DatPackets
                        /\ p.buff[j].seq \in p.rdSeq .. p.wrSeq - 1
                        /\ Idx(p.buff[j].seq) = j
                        /\ p.buff[j].noAck <=> p.buff[j].seq \in NoAckSeqs
      BY DEF NumberedTx
    <3>1. CASE j = Idx(n)
      <4>1. n \in p.rdSeq .. p.wrSeq - 1
        BY <2>2, <2>6
      <4> QED
        BY <2>4, <2>7, <3>1, <4>1
    <3>2. CASE j # Idx(n)
      <4>1. q.valid[j] /\ p.buff[j] = q.buff[j]
        BY <2>7, <3>2
      <4>2. q.buff[j].seq \in q.rdSeq .. q.wrSeq - 1
        BY <2>2, <4>1 DEF NumberedTx
      <4>3. q.buff[j].seq \in p.rdSeq .. p.wrSeq - 1
        BY <2>2, <2>6, <4>2
      <4> QED
        BY <2>2, <4>1, <4>3 DEF NumberedTx
    <3> QED
      BY <3>1, <3>2
  <2>9. TxSide(d)
    BY <2>1, <2>5, <2>6, <2>8 DEF TxSide, More
  <2>10. \A j \in Slots : c0.txQ.valid[j] => p.valid[j] /\ p.buff[j] = c0.txQ.buff[j]
    <3> TAKE j \in Slots
    <3>1. c0.txQ.valid[j] => q.valid[j] /\ q.buff[j] = c0.txQ.buff[j]
      BY DEF More, q
    <3> QED
      BY <2>7, <3>1
  <2>11. \A s \in c0.seqSnd .. n : Valid(p, s)
    <3> TAKE s \in c0.seqSnd .. n
    <3>1. CASE s = n
      BY <2>7, <3>1 DEF Valid
    <3>2. CASE s # n
      <4>1. s \in c0.seqSnd .. n - 1 /\ s \in Nat
        BY <2>2, <3>2
      <4>2. Valid(q, s)
        BY <4>1 DEF More, q, n
      <4> QED
        BY <2>7, <4>1, <4>2, IdxType DEF Valid
    <3> QED
      BY <3>1, <3>2
  <2>12. c0.seqSnd .. (n + 1) - 1 = c0.seqSnd .. n /\ n + 1 >= c0.seqSnd
    BY <2>2
  <2>13. q.rdSeq = c0.txQ.rdSeq
    BY DEF More, q
  <2>14. \A j \in Slots : p.valid[j] => c0.txQ.valid[j] \/ p.buff[j].seq >= c0.seqSnd
    <3> TAKE j \in Slots
    <3>1. q.valid[j] => c0.txQ.valid[j] \/ q.buff[j].seq >= c0.seqSnd
      BY DEF More, q
    <3>2. CASE j = Idx(n)
      BY <2>2, <2>4, <2>7, <3>2
    <3>3. CASE j # Idx(n)
      BY <2>7, <3>1, <3>3
    <3> QED
      BY <3>2, <3>3
  <2> QED
    BY <2>1, <2>6, <2>9, <2>10, <2>11, <2>12, <2>13, <2>14 DEF More
<1> QED
  BY <1>1, <1>2

PacketStates == INSTANCE IterationProofs WITH Step <- LAMBDA none, c, k : PacketMade(c)

\* The packets of one etcpSend are put behind those that wait.
LEMMA UserTxKeeps ==
  ASSUME NEW c0, TxSide(c0), NEW n \in Nat, NEW d, d = doEtcpUserTx(c0, n)
  PROVE  More(c0, d)
<1> DEFINE elems == [k \in 1 .. n |-> k]
           r == PacketStates!Run({}, c0, elems)
           Held == {i \in 0 .. n : More(c0, r[i])}
<1>1. Len(elems) = n
  OBVIOUS
<1>2. More(c0, c0)
  <2>1. c0.seqSnd \in Nat
    BY Numbers DEF TxSide, Sound
  <2> QED
    BY <2>1 DEF More
<1>3. d = r[n]
  BY <1>1 DEF doEtcpUserTx, PacketLoop!After, PacketLoop!Run, PacketStates!Run
<1> HIDE DEF elems
<1>4. r[0] = c0 /\ \A i \in 1 .. n : r[i] = PacketMade(r[i - 1])
  <2>1. Len(elems) \in Nat
    BY <1>1
  <2>2. r[0] = c0 /\ \A i \in 1 .. Len(elems) : r[i] = PacketMade(r[i - 1])
    BY <2>1, PacketStates!RunSteps
  <2> HIDE DEF r
  <2> QED
    BY <1>1, <2>2
<1> HIDE DEF r
<1>5. 0 \in Held
  BY <1>2, <1>4
<1>6. ASSUME NEW i \in 1 .. n, i - 1 \in Held PROVE i \in Held
  <2>1. i \in 0 .. n /\ More(c0, r[i - 1])
    BY <1>6
  <2>2. More(c0, r[i])
    BY <1>4, <2>1, PacketMadeKeeps
  <2> QED
    BY <2>1, <2>2
<1>7. n \in Held
  <2> HIDE DEF Held
  <2> QED
    BY <1>5, <1>6, PacketStates!CountUp, Zenon
<1> QED
  BY <1>3, <1>7

-----------------------------------------------------------------------------
(* The receiving side                                                      *)

RxPackets == [seq : Nat, noAck : BOOLEAN, ackSent : BOOLEAN]

\* A packet of the receive window is in the slot of its number.
NumberedRx(q) ==
  \A j \in Slots : q.valid[j] =>
    /\ q.buff[j] \in RxPackets
    /\ q.buff[j].seq \in q.rdSeq .. q.rdSeq + SlotCount - 1
    /\ Idx(q.buff[j].seq) = j

\* The packets whose ack was made are those below b.
AckedBelow(q, b) ==
  /\ b \in q.rdSeq .. q.wrSeq
  /\ \A s \in q.rdSeq .. b - 1 : At(q, s).ackSent
  /\ \A s \in b .. q.rdSeq + SlotCount - 1 : Valid(q, s) => ~At(q, s).ackSent

\* Acknowledgements name what they should if no field is copied from behind
\* tmpBuff that names anything, and the stale list is short enough for one
\* packet of acknowledgements (a list that fills one makes generateStaleAcks
\* go on with a number expected that is not the next one).
NamesKnown ==
  /\ \A x \in JunkFields : x.count = 0
  /\ MaxStale <= 2 * MaxSacks + 1

\* No field goes beyond w.
EndsBefore(b, w) ==
  \A k \in DOMAIN b.fields :
    b.fields[k].count = 0 \/ b.base + b.fields[k].offset + b.fields[k].count <= w

\* The acknowledgements that may be queued when the server has all below w
Allowed(w) == {p \in AckPackets : NamesKnown => EndsBefore(p, w)}

\* The stale list holds numbers below w.
StaleBelow(l, w) == l \in Seq(Nat) /\ \A k \in DOMAIN l : l[k] < w

RxSide(c) ==
  /\ c = [rxQ |-> c.rxQ, ackQ |-> c.ackQ, staleQ |-> c.staleQ, seqAck |-> c.seqAck]
  /\ Sound({Zeroed} \cup RxPackets, c.rxQ) /\ NoHoles(c.rxQ) /\ NumberedRx(c.rxQ)
  /\ c.seqAck \in Nat
  /\ \E b \in c.rxQ.rdSeq .. c.rxQ.wrSeq : AckedBelow(c.rxQ, b) /\ c.seqAck <= b
  /\ Sound({Zeroed} \cup AckPackets, c.ackQ) /\ TailFree(c.ackQ)
  /\ Holds(Allowed(c.rxQ.wrSeq), c.ackQ)
  /\ StaleBelow(c.staleQ, c.rxQ.rdSeq) /\ Len(c.staleQ) <= MaxStale

-----------------------------------------------------------------------------
(* Numbers and slots                                                       *)

\* The packet found at a number of the window has that number.
LEMMA NumberAt ==
  ASSUME NEW q, Sound({Zeroed} \cup RxPackets, q), NumberedRx(q),
         NEW s \in q.rdSeq .. q.rdSeq + SlotCount - 1, Valid(q, s)
  PROVE  At(q, s) \in RxPackets /\ At(q, s).seq = s /\ s \in Nat
<1>1. q.rdSeq \in Nat /\ SlotCount \in Nat
  BY Numbers DEF Sound
<1>2. s \in Nat /\ Idx(s) \in Slots
  BY <1>1, IdxType
<1> DEFINE t == q.buff[Idx(s)].seq
<1>3. /\ At(q, s) \in RxPackets /\ t \in q.rdSeq .. q.rdSeq + SlotCount - 1
      /\ Idx(t) = Idx(s)
  BY <1>2 DEF NumberedRx, Valid, At
<1> HIDE DEF t
<1>4. t \in Nat /\ s < t + SlotCount /\ t < s + SlotCount
  BY <1>1, <1>3
<1>5. s = t
  BY <1>2, <1>3, <1>4, IdxDistinct
<1> QED
  BY <1>2, <1>3, <1>5 DEF t, At

\* What a write into the slot of number s changes: what is found at s.
LEMMA StoredAt ==
  ASSUME NEW C, NEW q, Sound(C, q), NEW x \in C,
         NEW s \in q.rdSeq .. q.rdSeq + SlotCount - 1,
         NEW t \in q.rdSeq .. q.rdSeq + SlotCount - 1,
         NEW p, p.buff = [q.buff EXCEPT ![Idx(s)] = x]
  PROVE  At(p, t) = IF t = s THEN x ELSE At(q, t)
<1>1. q.rdSeq \in Nat /\ SlotCount \in Nat /\ q.buff \in [Slots -> C]
  BY Numbers DEF Sound
<1>2. s \in Nat /\ t \in Nat /\ s < t + SlotCount /\ t < s + SlotCount
  BY <1>1
<1>3. Idx(s) \in Slots /\ Idx(t) \in Slots /\ (Idx(s) = Idx(t) => s = t)
  BY <1>2, IdxType, IdxDistinct
<1> QED
  BY <1>1, <1>3 DEF At

\* A number in use that is visited is before the write cursor.
LEMMA VisitedIsBehind ==
  ASSUME NEW C, NEW q, Sound(C, q), NEW s \in q.rdSeq .. q.rdMax - 1, Valid(q, s),
         s < q.rdSeq + SlotCount
  PROVE  s \in q.rdSeq .. q.wrSeq - 1
<1>1. /\ q.rdSeq \in Nat /\ q.wrSeq \in Nat /\ SlotCount \in Nat /\ q.rdMax \in Nat
      /\ CursorsAgree(q) /\ CursorsAtRest(q)
  BY Numbers DEF Sound, Windowed, QueueType
<1>2. s # q.wrSeq
  BY <1>1 DEF CursorsAtRest
<1> QED
  BY <1>1, <1>2 DEF CursorsAgree

AckMade(p) == [p EXCEPT !.ackSent = TRUE]

WithAck(q, b) == Stored(q, b, AckMade(At(q, b)))

\* A receive window whose packets below b were acknowledged
RxWindow(q, b) ==
  /\ Sound({Zeroed} \cup RxPackets, q) /\ NoHoles(q) /\ NumberedRx(q)
  /\ AckedBelow(q, b)

SameSeqs(q, p) == \A j \in Slots : p.valid[j] => p.buff[j].seq = q.buff[j].seq

\* Marking the packet at the boundary moves the boundary on by one.
LEMMA AckedOneMore ==
  ASSUME NEW q, NEW b, RxWindow(q, b), b < q.wrSeq,
         NEW p, p = WithAck(q, b)
  PROVE  RxWindow(p, b + 1) /\ SameWindow(q, p) /\ SameSeqs(q, p)
<1>q. /\ Sound({Zeroed} \cup RxPackets, q) /\ NoHoles(q) /\ NumberedRx(q)
      /\ AckedBelow(q, b)
  BY DEF RxWindow
<1>x. PICK x : x = AckMade(At(q, b)) /\ p = Stored(q, b, x)
  BY DEF WithAck
<1>1. /\ q.rdSeq \in Nat /\ q.wrSeq \in Nat /\ SlotCount \in Nat
      /\ q.wrSeq <= q.rdSeq + SlotCount /\ q.buff \in [Slots -> {Zeroed} \cup RxPackets]
  BY <1>q, Numbers DEF Sound
<1>2. b \in Nat /\ b \in q.rdSeq .. q.rdSeq + SlotCount - 1 /\ b \in q.rdSeq .. q.wrSeq - 1
  BY <1>q, <1>1 DEF AckedBelow
<1>3. Valid(q, b) /\ Idx(b) \in Slots
  BY <1>q, <1>2, IdxType DEF NoHoles
<1>4. At(q, b) \in RxPackets /\ At(q, b).seq = b
  BY <1>q, <1>2, <1>3, NumberAt
<1>5. /\ x \in RxPackets /\ x.seq = b /\ x.ackSent
      /\ x \in {Zeroed} \cup RxPackets
  BY <1>x, <1>4 DEF RxPackets, AckMade
<1>6. /\ Sound({Zeroed} \cup RxPackets, p) /\ SameWindow(q, p)
      /\ p.buff = [q.buff EXCEPT ![Idx(b)] = x]
  <2> DEFINE C == {Zeroed} \cup RxPackets
  <2>1. Sound(C, q) /\ x \in C /\ b \in Nat
    BY <1>q, <1>2, <1>5
  <2> HIDE DEF C
  <2>2. Sound(C, p) /\ SameWindow(q, p) /\ p.buff = [q.buff EXCEPT ![Idx(b)] = x]
    BY <1>x, <2>1, StoredEffect
  <2> QED
    BY <2>2 DEF C
<1>7. /\ p.valid = q.valid /\ p.rdSeq = q.rdSeq /\ p.wrSeq = q.wrSeq
      /\ \A s : Valid(p, s) <=> Valid(q, s)
  BY <1>6, SameWindowFacts DEF SameWindow
<1>8. NoHoles(p)
  BY <1>q, <1>6, SameWindowFacts
<1>9. ASSUME NEW j \in Slots, p.valid[j]
      PROVE  p.buff[j] \in RxPackets /\ p.buff[j].seq = q.buff[j].seq
  <2>1. CASE j = Idx(b)
    BY <1>1, <1>3, <1>4, <1>5, <1>6, <2>1 DEF At
  <2>2. CASE j # Idx(b)
    <3>1. p.buff[j] = q.buff[j]
      BY <1>1, <1>6, <2>2
    <3> QED
      BY <1>q, <1>7, <1>9, <3>1 DEF NumberedRx
  <2> QED
    BY <2>1, <2>2
<1>10. NumberedRx(p)
  BY <1>q, <1>7, <1>9 DEF NumberedRx
<1>11. \A t \in q.rdSeq .. q.rdSeq + SlotCount - 1 :
         At(p, t) = IF t = b THEN x ELSE At(q, t)
  <2> DEFINE C == {Zeroed} \cup RxPackets
  <2>1. Sound(C, q) /\ x \in C
    BY <1>q, <1>5
  <2> HIDE DEF C
  <2> QED
    BY <1>2, <1>6, <2>1, StoredAt
<1>12. AckedBelow(p, b + 1)
  <2>1. b + 1 \in p.rdSeq .. p.wrSeq
    BY <1>1, <1>2, <1>7
  <2>2. ASSUME NEW s \in p.rdSeq .. (b + 1) - 1 PROVE At(p, s).ackSent
    <3>1. s \in q.rdSeq .. q.rdSeq + SlotCount - 1 /\ (s # b => s \in q.rdSeq .. b - 1)
      BY <1>1, <1>2, <1>7
    <3>2. At(p, s) = IF s = b THEN x ELSE At(q, s)
      BY <1>11, <3>1
    <3> QED
      BY <1>q, <1>5, <3>1, <3>2 DEF AckedBelow
  <2>3. ASSUME NEW s \in b + 1 .. p.rdSeq + SlotCount - 1, Valid(p, s)
        PROVE  ~At(p, s).ackSent
    <3>1. /\ s \in q.rdSeq .. q.rdSeq + SlotCount - 1 /\ s # b
          /\ s \in b .. q.rdSeq + SlotCount - 1
      BY <1>1, <1>2, <1>7
    <3>2. At(p, s) = At(q, s) /\ Valid(q, s)
      BY <1>7, <1>11, <2>3, <3>1
    <3> QED
      BY <1>q, <3>1, <3>2 DEF AckedBelow
  <2> QED
    BY <2>1, <2>2, <2>3 DEF AckedBelow
<1> QED
  BY <1>6, <1>8, <1>9, <1>10, <1>12 DEF RxWindow, SameSeqs
-----------------------------------------------------------------------------
(* Queueing acknowledgements                                               *)

\* q is q0 with more acknowledgements, all of them from A.
Grown(A, q0, q) ==
  /\ Sound({Zeroed} \cup AckPackets, q) /\ TailFree(q) /\ Holds(A, q)
  /\ \A j \in Slots : q0.valid[j] => q.valid[j] /\ q.buff[j] = q0.buff[j]

\* An acknowledgement put into a free slot is one more.
LEMMA PushGrows ==
  ASSUME NEW A, A \subseteq AckPackets, NEW q0, NEW q, Grown(A, q0, q),
         cqGetNextWrErr(q) = "cqENOERR", NEW x \in A,
         NEW p, p = Commit(q, q.wrSeq, x)
  PROVE  Grown(A, q0, p)
<1> DEFINE C == {Zeroed} \cup AckPackets
           n == q.wrSeq
<1>1. Sound(C, q) /\ TailFree(q) /\ Holds(A, q) /\ x \in C
  BY DEF Grown
<1> HIDE DEF C
<1>2. /\ n \in Nat /\ InRange(q, n) /\ ~Valid(q, n) /\ Idx(n) \in Slots
      /\ q.valid \in [Slots -> BOOLEAN] /\ q.buff \in [Slots -> C]
  BY <1>1, Numbers, NextWr, IdxType DEF Sound
<1>3. Sound(C, p) /\ AfterStore(q, n, x, p)
  BY <1>1, <1>2, CommitStores
<1>4. /\ TailFree(p)
      /\ p.valid = [q.valid EXCEPT ![Idx(n)] = TRUE]
      /\ p.buff = [q.buff EXCEPT ![Idx(n)] = x]
  BY <1>1, <1>3 DEF AfterStore
<1>5. /\ p.valid[Idx(n)] /\ p.buff[Idx(n)] = x
      /\ \A j \in Slots : j # Idx(n) => p.valid[j] = q.valid[j] /\ p.buff[j] = q.buff[j]
      /\ ~q.valid[Idx(n)]
  BY <1>2, <1>4 DEF Valid
<1>6. Holds(A, p)
  BY <1>1, <1>5 DEF Holds
<1>7. ASSUME NEW j \in Slots, q0.valid[j] PROVE p.valid[j] /\ p.buff[j] = q0.buff[j]
  <2>1. q.valid[j] /\ q.buff[j] = q0.buff[j]
    BY <1>7 DEF Grown
  <2> QED
    BY <1>5, <2>1
<1> QED
  BY <1>3, <1>4, <1>6, <1>7 DEF Grown, C

\* A packet under construction: as many fields as were closed, and one more
\* that was begun.
PktInv(b) ==
  /\ b = [base |-> b.base, fields |-> b.fields, idx |-> b.idx,
          begun |-> b.begun, unsent |-> b.unsent]
  /\ b.base \in Nat /\ b.idx \in Nat /\ b.begun \in BOOLEAN /\ b.unsent \in Nat
  /\ b.fields \in Seq(AckFields)
  /\ Len(b.fields) = IF b.begun THEN b.idx + 1 ELSE b.idx
  /\ b.unsent > 0 => b.fields # <<>>

\* The packet pushSackEthPacket makes of it is an acknowledgement.  A field
\* that comes from behind tmpBuff may name anything.
LEMMA SackPacketType ==
  ASSUME NEW b, PktInv(b), NEW n \in Nat, NEW m \in Nat, NEW junk \in JunkFields,
         NEW w, NamesKnown => EndsBefore(b, w)
  PROVE  SackPacket(b, n, m, junk) \in Allowed(w)
<1> DEFINE p == SackPacket(b, n, m, junk)
           fs == Carried(b, n, junk)
<1>1. /\ p.type = "ACK" /\ p.txState = "RDY" /\ p.base = b.base /\ p.sackCount = m
      /\ p.fields = fs
      /\ p = [type |-> "ACK", txState |-> "RDY", base |-> b.base, sackCount |-> m, fields |-> fs]
  BY DEF SackPacket
<1>2. junk \in [offset : Nat, count : Nat] /\ junk \in AckFields /\ Field(0, 0) \in AckFields
  BY FlowAssumption DEF AckFields, Field
<1>3. \A k \in 1 .. n :
        fs[k] = IF k <= Len(b.fields) THEN b.fields[k]
                ELSE IF k <= MaxSacks THEN Field(0, 0) ELSE junk
  BY DEF Carried
<1>4. Len(b.fields) \in Nat /\ \A k \in 1 .. Len(b.fields) : b.fields[k] \in AckFields
  BY DEF PktInv
<1>5. \A k \in 1 .. n : fs[k] \in AckFields
  <2> TAKE k \in 1 .. n
  <2>1. CASE k <= Len(b.fields)
    BY <1>3, <1>4, <2>1
  <2>2. CASE ~(k <= Len(b.fields))
    BY <1>2, <1>3, <2>2
  <2> QED
    BY <2>1, <2>2
<1>6. fs \in Seq(AckFields) /\ DOMAIN fs = 1 .. n
  <2>1. fs = [k \in 1 .. n |-> fs[k]]
    BY DEF Carried
  <2> HIDE DEF fs
  <2> QED
    BY <1>5, <2>1
<1> HIDE DEF fs, p
<1>7. p \in AckPackets
  BY <1>1, <1>6 DEF AckPackets, PktInv
<1>8. ASSUME NamesKnown PROVE EndsBefore(p, w)
  <2> SUFFICES ASSUME NEW k \in 1 .. n
               PROVE  fs[k].count = 0 \/ b.base + fs[k].offset + fs[k].count <= w
    BY <1>1, <1>6 DEF EndsBefore
  <2>1. CASE k <= Len(b.fields)
    <3>1. k \in DOMAIN b.fields /\ fs[k] = b.fields[k]
      BY <1>3, <1>4, <2>1 DEF PktInv
    <3> QED
      BY <1>8, <3>1 DEF EndsBefore
  <2>2. CASE ~(k <= Len(b.fields))
    BY <1>3, <1>8, <2>2 DEF NamesKnown, Field
  <2> QED
    BY <2>1, <2>2
<1> QED
  BY <1>7, <1>8 DEF Allowed, p

\* Closing a field: what it names stays named.
LEMMA ClosedFacts ==
  ASSUME NEW b, PktInv(b), NEW d, d = Closed(b)
  PROVE  /\ PktInv(d) /\ ~d.begun /\ d.fields = b.fields /\ d.base = b.base
         /\ d.unsent = b.unsent
         /\ d.idx = IF b.begun THEN b.idx + 1 ELSE b.idx
<1>1. CASE ~b.begun
  BY <1>1 DEF Closed, PktInv
<1>2. CASE b.begun
  <2>1. /\ d.base = b.base /\ d.fields = b.fields /\ d.unsent = b.unsent
        /\ d.idx = b.idx + 1 /\ ~d.begun /\ d.begun \in BOOLEAN
        /\ d = [base |-> d.base, fields |-> d.fields, idx |-> d.idx,
                begun |-> d.begun, unsent |-> d.unsent]
    BY <1>2 DEF Closed, PktInv
  <2>2. /\ b.base \in Nat /\ b.idx \in Nat /\ b.unsent \in Nat
        /\ b.fields \in Seq(AckFields) /\ Len(b.fields) = b.idx + 1
        /\ b.unsent > 0 => b.fields # <<>>
    BY <1>2 DEF PktInv
  <2>3. Len(d.fields) = IF d.begun THEN d.idx + 1 ELSE d.idx
    BY <2>1, <2>2
  <2>4. PktInv(d)
    BY <2>1, <2>2, <2>3 DEF PktInv
  <2> QED
    BY <1>2, <2>1, <2>4
<1> QED
  BY <1>1, <1>2 DEF PktInv

\* A packet with one more number counted: in the field that was begun, or in
\* a new one that begins with it.
CountedFacts(b, base, s, d) ==
  /\ PktInv(d) /\ d.begun /\ d.idx = b.idx
  /\ d.base = base
  /\ Len(d.fields) = b.idx + 1
  /\ \A k \in 1 .. b.idx : d.fields[k] = b.fields[k]
  /\ IF b.begun
     THEN /\ d.fields[b.idx + 1].offset = b.fields[b.idx + 1].offset
          /\ d.fields[b.idx + 1].count = b.fields[b.idx + 1].count + 1
     ELSE d.fields[b.idx + 1] = Field(s - base, 1)

LEMMA CountedEffect ==
  ASSUME NEW b, PktInv(b), NEW base \in Nat, b.fields # <<>> => base = b.base,
         NEW s \in Int, NEW d, d = Counted(Begun(b, base, s))
  PROVE  CountedFacts(b, base, s, d)
<1> DEFINE e == Begun(b, base, s)
<1>1. /\ b.base \in Nat /\ b.idx \in Nat /\ b.unsent \in Nat /\ b.begun \in BOOLEAN
      /\ b.fields \in Seq(AckFields) /\ Len(b.fields) = IF b.begun THEN b.idx + 1 ELSE b.idx
  BY DEF PktInv
<1>2. /\ e.begun /\ e.begun \in BOOLEAN /\ e.idx = b.idx /\ e.unsent = b.unsent /\ e.base = base
      /\ e.fields = IF b.begun THEN b.fields ELSE Append(b.fields, Field(s - base, 0))
      /\ e = [base |-> e.base, fields |-> e.fields, idx |-> e.idx,
              begun |-> e.begun, unsent |-> e.unsent]
  <2>1. CASE b.begun
    <3>1. e = b /\ b.fields # <<>>
      BY <1>1, <2>1 DEF Begun
    <3> QED
      BY <1>1, <2>1, <3>1 DEF PktInv
  <2>2. CASE ~b.begun
    <3>1. (IF b.idx = 0 THEN base ELSE b.base) = base
      BY <1>1, <2>2
    <3>2. e = [b EXCEPT !.base = base, !.begun = TRUE,
                        !.fields = Append(@, Field(s - base, 0))]
      BY <2>2, <3>1 DEF Begun
    <3> HIDE DEF e
    <3>3. /\ e.idx = b.idx /\ e.unsent = b.unsent /\ e.base = base /\ e.begun
          /\ e.begun \in BOOLEAN
          /\ e.fields = Append(b.fields, Field(s - base, 0))
          /\ e = [base |-> e.base, fields |-> e.fields, idx |-> e.idx,
                  begun |-> e.begun, unsent |-> e.unsent]
      BY <3>2 DEF PktInv
    <3> QED
      BY <2>2, <3>3
  <2> QED
    BY <2>1, <2>2
<1> HIDE DEF e
<1>3. Field(s - base, 0) \in AckFields
  BY <1>1 DEF Field, AckFields
<1>4. /\ e.fields \in Seq(AckFields) /\ Len(e.fields) = b.idx + 1
      /\ \A k \in 1 .. b.idx : e.fields[k] = b.fields[k]
      /\ e.fields[b.idx + 1] = IF b.begun THEN b.fields[b.idx + 1] ELSE Field(s - base, 0)
  <2>1. CASE b.begun
    BY <1>1, <1>2, <2>1
  <2>2. CASE ~b.begun
    BY <1>1, <1>2, <1>3, <2>2
  <2> QED
    BY <2>1, <2>2
<1> DEFINE i == b.idx + 1
           x == e.fields[i]
           y == [x EXCEPT !.count = @ + 1]
           fs == [e.fields EXCEPT ![i] = y]
<1>5. i \in 1 .. Len(e.fields) /\ x \in AckFields
  BY <1>1, <1>4
<1>6. y \in AckFields /\ y.offset = x.offset /\ y.count = x.count + 1
  BY <1>5 DEF AckFields
<1>7. /\ d.base = e.base /\ d.idx = e.idx /\ d.begun /\ d.begun \in BOOLEAN
      /\ d.unsent = e.unsent + 1 /\ d.fields = fs
      /\ d = [base |-> d.base, fields |-> d.fields, idx |-> d.idx,
              begun |-> d.begun, unsent |-> d.unsent]
  <2>1. d = Counted(e)
    BY DEF e
  <2>2. d = [e EXCEPT !.unsent = @ + 1, !.fields = [@ EXCEPT ![i] = y]]
    BY <1>2, <2>1 DEF Counted
  <2> HIDE DEF y, i
  <2> QED
    BY <1>2, <2>2
<1> HIDE DEF y
<1>8. /\ fs \in Seq(AckFields) /\ Len(fs) = b.idx + 1 /\ fs[i] = y
      /\ \A k \in 1 .. b.idx : fs[k] = e.fields[k]
  BY <1>1, <1>4, <1>5, <1>6
<1> HIDE DEF fs, x
<1>9. fs # <<>>
  BY <1>1, <1>8
<1>10. PktInv(d)
  BY <1>1, <1>2, <1>7, <1>8, <1>9 DEF PktInv
<1>11. IF b.begun
       THEN /\ fs[i].offset = b.fields[i].offset
            /\ fs[i].count = b.fields[i].count + 1
       ELSE fs[i] = Field(s - base, 1)
  <2>1. CASE b.begun
    BY <1>4, <1>6, <1>8, <2>1 DEF x
  <2>2. CASE ~b.begun
    BY <1>4, <1>8, <2>2 DEF x, y, Field
  <2> QED
    BY <2>1, <2>2
<1> QED
  BY <1>2, <1>4, <1>7, <1>8, <1>10, <1>11 DEF CountedFacts
-----------------------------------------------------------------------------
(* generateAcks                                                            *)

\* The connection while acknowledgements are made for c0: the same window,
\* with packets marked, and more acknowledgements.
AckConn(c0, c) ==
  /\ c = [rxQ |-> c.rxQ, ackQ |-> c.ackQ, staleQ |-> c.staleQ, seqAck |-> c.seqAck]
  /\ c.staleQ = c0.staleQ /\ c.seqAck \in Nat
  /\ Sound({Zeroed} \cup RxPackets, c.rxQ) /\ NoHoles(c.rxQ) /\ NumberedRx(c.rxQ)
  /\ SameWindow(c0.rxQ, c.rxQ)
  /\ \A j \in Slots : c.rxQ.valid[j] => c.rxQ.buff[j].seq = c0.rxQ.buff[j].seq
  /\ Grown(Allowed(c0.rxQ.wrSeq), c0.ackQ, c.ackQ)

\* The fields are relative to a, and name nothing from b on.
FieldsTo(p, a, b) ==
  /\ p.fields # <<>> => p.base = a
  /\ \A k \in DOMAIN p.fields :
       p.fields[k].offset \in Nat /\ p.base + p.fields[k].offset + p.fields[k].count <= b

\* All below b was acknowledged, and that is all before i that is there.
Reached(run, b, i) ==
  /\ AckedBelow(run.conn.rxQ, b)
  /\ run.conn.seqAck <= b
  /\ FieldsTo(run.pkt, run.conn.seqAck, b)
  /\ ~run.returned => i <= b \/ b = run.conn.rxQ.wrSeq

AckRunInv(c0, run, i) ==
  /\ run = [conn |-> run.conn, pkt |-> run.pkt, returned |-> run.returned]
  /\ run.returned \in BOOLEAN
  /\ AckConn(c0, run.conn)
  /\ PktInv(run.pkt)
  /\ \E b \in Nat : Reached(run, b, i)

\* Queueing the packet moves seqAck to the end of its first field.
LEMMA PushedAcked ==
  ASSUME NEW c0, NEW c, AckConn(c0, c), NEW p, PktInv(p), p.fields # <<>>,
         NEW b \in Nat, AckedBelow(c.rxQ, b), FieldsTo(p, c.seqAck, b), HasTxSlot(c),
         NEW n \in Nat, NEW m \in Nat, NEW junk \in JunkFields,
         NEW d, d = Acked(pushSackEthPacket(c, p, n, m, junk), p)
  PROVE  AckConn(c0, d) /\ d.rxQ = c.rxQ /\ d.seqAck <= b
<1> DEFINE w == c0.rxQ.wrSeq
           x == SackPacket(p, n, m, junk)
           q == Commit(c.ackQ, c.ackQ.wrSeq, x)
<1>1. /\ d.ackQ = q /\ d.rxQ = c.rxQ /\ d.staleQ = c.staleQ
      /\ d.seqAck = c.seqAck + p.fields[1].offset + p.fields[1].count
      /\ d = [rxQ |-> d.rxQ, ackQ |-> d.ackQ, staleQ |-> d.staleQ, seqAck |-> d.seqAck]
  <2> HIDE DEF q
  <2> QED
    BY DEF Acked, pushSackEthPacket, AckConn, q, x
<1>2. c.rxQ.wrSeq = w /\ w \in Nat /\ b <= w
  <2>1. c.rxQ.wrSeq = w
    BY DEF AckConn, SameWindow
  <2>2. c.rxQ.wrSeq \in Nat /\ b <= c.rxQ.wrSeq
    BY Numbers DEF AckConn, Sound, AckedBelow
  <2> QED
    BY <2>1, <2>2
<1>3. \A k \in DOMAIN p.fields :
        /\ p.fields[k].offset \in Nat /\ p.fields[k].count \in Nat
        /\ p.base + p.fields[k].offset + p.fields[k].count <= b
  <2>1. \A k \in DOMAIN p.fields : p.fields[k] \in AckFields
    BY DEF PktInv
  <2> QED
    BY <2>1 DEF FieldsTo, AckFields
<1>4. p.base \in Nat /\ p.base = c.seqAck /\ 1 \in DOMAIN p.fields
  BY DEF PktInv, FieldsTo
<1>5. d.seqAck \in Nat /\ d.seqAck <= b
  BY <1>1, <1>3, <1>4
<1>6. EndsBefore(p, w)
  <2> HIDE DEF w
  <2>1. \A k \in DOMAIN p.fields : p.base + p.fields[k].offset + p.fields[k].count <= w
    BY <1>2, <1>3, <1>4
  <2> QED
    BY <2>1 DEF EndsBefore
<1>7. x \in Allowed(w)
  <2> HIDE DEF w
  <2> QED
    BY <1>6, SackPacketType
<1>8. Grown(Allowed(w), c0.ackQ, q)
  <2>1. Allowed(w) \subseteq AckPackets
    BY DEF Allowed
  <2>2. Grown(Allowed(w), c0.ackQ, c.ackQ) /\ cqGetNextWrErr(c.ackQ) = "cqENOERR"
    BY DEF AckConn, HasTxSlot
  <2> HIDE DEF w, x
  <2> QED
    BY <1>7, <2>1, <2>2, PushGrows
<1> HIDE DEF q, x
<1> QED
  BY <1>1, <1>5, <1>8 DEF AckConn

\* Nothing is begun.
LEMMA EmptyFacts ==
  ASSUME NEW a, NEW b
  PROVE  PktInv(EmptyPacket) /\ FieldsTo(EmptyPacket, a, b)
<1>1. EmptyPacket.fields = <<>> /\ <<>> \in Seq(AckFields) /\ Len(<<>>) = 0
  BY DEF EmptyPacket
<1>2. DOMAIN EmptyPacket.fields = {}
  BY <1>1
<1>3. /\ EmptyPacket.base = 0 /\ EmptyPacket.idx = 0 /\ ~EmptyPacket.begun
      /\ EmptyPacket.begun \in BOOLEAN /\ EmptyPacket.unsent = 0
  BY DEF EmptyPacket
<1>4. EmptyPacket = [base |-> EmptyPacket.base, fields |-> EmptyPacket.fields,
                     idx |-> EmptyPacket.idx, begun |-> EmptyPacket.begun,
                     unsent |-> EmptyPacket.unsent]
  BY DEF EmptyPacket
<1> QED
  BY <1>1, <1>2, <1>3, <1>4 DEF PktInv, FieldsTo

LEMMA FlushKeeps ==
  ASSUME NEW c0, NEW run, NEW i \in Nat, AckRunInv(c0, run, i), NEW junk \in JunkFields,
         NEW r, r = FlushIfFull(run, junk)
  PROVE  AckRunInv(c0, r, i)
<1> DEFINE conn == run.conn
           p == run.pkt
           d == Acked(pushSackEthPacket(conn, p, MaxSacks, 0, junk), p)
<1>1. CASE p.idx < MaxSacks
  BY <1>1 DEF FlushIfFull
<1>2. CASE ~(p.idx < MaxSacks) /\ ~HasTxSlot(conn)
  <2>1. r = [run EXCEPT !.returned = TRUE]
    BY <1>2 DEF FlushIfFull
  <2>2. /\ r.conn = conn /\ r.pkt = p /\ r.returned /\ r.returned \in BOOLEAN
        /\ r = [conn |-> r.conn, pkt |-> r.pkt, returned |-> r.returned]
    BY <2>1 DEF AckRunInv
  <2>3. PICK b \in Nat : Reached(run, b, i)
    BY DEF AckRunInv
  <2>4. Reached(r, b, i)
    BY <2>2, <2>3 DEF Reached
  <2> QED
    BY <2>2, <2>4 DEF AckRunInv
<1>3. CASE ~(p.idx < MaxSacks) /\ HasTxSlot(conn)
  <2>1. r = [run EXCEPT !.conn = d, !.pkt = EmptyPacket]
    BY <1>3 DEF FlushIfFull
  <2> HIDE DEF d
  <2>2. /\ r.conn = d /\ r.pkt = EmptyPacket /\ r.returned = run.returned
        /\ r = [conn |-> r.conn, pkt |-> r.pkt, returned |-> r.returned]
    BY <2>1 DEF AckRunInv
  <2>3. PICK b \in Nat : Reached(run, b, i)
    BY DEF AckRunInv
  <2>4. p.fields # <<>>
    <3>1. p.idx \in Nat /\ p.idx > 0
      BY <1>3, MaxSacksAssumption DEF AckRunInv, PktInv
    <3>2. Len(p.fields) = IF p.begun THEN p.idx + 1 ELSE p.idx
      BY DEF AckRunInv, PktInv
    <3>3. Len(p.fields) # 0
      BY <3>1, <3>2
    <3> QED
      BY <3>3
  <2>5. AckConn(c0, conn) /\ PktInv(p) /\ MaxSacks \in Nat
    BY MaxSacksAssumption DEF AckRunInv
  <2>6. AckedBelow(conn.rxQ, b) /\ FieldsTo(p, conn.seqAck, b)
    BY <2>3 DEF Reached
  <2>7. AckConn(c0, d) /\ d.rxQ = conn.rxQ /\ d.seqAck <= b
    <3> HIDE DEF conn, p
    <3> QED
      BY <1>3, <2>4, <2>5, <2>6, PushedAcked DEF d
  <2>8. PktInv(EmptyPacket) /\ FieldsTo(EmptyPacket, d.seqAck, b)
    BY EmptyFacts
  <2>9. Reached(r, b, i)
    BY <2>2, <2>3, <2>7, <2>8 DEF Reached
  <2> QED
    BY <2>2, <2>7, <2>8, <2>9 DEF AckRunInv
<1> QED
  BY <1>1, <1>2, <1>3

WithMark(c, b) == [c EXCEPT !.rxQ = WithAck(@, b)]

\* Marking the packet at the boundary b of the connection
LEMMA MarkKeeps ==
  ASSUME NEW c0, NEW c, AckConn(c0, c), NEW b \in Nat, AckedBelow(c.rxQ, b), b < c.rxQ.wrSeq,
         NEW d, d = WithMark(c, b)
  PROVE  AckConn(c0, d) /\ AckedBelow(d.rxQ, b + 1) /\ d.seqAck = c.seqAck
         /\ d.rxQ.wrSeq = c.rxQ.wrSeq
<1> DEFINE q == c.rxQ
           p == WithAck(q, b)
<1>1. RxWindow(q, b) /\ b < q.wrSeq
  BY DEF AckConn, RxWindow
<1>2. /\ d.rxQ = p /\ d.ackQ = c.ackQ /\ d.staleQ = c.staleQ /\ d.seqAck = c.seqAck
      /\ d = [rxQ |-> d.rxQ, ackQ |-> d.ackQ, staleQ |-> d.staleQ, seqAck |-> d.seqAck]
  <2> HIDE DEF p
  <2> QED
    BY DEF AckConn, WithMark, p
<1> HIDE DEF q
<1>3. RxWindow(p, b + 1) /\ SameWindow(q, p) /\ SameSeqs(q, p)
  BY <1>1, AckedOneMore
<1> HIDE DEF p
<1>4. SameWindow(c0.rxQ, p) /\ p.wrSeq = q.wrSeq
  BY <1>3 DEF AckConn, SameWindow, q
<1>5. \A j \in Slots : p.valid[j] => p.buff[j].seq = c0.rxQ.buff[j].seq
  <2>1. p.valid = q.valid
    BY <1>3 DEF SameWindow
  <2> QED
    BY <1>3, <2>1 DEF AckConn, SameSeqs, q
<1> QED
  BY <1>2, <1>3, <1>4, <1>5 DEF AckConn, RxWindow, q

\* Counting the number at the boundary keeps the fields before the next one.
LEMMA CountKeeps ==
  ASSUME NEW p, PktInv(p), NEW a \in Nat, NEW b \in Nat, a <= b, FieldsTo(p, a, b),
         NEW d, d = Counted(Begun(p, a, b))
  PROVE  PktInv(d) /\ FieldsTo(d, a, b + 1)
<1>1. CountedFacts(p, a, b, d)
  BY CountedEffect DEF FieldsTo
<1>2. /\ PktInv(d) /\ d.base = a /\ p.idx \in Nat /\ Len(d.fields) = p.idx + 1
      /\ d.fields \in Seq(AckFields) /\ p.fields \in Seq(AckFields)
      /\ Len(p.fields) = IF p.begun THEN p.idx + 1 ELSE p.idx
  BY <1>1 DEF CountedFacts, PktInv
<1>3. \A k \in DOMAIN p.fields :
        /\ p.fields[k].offset \in Nat /\ p.fields[k].count \in Nat
        /\ a + p.fields[k].offset + p.fields[k].count <= b
  <2>1. \A k \in DOMAIN p.fields : p.fields[k] \in AckFields /\ p.fields # <<>>
    BY <1>2
  <2> QED
    BY <2>1 DEF FieldsTo, AckFields
<1>4. ASSUME NEW k \in 1 .. p.idx + 1
      PROVE  /\ d.fields[k].offset \in Nat
             /\ a + d.fields[k].offset + d.fields[k].count <= b + 1
  <2>1. CASE k \in 1 .. p.idx
    <3>1. k \in DOMAIN p.fields /\ d.fields[k] = p.fields[k]
      BY <1>1, <1>2, <2>1 DEF CountedFacts
    <3> QED
      BY <1>3, <3>1
  <2>2. CASE k = p.idx + 1 /\ p.begun
    <3>1. /\ k \in DOMAIN p.fields
          /\ d.fields[k].offset = p.fields[k].offset
          /\ d.fields[k].count = p.fields[k].count + 1
      BY <1>1, <1>2, <2>2 DEF CountedFacts
    <3> QED
      BY <1>3, <3>1
  <2>3. CASE k = p.idx + 1 /\ ~p.begun
    <3>1. d.fields[k] = Field(b - a, 1)
      BY <1>1, <2>3 DEF CountedFacts
    <3> QED
      BY <3>1 DEF Field
  <2> QED
    BY <1>2, <2>1, <2>2, <2>3
<1>5. DOMAIN d.fields = 1 .. p.idx + 1
  BY <1>2
<1> QED
  BY <1>2, <1>4, <1>5, Zenon DEF FieldsTo

\* One number is looked at.
LEMMA SlotKeeps ==
  ASSUME NEW c0, NEW run, NEW i \in Nat, AckRunInv(c0, run, i), ~run.returned,
         i \in run.conn.rxQ.rdSeq .. run.conn.rxQ.rdMax - 1,
         i < run.conn.rxQ.rdSeq + SlotCount,
         NEW r, r = AckSlot(run, i)
  PROVE  AckRunInv(c0, r, i + 1)
<1> DEFINE conn == run.conn
           q == conn.rxQ
           p == At(q, i)
           d == WithMark(conn, i)
<1>1. /\ AckConn(c0, conn) /\ PktInv(run.pkt) /\ run.returned \in BOOLEAN
      /\ run = [conn |-> conn, pkt |-> run.pkt, returned |-> run.returned]
  BY DEF AckRunInv
<1>2. PICK b \in Nat : Reached(run, b, i)
  BY DEF AckRunInv
<1>3. /\ Sound({Zeroed} \cup RxPackets, q) /\ NoHoles(q) /\ NumberedRx(q)
      /\ q.rdSeq \in Nat /\ q.wrSeq \in Nat /\ SlotCount \in Nat
      /\ q.wrSeq <= q.rdSeq + SlotCount /\ conn.seqAck \in Nat
  BY <1>1, Numbers DEF AckConn, Sound
<1>4. /\ AckedBelow(q, b) /\ conn.seqAck <= b /\ FieldsTo(run.pkt, conn.seqAck, b)
      /\ i <= b \/ b = q.wrSeq
      /\ b \in q.rdSeq .. q.wrSeq
  BY <1>2 DEF Reached, AckedBelow
<1>5. i \in q.rdSeq .. q.rdSeq + SlotCount - 1
  BY <1>3
<1>6. Valid(q, i) => i \in q.rdSeq .. q.wrSeq - 1 /\ p.seq = i
  <2> DEFINE C == {Zeroed} \cup RxPackets
  <2>1. Sound(C, q)
    BY <1>3
  <2> HIDE DEF C
  <2> QED
    BY <1>3, <1>5, <2>1, VisitedIsBehind, NumberAt
<1>7. ASSUME ~Valid(q, i) \/ p.ackSent PROVE i + 1 <= b \/ b = q.wrSeq
  <2>1. CASE ~Valid(q, i)
    <3>1. ~(i \in q.rdSeq .. q.wrSeq - 1)
      BY <1>3, <2>1, Zenon DEF NoHoles
    <3> QED
      BY <1>3, <1>4, <1>5, <3>1
  <2>2. CASE p.ackSent /\ Valid(q, i)
    <3>1. ~(i \in b .. q.rdSeq + SlotCount - 1)
      BY <1>4, <2>2 DEF AckedBelow
    <3> QED
      BY <1>3, <1>4, <1>5, <3>1
  <2> QED
    BY <1>7, <2>1, <2>2
<1>8. ASSUME Valid(q, i), ~p.ackSent PROVE i = b /\ b < q.wrSeq
  <2>1. ~(i \in q.rdSeq .. b - 1)
    BY <1>4, <1>8 DEF AckedBelow
  <2> QED
    BY <1>3, <1>4, <1>5, <1>6, <1>8, <2>1
<1>9. CASE ~Valid(q, i)
  <2>1. r = [run EXCEPT !.pkt = Closed(@)]
    BY <1>9 DEF AckSlot
  <2>2. /\ r.conn = conn /\ r.pkt = Closed(run.pkt) /\ r.returned = run.returned
        /\ r = [conn |-> r.conn, pkt |-> r.pkt, returned |-> r.returned]
    BY <1>1, <2>1
  <2>3. PktInv(r.pkt) /\ r.pkt.fields = run.pkt.fields /\ r.pkt.base = run.pkt.base
    BY <1>1, <2>2, ClosedFacts
  <2>4. FieldsTo(r.pkt, conn.seqAck, b)
    BY <1>4, <2>3 DEF FieldsTo
  <2>5. Reached(r, b, i + 1)
    BY <1>4, <1>7, <1>9, <2>2, <2>4 DEF Reached
  <2> QED
    BY <1>1, <2>2, <2>3, <2>5 DEF AckRunInv
<1>10. CASE Valid(q, i) /\ p.ackSent
  <2>1. r = run
    BY <1>10 DEF AckSlot
  <2>2. Reached(r, b, i + 1)
    BY <1>4, <1>7, <1>10, <2>1 DEF Reached
  <2> QED
    BY <2>1, <2>2 DEF AckRunInv
<1>11. CASE Valid(q, i) /\ ~p.ackSent
  <2>1. /\ r.conn = d /\ r.returned = run.returned
        /\ r.pkt = IF p.noAck THEN Closed(run.pkt)
                   ELSE Counted(Begun(run.pkt, conn.seqAck, p.seq))
        /\ r = [conn |-> r.conn, pkt |-> r.pkt, returned |-> r.returned]
    <3> DEFINE marked == [run EXCEPT !.conn.rxQ = Stored(q, i, [p EXCEPT !.ackSent = TRUE])]
    <3>1. /\ marked.conn = d /\ marked.pkt = run.pkt /\ marked.returned = run.returned
          /\ marked = [conn |-> d, pkt |-> run.pkt, returned |-> run.returned]
      BY <1>1 DEF AckMade, WithAck, WithMark
    <3>2. r = IF p.noAck THEN [marked EXCEPT !.pkt = Closed(@)]
              ELSE [marked EXCEPT !.pkt = Counted(Begun(@, conn.seqAck, p.seq))]
      BY <1>11 DEF AckSlot
    <3> HIDE DEF marked, d, p, q, conn
    <3> QED
      BY <3>1, <3>2
  <2> HIDE DEF d
  <2>2. i = b /\ b < q.wrSeq /\ p.seq = b
    BY <1>6, <1>8, <1>11
  <2>3. /\ AckConn(c0, d) /\ AckedBelow(d.rxQ, b + 1) /\ d.seqAck = conn.seqAck
        /\ d.rxQ.wrSeq = q.wrSeq
    <3>1. d = WithMark(conn, b)
      BY <2>2 DEF d
    <3>2. AckConn(c0, conn) /\ AckedBelow(conn.rxQ, b) /\ b < conn.rxQ.wrSeq
      BY <1>1, <1>4, <2>2
    <3> HIDE DEF conn
    <3>3. /\ AckConn(c0, d) /\ AckedBelow(d.rxQ, b + 1) /\ d.seqAck = conn.seqAck
          /\ d.rxQ.wrSeq = conn.rxQ.wrSeq
      BY <1>2, <3>1, <3>2, MarkKeeps
    <3> QED
      BY <3>3 DEF conn
  <2>4. PktInv(r.pkt) /\ FieldsTo(r.pkt, conn.seqAck, b + 1)
    <3>1. CASE p.noAck
      <4>1. r.pkt = Closed(run.pkt)
        BY <2>1, <3>1
      <4>2. PktInv(r.pkt) /\ r.pkt.fields = run.pkt.fields /\ r.pkt.base = run.pkt.base
        BY <1>1, <4>1, ClosedFacts
      <4>3. \A k \in DOMAIN run.pkt.fields : run.pkt.fields[k] \in AckFields
        BY <1>1 DEF PktInv
      <4> QED
        BY <1>1, <1>4, <4>2, <4>3 DEF FieldsTo, AckFields, PktInv
    <3>2. CASE ~p.noAck
      <4>1. r.pkt = Counted(Begun(run.pkt, conn.seqAck, b))
        BY <2>1, <2>2, <3>2
      <4> QED
        BY <1>1, <1>3, <1>4, <4>1, CountKeeps
    <3> QED
      BY <3>1, <3>2
  <2>5. Reached(r, b + 1, i + 1)
    BY <1>3, <1>4, <2>1, <2>2, <2>3, <2>4 DEF Reached
  <2>6. b + 1 \in Nat
    OBVIOUS
  <2> QED
    BY <1>1, <2>1, <2>3, <2>4, <2>5, <2>6 DEF AckRunInv
<1> QED
  BY <1>9, <1>10, <1>11

LEMMA AckStepKeeps ==
  ASSUME NEW c0, NEW run, NEW i \in Nat, AckRunInv(c0, run, i), NEW junk \in JunkFields,
         i \in c0.rxQ.rdSeq .. c0.rxQ.rdMax - 1, i < c0.rxQ.rdSeq + SlotCount,
         NEW r, r = AckStep(junk, run, i)
  PROVE  AckRunInv(c0, r, i + 1)
<1>1. ASSUME NEW t, AckRunInv(c0, t, i), t.returned PROVE AckRunInv(c0, t, i + 1)
  <2>1. PICK b \in Nat : Reached(t, b, i)
    BY <1>1 DEF AckRunInv
  <2>2. Reached(t, b, i + 1)
    BY <1>1, <2>1 DEF Reached
  <2> QED
    BY <1>1, <2>2 DEF AckRunInv
<1>2. PICK f : f = FlushIfFull(run, junk)
  OBVIOUS
<1>3. AckRunInv(c0, f, i)
  BY <1>2, FlushKeeps
<1>4. CASE run.returned
  <2>1. r = run
    BY <1>4 DEF AckStep
  <2> QED
    BY <1>1, <1>4, <2>1
<1>5. CASE ~run.returned /\ f.returned
  <2>1. r = f
    BY <1>2, <1>5 DEF AckStep
  <2> QED
    BY <1>1, <1>3, <1>5, <2>1
<1>6. CASE ~run.returned /\ ~f.returned
  <2>1. r = AckSlot(f, i)
    BY <1>2, <1>6 DEF AckStep
  <2>2. SameWindow(c0.rxQ, f.conn.rxQ)
    BY <1>3 DEF AckRunInv, AckConn
  <2>3. f.conn.rxQ.rdSeq = c0.rxQ.rdSeq /\ f.conn.rxQ.rdMax = c0.rxQ.rdMax
    BY <2>2 DEF SameWindow
  <2> QED
    BY <1>3, <1>6, <2>1, <2>3, SlotKeeps
<1> QED
  BY <1>4, <1>5, <1>6

AckStates == INSTANCE IterationProofs WITH Step <- AckStep

\* What the call leaves behind: the packets whose ack was made still come
\* first, and seqAck is not beyond them.
AcksMade(c0, c) ==
  /\ AckConn(c0, c)
  /\ \E b \in Nat : AckedBelow(c.rxQ, b) /\ c.seqAck <= b

LEMMA AckLoopKeeps ==
  ASSUME NEW c0, RxSide(c0), NEW junk \in JunkFields,
         NEW run, run = AckLoop!After(junk, AckRun(c0), Visited(c0.rxQ))
  PROVE  \E i \in Nat : AckRunInv(c0, run, i)
<1> DEFINE q == c0.rxQ
           n == Lesser(q.rdMax - q.rdMin, SlotCount)
           elems == Visited(q)
           first == AckRun(c0)
           r == AckStates!Run(junk, first, elems)
           Held == {k \in 0 .. n : AckRunInv(c0, r[k], q.rdSeq + k)}
<1>1. /\ q.rdSeq \in Nat /\ q.rdMax \in Nat /\ q.rdMin = q.rdSeq /\ SlotCount \in Nat
      /\ q.rdSeq <= q.rdMax
  <2>1. /\ q.rdSeq \in Nat /\ q.wrSeq \in Nat /\ q.rdSeq <= q.wrSeq /\ SlotCount \in Nat
        /\ CursorsAgree(q)
    BY Numbers DEF RxSide, Sound, Windowed
  <2> QED
    BY <2>1 DEF CursorsAgree
<1>2. n \in Nat /\ n <= SlotCount /\ n <= q.rdMax - q.rdSeq
  BY <1>1 DEF Lesser
<1>3. Len(elems) = n /\ \A k \in 1 .. n : elems[k] = q.rdSeq + k - 1
  BY <1>1, <1>2 DEF Visited
<1>4. run = r[n]
  BY <1>3 DEF AckLoop!After, AckLoop!Run, AckStates!Run
<1>5. AckRunInv(c0, first, q.rdSeq)
  <2>1. /\ first = [conn |-> c0, pkt |-> EmptyPacket, returned |-> FALSE]
        /\ first.conn = c0 /\ first.pkt = EmptyPacket /\ ~first.returned
        /\ first.returned \in BOOLEAN
    BY DEF AckRun
  <2> HIDE DEF first
  <2>2. PICK b \in q.rdSeq .. q.wrSeq : AckedBelow(q, b) /\ c0.seqAck <= b
    BY DEF RxSide
  <2>3. b \in Nat /\ q.rdSeq <= b
    BY <1>1, <2>2, Numbers DEF RxSide, Sound
  <2>4. PktInv(EmptyPacket) /\ FieldsTo(EmptyPacket, c0.seqAck, b)
    BY EmptyFacts
  <2>5. Reached(first, b, q.rdSeq)
    BY <2>1, <2>2, <2>3, <2>4 DEF Reached
  <2>6. Grown(Allowed(q.wrSeq), c0.ackQ, c0.ackQ)
    BY DEF RxSide, Grown
  <2>7. AckConn(c0, c0)
    BY <2>6 DEF RxSide, AckConn, SameWindow
  <2> QED
    BY <2>1, <2>3, <2>4, <2>5, <2>7 DEF AckRunInv
<1> HIDE DEF elems, first, n
<1>6. r[0] = first /\ \A k \in 1 .. n : r[k] = AckStep(junk, r[k - 1], elems[k])
  <2>1. Len(elems) \in Nat
    BY <1>2, <1>3
  <2>2. /\ r[0] = first
        /\ \A k \in 1 .. Len(elems) : r[k] = AckStep(junk, r[k - 1], elems[k])
    BY <2>1, AckStates!RunSteps
  <2> HIDE DEF r
  <2> QED
    BY <1>3, <2>2
<1> HIDE DEF r
<1>7. 0 \in Held
  BY <1>1, <1>2, <1>5, <1>6
<1>8. ASSUME NEW k \in 1 .. n, k - 1 \in Held PROVE k \in Held
  <2> DEFINE i == q.rdSeq + (k - 1)
  <2>0. AckRunInv(c0, r[k - 1], i)
    BY <1>8
  <2>1. /\ k \in 0 .. n /\ i \in Nat
        /\ i \in q.rdSeq .. q.rdMax - 1 /\ i < q.rdSeq + SlotCount
        /\ elems[k] = i /\ i + 1 = q.rdSeq + k
    <3>1. elems[k] = q.rdSeq + k - 1 /\ k \in Nat /\ 1 <= k /\ k <= n
      BY <1>2, <1>3
    <3> HIDE DEF q
    <3> QED
      BY <1>1, <1>2, <3>1
  <2>2. r[k] = AckStep(junk, r[k - 1], i)
    BY <1>6, <2>1
  <2> HIDE DEF i
  <2>3. AckRunInv(c0, r[k], i + 1)
    BY <2>0, <2>1, <2>2, AckStepKeeps
  <2> QED
    BY <2>1, <2>3
<1>9. n \in Held
  <2> HIDE DEF Held
  <2> QED
    BY <1>2, <1>7, <1>8, AckStates!CountUp, Zenon
<1>10. AckRunInv(c0, run, q.rdSeq + n) /\ q.rdSeq + n \in Nat
  BY <1>1, <1>2, <1>4, <1>9
<1> QED
  BY <1>10

LEMMA AcksKeep ==
  ASSUME NEW c0, RxSide(c0), NEW junk \in JunkFields,
         NEW c, c = generateAcks(c0, junk)
  PROVE  AcksMade(c0, c)
<1>1. CASE c0.rxQ.readable = 0
  <2>1. c = c0
    BY <1>1 DEF generateAcks
  <2>2. Grown(Allowed(c0.rxQ.wrSeq), c0.ackQ, c0.ackQ)
    BY DEF RxSide, Grown
  <2>3. AckConn(c0, c0)
    BY <2>2 DEF RxSide, AckConn, SameWindow
  <2>4. PICK b \in c0.rxQ.rdSeq .. c0.rxQ.wrSeq : AckedBelow(c0.rxQ, b) /\ c0.seqAck <= b
    BY DEF RxSide
  <2>5. b \in Nat
    BY <2>4, Numbers DEF RxSide, Sound
  <2> QED
    BY <2>1, <2>3, <2>4, <2>5 DEF AcksMade
<1>2. CASE c0.rxQ.readable # 0
  <2>1. PICK run : run = AckLoop!After(junk, AckRun(c0), Visited(c0.rxQ))
    OBVIOUS
  <2>2. c = AckFinish(run, junk)
    BY <1>2, <2>1 DEF generateAcks
  <2>3. PICK i \in Nat : AckRunInv(c0, run, i)
    BY <2>1, AckLoopKeeps
  <2>4. PICK b \in Nat : Reached(run, b, i)
    BY <2>3 DEF AckRunInv
  <2>5. /\ AckConn(c0, run.conn) /\ PktInv(run.pkt) /\ AckedBelow(run.conn.rxQ, b)
        /\ FieldsTo(run.pkt, run.conn.seqAck, b) /\ run.conn.seqAck <= b
    BY <2>3, <2>4 DEF AckRunInv, Reached
  <2>6. CASE c = run.conn
    BY <2>5, <2>6 DEF AcksMade
  <2>7. CASE run.pkt.unsent # 0 /\ HasTxSlot(run.conn)
    <3> DEFINE n == run.pkt.idx + 1
               d == Acked(pushSackEthPacket(run.conn, run.pkt, n, n, junk), run.pkt)
    <3>1. run.pkt.fields # <<>> /\ n \in Nat
      BY <2>5, <2>7 DEF PktInv
    <3> HIDE DEF n
    <3>2. AckConn(c0, d) /\ d.rxQ = run.conn.rxQ /\ d.seqAck <= b
      BY <2>5, <2>7, <3>1, PushedAcked
    <3>3. AcksMade(c0, d)
      BY <2>5, <3>2 DEF AcksMade
    <3> QED
      BY <2>2, <2>6, <3>3 DEF AckFinish, n
  <2> QED
    BY <2>2, <2>6, <2>7 DEF AckFinish
<1> QED
  BY <1>1, <1>2

\* What was acknowledged is part of the receiving side as it should be.
LEMMA AcksMadeRxSide ==
  ASSUME NEW c0, RxSide(c0), NEW c, AcksMade(c0, c)
  PROVE  RxSide(c) /\ SameWindow(c0.rxQ, c.rxQ) /\ c.staleQ = c0.staleQ
         /\ SameSeqs(c0.rxQ, c.rxQ) /\ Grown(Allowed(c0.rxQ.wrSeq), c0.ackQ, c.ackQ)
<1>1. AckConn(c0, c)
  BY DEF AcksMade
<1>2. PICK b \in Nat : AckedBelow(c.rxQ, b) /\ c.seqAck <= b
  BY DEF AcksMade
<1>3. /\ SameWindow(c0.rxQ, c.rxQ) /\ c.staleQ = c0.staleQ
      /\ Grown(Allowed(c0.rxQ.wrSeq), c0.ackQ, c.ackQ)
  BY <1>1 DEF AckConn
<1>4. c.rxQ.rdSeq = c0.rxQ.rdSeq /\ c.rxQ.wrSeq = c0.rxQ.wrSeq
  BY <1>3 DEF SameWindow
<1>5. SameSeqs(c0.rxQ, c.rxQ)
  BY <1>1 DEF AckConn, SameSeqs
<1>6. /\ Sound({Zeroed} \cup AckPackets, c.ackQ) /\ TailFree(c.ackQ)
      /\ Holds(Allowed(c.rxQ.wrSeq), c.ackQ)
  BY <1>3, <1>4 DEF Grown
<1>7. b \in c.rxQ.rdSeq .. c.rxQ.wrSeq
  BY <1>2 DEF AckedBelow
<1>8. StaleBelow(c.staleQ, c.rxQ.rdSeq) /\ Len(c.staleQ) <= MaxStale
  BY <1>3, <1>4 DEF RxSide
<1> QED
  BY <1>1, <1>2, <1>3, <1>5, <1>6, <1>7, <1>8 DEF AckConn, RxSide
-----------------------------------------------------------------------------
(* generateStaleAcks                                                       *)

\* The connection while the stale list of c0 is acknowledged: the same but for
\* what was taken off the list, and for more acknowledgements.
StaleConn(c0, c) ==
  /\ c = [rxQ |-> c.rxQ, ackQ |-> c.ackQ, staleQ |-> c.staleQ, seqAck |-> c.seqAck]
  /\ c.rxQ = c0.rxQ /\ c.seqAck = c0.seqAck
  /\ StaleBelow(c.staleQ, c0.rxQ.rdSeq) /\ Len(c.staleQ) <= Len(c0.staleQ)
  /\ Grown(Allowed(c0.rxQ.wrSeq), c0.ackQ, c.ackQ)

\* Once a field was begun it ends at the number expected; a field takes two
\* rounds at least, as its first number is counted in one and removed in
\* another.
Counting(run, k) ==
  LET p == run.pkt
      l == run.conn.staleQ
      f == p.fields[p.idx + 1]
  IN IF p.begun
     THEN /\ p.base + f.offset + f.count = run.expect
          /\ 2 * p.idx + 1 <= k
          /\ l # <<>> /\ Head(l) # run.expect - 1 => 2 * p.idx + 2 <= k
     ELSE p.idx = 0 /\ l # <<>> /\ Head(l) = run.expect

\* The five parts of the loop's state
StaleParts(run, conn, pkt, expect) ==
  /\ run = [conn |-> run.conn, pkt |-> run.pkt, returned |-> run.returned,
            done |-> run.done, expect |-> run.expect]
  /\ run.returned \in BOOLEAN /\ run.done \in BOOLEAN
  /\ run.conn = conn /\ run.pkt = pkt /\ run.expect = expect

StaleRunInv(c0, run, k) ==
  /\ StaleParts(run, run.conn, run.pkt, run.expect)
  /\ run.expect \in Nat
  /\ StaleConn(c0, run.conn)
  /\ PktInv(run.pkt)
  /\ NamesKnown => Counting(run, k) /\ EndsBefore(run.pkt, c0.rxQ.wrSeq)

LEMMA HeadAndTail ==
  ASSUME NEW l, NEW w \in Nat, StaleBelow(l, w), l # <<>>
  PROVE  /\ Head(l) \in Nat /\ Head(l) < w /\ Len(l) \in Nat /\ Len(l) > 0
         /\ StaleBelow(Tail(l), w) /\ Len(Tail(l)) = Len(l) - 1
<1>1. l \in Seq(Nat) /\ Len(l) \in Nat /\ Len(l) > 0 /\ \A k \in DOMAIN l : l[k] < w
  BY DEF StaleBelow
<1>2. Head(l) = l[1] /\ 1 \in DOMAIN l /\ l[1] \in Nat
  BY <1>1
<1>3. /\ Tail(l) \in Seq(Nat) /\ Len(Tail(l)) = Len(l) - 1
      /\ \A k \in 1 .. Len(l) - 1 : Tail(l)[k] = l[k + 1]
  BY <1>1
<1>4. \A k \in DOMAIN Tail(l) : k + 1 \in DOMAIN l /\ Tail(l)[k] = l[k + 1]
  BY <1>1, <1>3
<1> QED
  BY <1>1, <1>2, <1>3, <1>4 DEF StaleBelow

\* What StaleHead begins a field with
StaleBase(p, s) == IF p.idx = 0 /\ ~p.begun THEN s ELSE p.base

\* d is p with the number s counted, and ends there.
EndsAt(p, s, w, d) ==
  /\ PktInv(d) /\ d.begun /\ d.idx = p.idx
  /\ EndsBefore(p, w)
     /\ (p.begun => p.base + p.fields[p.idx + 1].offset + p.fields[p.idx + 1].count = s)
     => /\ d.base + d.fields[d.idx + 1].offset + d.fields[d.idx + 1].count = s + 1
        /\ EndsBefore(d, w)

\* A number that was counted, on its own or as the next of its field.
LEMMA StaleCounted ==
  ASSUME NEW p, PktInv(p), NEW s \in Nat, NEW w \in Nat, s < w,
         NEW d, d = Counted(Begun(p, StaleBase(p, s), s))
  PROVE  EndsAt(p, s, w, d)
<1> DEFINE base == StaleBase(p, s)
<1>1. /\ p.base \in Nat /\ p.idx \in Nat /\ p.begun \in BOOLEAN
      /\ Len(p.fields) = IF p.begun THEN p.idx + 1 ELSE p.idx
      /\ p.fields \in Seq(AckFields)
  BY DEF PktInv
<1>2. base \in Nat /\ (p.fields # <<>> => base = p.base)
  <2>1. CASE p.begun
    BY <1>1, <2>1 DEF StaleBase
  <2>2. CASE ~p.begun
    BY <1>1, <2>2 DEF StaleBase
  <2> QED
    BY <2>1, <2>2
<1> HIDE DEF base
<1>3. CountedFacts(p, base, s, d)
  BY <1>2, CountedEffect DEF base
<1>4. PktInv(d) /\ d.begun /\ d.idx = p.idx /\ d.base = base /\ Len(d.fields) = p.idx + 1
      /\ d.fields \in Seq(AckFields)
  BY <1>3 DEF CountedFacts, PktInv
<1>5. ASSUME EndsBefore(p, w),
             p.begun => p.base + p.fields[p.idx + 1].offset + p.fields[p.idx + 1].count = s
      PROVE  /\ d.base + d.fields[d.idx + 1].offset + d.fields[d.idx + 1].count = s + 1
             /\ EndsBefore(d, w)
  <2>1. d.base + d.fields[d.idx + 1].offset + d.fields[d.idx + 1].count = s + 1
    <3>1. CASE p.begun
      <4> DEFINE x == p.fields[p.idx + 1]
                 y == d.fields[p.idx + 1]
      <4>1. p.fields # <<>> /\ base = p.base /\ x \in AckFields
        BY <1>1, <1>2, <3>1
      <4>2. y.offset = x.offset /\ y.count = x.count + 1
        BY <1>3, <3>1 DEF CountedFacts
      <4>3. p.base + x.offset + x.count = s /\ x.offset \in Int /\ x.count \in Nat
        BY <1>5, <3>1, <4>1 DEF AckFields
      <4>0. d.base = p.base /\ p.base \in Nat
        BY <1>1, <1>4, <4>1
      <4> HIDE DEF x, y
      <4>5. d.base \in Nat /\ y.offset \in Int /\ y.count = x.count + 1
        BY <4>0, <4>2, <4>3
      <4>6. d.base + y.offset + x.count = s
        BY <4>0, <4>2, <4>3
      <4>4. d.base + y.offset + y.count = s + 1
        BY <4>3, <4>5, <4>6
      <4> QED
        BY <1>4, <4>4 DEF y
    <3>2. CASE ~p.begun
      <4>1. d.fields[p.idx + 1] = Field(s - base, 1)
        BY <1>3, <3>2 DEF CountedFacts
      <4> QED
        BY <1>2, <1>4, <4>1 DEF Field
    <3> QED
      BY <3>1, <3>2
  <2>2. ASSUME NEW k \in 1 .. p.idx
        PROVE  d.fields[k].count = 0 \/ d.base + d.fields[k].offset + d.fields[k].count <= w
    <3>1. d.fields[k] = p.fields[k] /\ k \in DOMAIN p.fields
      BY <1>1, <1>3 DEF CountedFacts
    <3>2. d.base = p.base
      BY <1>1, <1>2, <1>4
    <3> QED
      BY <1>5, <3>1, <3>2 DEF EndsBefore
  <2>3. DOMAIN d.fields = 1 .. p.idx + 1
    BY <1>1, <1>4
  <2>4. ASSUME NEW k \in 1 .. p.idx + 1
        PROVE  d.fields[k].count = 0 \/ d.base + d.fields[k].offset + d.fields[k].count <= w
    <3>1. CASE k = p.idx + 1
      <4>1. d.base + d.fields[k].offset + d.fields[k].count = s + 1
        BY <1>4, <2>1, <3>1
      <4> QED
        BY <4>1
    <3>2. CASE k # p.idx + 1
      BY <1>1, <2>2, <3>2
    <3> QED
      BY <3>1, <3>2
  <2> QED
    BY <2>1, <2>3, <2>4 DEF EndsBefore
<1> QED
  BY <1>4, <1>5 DEF EndsAt

LEMMA StaleChange ==
  ASSUME NEW run, NEW conn, NEW pkt, NEW expect, StaleParts(run, conn, pkt, expect),
         NEW r, NEW conn2, NEW pkt2, NEW expect2
  PROVE  /\ r = [run EXCEPT !.returned = TRUE] => StaleParts(r, conn, pkt, expect)
         /\ r = [run EXCEPT !.done = TRUE] => StaleParts(r, conn, pkt, expect)
         /\ r = [run EXCEPT !.conn = conn2] => StaleParts(r, conn2, pkt, expect)
         /\ r = [run EXCEPT !.conn = conn2, !.pkt = pkt2] => StaleParts(r, conn2, pkt2, expect)
         /\ r = [run EXCEPT !.pkt = pkt2, !.expect = expect2] => StaleParts(r, conn, pkt2, expect2)
<1>1. ASSUME r = [run EXCEPT !.returned = TRUE] PROVE StaleParts(r, conn, pkt, expect)
  BY <1>1 DEF StaleParts
<1>2. ASSUME r = [run EXCEPT !.done = TRUE] PROVE StaleParts(r, conn, pkt, expect)
  BY <1>2 DEF StaleParts
<1>3. ASSUME r = [run EXCEPT !.conn = conn2] PROVE StaleParts(r, conn2, pkt, expect)
  BY <1>3 DEF StaleParts
<1>4. ASSUME r = [run EXCEPT !.conn = conn2, !.pkt = pkt2]
      PROVE  StaleParts(r, conn2, pkt2, expect)
  BY <1>4 DEF StaleParts
<1>5. ASSUME r = [run EXCEPT !.pkt = pkt2, !.expect = expect2]
      PROVE  StaleParts(r, conn, pkt2, expect2)
  BY <1>5 DEF StaleParts
<1> QED
  BY <1>1, <1>2, <1>3, <1>4, <1>5

\* A round more changes nothing of what is known, if it does nothing.
LEMMA CountingOn ==
  ASSUME NEW c0, NEW run, NEW k \in Nat, StaleRunInv(c0, run, k)
  PROVE  StaleRunInv(c0, run, k + 1)
<1>1. run.pkt.idx \in Nat /\ run.pkt.begun \in BOOLEAN
  BY DEF StaleRunInv, PktInv
<1>2. Counting(run, k) => Counting(run, k + 1)
  BY <1>1 DEF Counting
<1> QED
  BY <1>2 DEF StaleRunInv

\* The head of the list is looked at.
LEMMA StaleHeadKeeps ==
  ASSUME NEW c0, RxSide(c0), NEW run, NEW k \in Nat, StaleRunInv(c0, run, k),
         run.conn.staleQ # <<>>, NEW r, r = StaleHead(run)
  PROVE  StaleRunInv(c0, r, k + 1)
<1> DEFINE c == run.conn
           l == c.staleQ
           s == Head(l)
           e == run.expect
           w == c0.rxQ.wrSeq
           jump == s > e /\ run.pkt.begun
           p == IF jump THEN Closed(run.pkt) ELSE run.pkt
           d == Counted(Begun(p, StaleBase(p, s), s))
<1>0. StaleParts(run, c, run.pkt, e)
  BY DEF StaleRunInv
<1>1. /\ e \in Nat /\ StaleConn(c0, c) /\ PktInv(run.pkt)
      /\ NamesKnown => Counting(run, k) /\ EndsBefore(run.pkt, w)
  BY DEF StaleRunInv
<1>2. /\ c0.rxQ.rdSeq \in Nat /\ w \in Nat /\ c0.rxQ.rdSeq <= w
  BY Numbers DEF RxSide, Sound
<1>3. /\ s \in Nat /\ s < w /\ Len(l) \in Nat
      /\ StaleBelow(Tail(l), c0.rxQ.rdSeq) /\ Len(Tail(l)) = Len(l) - 1
  <2>1. StaleBelow(l, c0.rxQ.rdSeq) /\ l # <<>>
    BY <1>1 DEF StaleConn
  <2> HIDE DEF l
  <2>2. /\ Head(l) \in Nat /\ Head(l) < c0.rxQ.rdSeq /\ Len(l) \in Nat
        /\ StaleBelow(Tail(l), c0.rxQ.rdSeq) /\ Len(Tail(l)) = Len(l) - 1
    BY <1>2, <2>1, HeadAndTail
  <2> QED
    BY <1>2, <2>2
<1>4. CASE s = e - 1
  <2> DEFINE t == [c EXCEPT !.staleQ = Tail(l)]
  <2>1. r = [run EXCEPT !.conn = t]
    BY <1>4 DEF StaleHead, llReleaseHead
  <2>2. /\ t.staleQ = Tail(l) /\ t.ackQ = c.ackQ /\ t.rxQ = c.rxQ /\ t.seqAck = c.seqAck
        /\ t = [rxQ |-> t.rxQ, ackQ |-> t.ackQ, staleQ |-> t.staleQ, seqAck |-> t.seqAck]
    BY <1>1 DEF StaleConn
  <2> HIDE DEF t
  <2>3. StaleConn(c0, t)
    <3>1. Len(l) <= Len(c0.staleQ) /\ Len(c0.staleQ) \in Nat
      BY <1>1 DEF StaleConn, RxSide, StaleBelow
    <3>2. Len(t.staleQ) <= Len(c0.staleQ)
      BY <1>3, <2>2, <3>1
    <3> QED
      BY <1>1, <1>3, <2>2, <3>2 DEF StaleConn
  <2>4. StaleParts(r, t, run.pkt, e)
    <3> HIDE DEF c, e
    <3> QED
      BY <1>0, <2>1, StaleChange
  <2>5. ASSUME Counting(run, k) PROVE Counting(r, k + 1)
    <3>1. run.pkt.idx \in Nat
      BY <1>1 DEF PktInv
    <3>2. run.pkt.begun
      BY <1>1, <1>4, <2>5 DEF Counting
    <3> QED
      BY <2>4, <2>5, <3>1, <3>2 DEF Counting, StaleParts
  <2> QED
    BY <1>1, <2>3, <2>4, <2>5 DEF StaleRunInv, StaleParts
<1>5. CASE s # e - 1 /\ s < e
  <2>1. r = [run EXCEPT !.returned = TRUE]
    BY <1>5 DEF StaleHead
  <2>2. StaleParts(r, c, run.pkt, e)
    <3> HIDE DEF c, e
    <3> QED
      BY <1>0, <2>1, StaleChange
  <2>3. Counting(run, k) => Counting(r, k)
    BY <2>2 DEF Counting, StaleParts
  <2>4. StaleRunInv(c0, r, k)
    BY <1>1, <2>2, <2>3 DEF StaleRunInv, StaleParts
  <2> QED
    BY <2>4, CountingOn
<1>6. CASE ~(s < e)
  <2> DEFINE e2 == (IF jump THEN s ELSE e) + 1
  <2>1. r = [run EXCEPT !.pkt = d, !.expect = e2]
    <3>1. s # e - 1
      BY <1>1, <1>3, <1>6
    <3> QED
      BY <1>6, <3>1 DEF StaleHead, StaleBase, StaleBase
  <2>2. e2 \in Nat
    BY <1>1, <1>3
  <2>3. StaleParts(r, c, d, e2)
    <3> HIDE DEF c, e, d, e2
    <3> QED
      BY <1>0, <2>1, StaleChange
  <2>4. /\ PktInv(p) /\ run.pkt.idx \in Nat /\ p.fields = run.pkt.fields
        /\ p.base = run.pkt.base
        /\ p.idx = IF jump THEN run.pkt.idx + 1 ELSE run.pkt.idx
        /\ p.begun <=> run.pkt.begun /\ ~jump
    <3>1. run.pkt.idx \in Nat /\ run.pkt.begun \in BOOLEAN
      BY <1>1 DEF PktInv
    <3>2. CASE jump
      <4>1. p = Closed(run.pkt)
        BY <3>2
      <4> HIDE DEF p, s
      <4> QED
        BY <1>1, <3>1, <3>2, <4>1, ClosedFacts
    <3>3. CASE ~jump
      BY <1>1, <3>1, <3>3
    <3> QED
      BY <3>2, <3>3
  <2>5. EndsAt(p, s, w, d)
    <3>1. PktInv(p) /\ s \in Nat /\ w \in Nat /\ s < w
      BY <1>2, <1>3, <2>4
    <3>2. d = Counted(Begun(p, StaleBase(p, s), s))
      OBVIOUS
    <3> HIDE DEF p, s, w, d
    <3> QED
      BY <3>1, <3>2, StaleCounted
  <2>6. ASSUME NamesKnown PROVE Counting(r, k + 1) /\ EndsBefore(d, w)
    <3>1. Counting(run, k) /\ EndsBefore(run.pkt, w)
      BY <1>1, <2>6
    <3>2. EndsBefore(p, w)
      BY <2>4, <3>1 DEF EndsBefore
    <3>3. ASSUME p.begun
          PROVE  p.base + p.fields[p.idx + 1].offset + p.fields[p.idx + 1].count = s
      <4>1. run.pkt.begun /\ ~jump
        BY <2>4, <3>3
      <4>2. s = e
        BY <1>1, <1>3, <1>6, <4>1
      <4> QED
        BY <2>4, <3>1, <4>1, <4>2 DEF Counting
    <3>4. /\ d.base + d.fields[d.idx + 1].offset + d.fields[d.idx + 1].count = s + 1
          /\ EndsBefore(d, w)
      BY <2>5, <3>2, <3>3 DEF EndsAt
    <3>5. e2 = s + 1
      <4>1. CASE run.pkt.begun
        BY <1>1, <1>3, <1>6, <4>1
      <4>2. CASE ~run.pkt.begun
        BY <1>1, <1>3, <3>1, <4>2 DEF Counting
      <4> QED
        BY <4>1, <4>2
    <3>6. 2 * d.idx + 1 <= k + 1
      <4>1. CASE run.pkt.begun
        <5>1. 2 * run.pkt.idx + 2 <= k
          BY <1>1, <1>3, <1>6, <3>1, <4>1 DEF Counting
        <5>2. d.idx \in {run.pkt.idx, run.pkt.idx + 1}
          BY <2>4, <2>5 DEF EndsAt
        <5> QED
          BY <2>4, <5>1, <5>2
      <4>2. CASE ~run.pkt.begun
        <5>1. run.pkt.idx = 0 /\ ~jump
          BY <3>1, <4>2 DEF Counting
        <5>2. d.idx = 0
          BY <2>4, <2>5, <5>1 DEF EndsAt
        <5> QED
          BY <5>2
      <4> QED
        BY <4>1, <4>2
    <3>7. Head(l) = e2 - 1
      BY <1>3, <3>5
    <3> HIDE DEF d, e2, c, l
    <3> QED
      BY <2>3, <2>5, <3>4, <3>5, <3>6, <3>7 DEF Counting, StaleParts, EndsAt, l, c
  <2> HIDE DEF d, e2
  <2> QED
    BY <1>1, <2>2, <2>3, <2>5, <2>6 DEF StaleRunInv, StaleParts, EndsAt
<1> QED
  BY <1>4, <1>5, <1>6

\* A packet of acknowledgements, queued behind those that wait.
LEMMA StalePushed ==
  ASSUME NEW c0, RxSide(c0), NEW c, StaleConn(c0, c), NEW p, PktInv(p),
         NamesKnown => EndsBefore(p, c0.rxQ.wrSeq), HasTxSlot(c),
         NEW n \in Nat, NEW m \in Nat, NEW junk \in JunkFields,
         NEW d, d = pushSackEthPacket(c, p, n, m, junk)
  PROVE  StaleConn(c0, d) /\ d.staleQ = c.staleQ
<1> DEFINE w == c0.rxQ.wrSeq
           x == SackPacket(p, n, m, junk)
           q == Commit(c.ackQ, c.ackQ.wrSeq, x)
<1>1. /\ d.ackQ = q /\ d.rxQ = c.rxQ /\ d.staleQ = c.staleQ /\ d.seqAck = c.seqAck
      /\ d = [rxQ |-> d.rxQ, ackQ |-> d.ackQ, staleQ |-> d.staleQ, seqAck |-> d.seqAck]
  <2> HIDE DEF q
  <2> QED
    BY DEF pushSackEthPacket, StaleConn, q, x
<1>2. x \in Allowed(w)
  <2>1. NamesKnown => EndsBefore(p, w)
    OBVIOUS
  <2> HIDE DEF w
  <2> QED
    BY <2>1, SackPacketType
<1>3. Grown(Allowed(w), c0.ackQ, q)
  <2>1. Allowed(w) \subseteq AckPackets
    BY DEF Allowed
  <2>2. Grown(Allowed(w), c0.ackQ, c.ackQ) /\ cqGetNextWrErr(c.ackQ) = "cqENOERR"
    BY DEF StaleConn, HasTxSlot
  <2> HIDE DEF w, x
  <2> QED
    BY <1>2, <2>1, <2>2, PushGrows
<1> HIDE DEF q, x
<1> QED
  BY <1>1, <1>3 DEF StaleConn

\* One round of the loop, of which there are as many as the list was long
LEMMA StaleStepKeeps ==
  ASSUME NEW c0, RxSide(c0), NEW run, NEW k \in Nat, StaleRunInv(c0, run, k),
         k < Len(c0.staleQ), NEW junk \in JunkFields, NEW i,
         NEW r, r = StaleStep(junk, run, i)
  PROVE  StaleRunInv(c0, r, k + 1)
<1> DEFINE p == run.pkt
           full == p.idx >= MaxSacks
           f == [run EXCEPT !.conn = pushSackEthPacket(@, p, MaxSacks, 0, junk),
                            !.pkt = EmptyPacket]
<1>1. /\ StaleParts(run, run.conn, p, run.expect) /\ run.expect \in Nat
      /\ StaleConn(c0, run.conn) /\ PktInv(p) /\ p.idx \in Nat
      /\ NamesKnown => Counting(run, k) /\ EndsBefore(p, c0.rxQ.wrSeq)
  BY DEF StaleRunInv, PktInv
<1>2. ASSUME NEW t, StaleParts(t, run.conn, p, run.expect) PROVE StaleRunInv(c0, t, k + 1)
  <2>1. Counting(run, k) => Counting(t, k)
    BY <1>2 DEF Counting, StaleParts
  <2>2. StaleRunInv(c0, t, k)
    BY <1>1, <1>2, <2>1 DEF StaleRunInv, StaleParts
  <2> QED
    BY <2>2, CountingOn
<1>3. ASSUME NEW t, StaleRunInv(c0, t, k),
             NEW u, u = IF t.conn.staleQ = <<>> THEN [t EXCEPT !.done = TRUE] ELSE StaleHead(t)
      PROVE  StaleRunInv(c0, u, k + 1)
  <2>1. CASE t.conn.staleQ = <<>>
    <3>1. StaleParts(t, t.conn, t.pkt, t.expect) /\ u = [t EXCEPT !.done = TRUE]
      BY <1>3, <2>1 DEF StaleRunInv
    <3>2. StaleParts(u, t.conn, t.pkt, t.expect)
      BY <3>1, StaleChange
    <3>3. Counting(t, k) => Counting(u, k)
      BY <3>2 DEF Counting, StaleParts
    <3>4. StaleRunInv(c0, u, k)
      BY <1>3, <3>2, <3>3 DEF StaleRunInv, StaleParts
    <3> QED
      BY <3>4, CountingOn
  <2>2. CASE t.conn.staleQ # <<>>
    <3>1. u = StaleHead(t)
      BY <1>3, <2>2
    <3> QED
      BY <1>3, <2>2, <3>1, StaleHeadKeeps
  <2> QED
    BY <2>1, <2>2
<1>4. ASSUME NamesKnown PROVE ~full
  <2>1. Counting(run, k) /\ MaxStale <= 2 * MaxSacks + 1 /\ MaxSacks \in Nat \ {0}
        /\ MaxStale \in Nat /\ Len(c0.staleQ) <= MaxStale /\ Len(c0.staleQ) \in Nat
    BY <1>1, <1>4, MaxSacksAssumption, FlowAssumption DEF NamesKnown, RxSide, StaleBelow
  <2>2. p.idx = 0 \/ 2 * p.idx + 1 <= k
    BY <2>1 DEF Counting
  <2> QED
    BY <1>1, <2>1, <2>2
<1>5. CASE run.returned \/ run.done
  <2>1. r = run
    BY <1>5 DEF StaleStep
  <2> QED
    BY <2>1, CountingOn
<1>6. CASE ~(run.returned \/ run.done) /\ full /\ ~HasTxSlot(run.conn)
  <2>1. r = [run EXCEPT !.returned = TRUE]
    BY <1>6 DEF StaleStep
  <2>2. StaleParts(r, run.conn, p, run.expect)
    BY <1>1, <2>1, StaleChange
  <2> QED
    BY <1>2, <2>2
<1>7. CASE ~(run.returned \/ run.done) /\ full /\ HasTxSlot(run.conn)
  <2> DEFINE d == pushSackEthPacket(run.conn, p, MaxSacks, 0, junk)
  <2>1. r = IF f.conn.staleQ = <<>> THEN [f EXCEPT !.done = TRUE] ELSE StaleHead(f)
    BY <1>7 DEF StaleStep
  <2>2. f = [run EXCEPT !.conn = d, !.pkt = EmptyPacket]
    <3> HIDE DEF p
    <3> QED
      BY <1>1 DEF StaleParts
  <2> HIDE DEF f
  <2>3. StaleConn(c0, d)
    <3> HIDE DEF p
    <3> QED
      BY <1>1, <1>7, MaxSacksAssumption, StalePushed
  <2> HIDE DEF d
  <2>4. StaleParts(f, d, EmptyPacket, run.expect)
    BY <1>1, <2>2, StaleChange
  <2>5. PktInv(EmptyPacket)
    BY EmptyFacts
  <2>6. StaleRunInv(c0, f, k)
    BY <1>1, <1>4, <1>7, <2>3, <2>4, <2>5 DEF StaleRunInv, StaleParts
  <2> QED
    BY <1>3, <2>1, <2>6
<1>8. CASE ~(run.returned \/ run.done) /\ ~full
  <2>1. r = IF run.conn.staleQ = <<>> THEN [run EXCEPT !.done = TRUE] ELSE StaleHead(run)
    BY <1>8 DEF StaleStep
  <2> QED
    BY <1>3, <2>1
<1> QED
  BY <1>5, <1>6, <1>7, <1>8

StaleStates == INSTANCE IterationProofs WITH Step <- StaleStep

LEMMA StaleLoopKeeps ==
  ASSUME NEW c0, RxSide(c0), c0.staleQ # <<>>, NEW junk \in JunkFields,
         NEW run, run = StaleLoop!After(junk, StaleRun(c0), c0.staleQ)
  PROVE  \E k \in Nat : StaleRunInv(c0, run, k)
<1> DEFINE elems == c0.staleQ
           n == Len(elems)
           first == StaleRun(c0)
           r == StaleStates!Run(junk, first, elems)
           Held == {k \in 0 .. n : StaleRunInv(c0, r[k], k)}
<1>1. StaleBelow(elems, c0.rxQ.rdSeq) /\ elems # <<>> /\ c0.rxQ.rdSeq \in Nat
  BY Numbers DEF RxSide, Sound
<1>2. n \in Nat /\ Head(elems) \in Nat
  <2> HIDE DEF elems
  <2> QED
    BY <1>1, HeadAndTail
<1>3. run = r[n]
  BY DEF StaleLoop!After, StaleLoop!Run, StaleStates!Run
<1>4. StaleRunInv(c0, first, 0)
  <2>1. /\ first = [conn |-> c0, pkt |-> EmptyPacket, returned |-> FALSE, done |-> FALSE,
                    expect |-> Head(elems)]
    BY DEF StaleRun
  <2> HIDE DEF first, elems
  <2>2. StaleParts(first, c0, EmptyPacket, Head(elems))
    BY <2>1 DEF StaleParts
  <2>3. Grown(Allowed(c0.rxQ.wrSeq), c0.ackQ, c0.ackQ)
    BY DEF RxSide, Grown
  <2>4. StaleConn(c0, c0)
    <3>1. Len(c0.staleQ) <= Len(c0.staleQ)
      BY <1>2 DEF elems
    <3> QED
      BY <2>3, <3>1 DEF RxSide, StaleConn
  <2>5. PktInv(EmptyPacket)
    BY EmptyFacts
  <2>6. ~EmptyPacket.begun /\ EmptyPacket.idx = 0 /\ EmptyPacket.fields = <<>>
    BY DEF EmptyPacket
  <2>7. Counting(first, 0)
    BY <1>1, <2>2, <2>6 DEF Counting, StaleParts, elems
  <2>8. EndsBefore(EmptyPacket, c0.rxQ.wrSeq)
    BY <2>6 DEF EndsBefore
  <2> QED
    BY <1>2, <2>2, <2>4, <2>5, <2>7, <2>8 DEF StaleRunInv, StaleParts
<1> HIDE DEF first
<1>5. r[0] = first /\ \A k \in 1 .. n : r[k] = StaleStep(junk, r[k - 1], elems[k])
  BY <1>2, StaleStates!RunSteps
<1> HIDE DEF r
<1>6. 0 \in Held
  <2> HIDE DEF n
  <2> QED
    BY <1>2, <1>4, <1>5
<1>7. ASSUME NEW k \in 1 .. n, k - 1 \in Held PROVE k \in Held
  <2> DEFINE m == k - 1
  <2>1. StaleRunInv(c0, r[m], m) /\ r[k] = StaleStep(junk, r[m], elems[k])
    BY <1>5, <1>7
  <2>2. m \in Nat /\ m < Len(c0.staleQ) /\ m + 1 = k /\ k \in 0 .. n
    BY <1>2
  <2> HIDE DEF m, elems
  <2>3. StaleRunInv(c0, r[k], m + 1)
    BY <2>1, <2>2, StaleStepKeeps
  <2> QED
    BY <2>2, <2>3
<1>8. n \in Held
  <2> HIDE DEF Held, n
  <2> QED
    BY <1>2, <1>6, <1>7, StaleStates!CountUp, Zenon
<1> HIDE DEF n
<1>9. StaleRunInv(c0, run, n)
  BY <1>3, <1>8
<1> QED
  BY <1>2, <1>9

\* The call as a whole
LEMMA StaleKeeps ==
  ASSUME NEW c0, RxSide(c0), NEW junk \in JunkFields,
         NEW c, c = generateStaleAcks(c0, junk)
  PROVE  StaleConn(c0, c)
<1>1. CASE c0.staleQ = <<>>
  <2>1. c = c0
    BY <1>1 DEF generateStaleAcks
  <2>2. Grown(Allowed(c0.rxQ.wrSeq), c0.ackQ, c0.ackQ)
    BY DEF RxSide, Grown
  <2>3. Len(c0.staleQ) <= Len(c0.staleQ)
    BY DEF RxSide, StaleBelow
  <2> QED
    BY <2>1, <2>2, <2>3 DEF RxSide, StaleConn
<1>2. CASE c0.staleQ # <<>>
  <2>1. PICK run : run = StaleLoop!After(junk, StaleRun(c0), c0.staleQ)
    OBVIOUS
  <2>2. c = StaleFinish(run, junk)
    BY <1>2, <2>1 DEF generateStaleAcks
  <2>3. PICK k \in Nat : StaleRunInv(c0, run, k)
    BY <1>2, <2>1, StaleLoopKeeps
  <2>4. /\ StaleConn(c0, run.conn) /\ PktInv(run.pkt)
        /\ NamesKnown => EndsBefore(run.pkt, c0.rxQ.wrSeq)
    BY <2>3 DEF StaleRunInv
  <2>5. CASE c = run.conn
    BY <2>4, <2>5
  <2>6. CASE c # run.conn
    <3> DEFINE n == run.pkt.idx + 1
               d == pushSackEthPacket(run.conn, run.pkt, n, n, junk)
    <3>1. n \in Nat
      BY <2>4 DEF PktInv
    <3> HIDE DEF n
    <3>2. c = d /\ HasTxSlot(run.conn)
      BY <2>2, <2>6 DEF StaleFinish, n
    <3>3. StaleConn(c0, d)
      BY <2>4, <3>1, <3>2, StalePushed
    <3> QED
      BY <3>2, <3>3
  <2> QED
    BY <2>5, <2>6
<1> QED
  BY <1>1, <1>2
-----------------------------------------------------------------------------
(* The rest of the server's calls                                          *)

\* What was allowed stays so as the server gets more.
LEMMA AllowedGrows ==
  ASSUME NEW v \in Nat, NEW w \in Nat, v <= w
  PROVE  Allowed(v) \subseteq Allowed(w)
<1> SUFFICES ASSUME NEW p \in Allowed(v), NamesKnown PROVE EndsBefore(p, w)
  BY DEF Allowed
<1>1. EndsBefore(p, v) /\ p.base \in Nat /\ p.fields \in Seq(AckFields)
  BY DEF Allowed, AckPackets
<1>2. ASSUME NEW k \in DOMAIN p.fields
      PROVE  p.fields[k].count = 0 \/ p.base + p.fields[k].offset + p.fields[k].count <= w
  <2>1. p.fields[k].offset \in Int /\ p.fields[k].count \in Nat
    <3>1. p.fields[k] \in AckFields
      BY <1>1
    <3> QED
      BY <3>1 DEF AckFields
  <2>2. p.fields[k].count = 0 \/ p.base + p.fields[k].offset + p.fields[k].count <= v
    BY <1>1 DEF EndsBefore
  <2> QED
    BY <1>1, <2>1, <2>2
<1> QED
  BY <1>2 DEF EndsBefore

\* Nothing but the stale list and the queue of acknowledgements is changed.
LEMMA StaleRxSide ==
  ASSUME NEW c0, RxSide(c0), NEW c, StaleConn(c0, c)
  PROVE  RxSide(c) /\ c.rxQ = c0.rxQ
<1>1. Len(c.staleQ) <= MaxStale
  <2>1. Len(c.staleQ) <= Len(c0.staleQ) /\ Len(c0.staleQ) <= MaxStale
        /\ Len(c.staleQ) \in Nat /\ Len(c0.staleQ) \in Nat /\ MaxStale \in Nat
    BY FlowAssumption DEF RxSide, StaleConn, StaleBelow
  <2> QED
    BY <2>1
<1> QED
  BY <1>1 DEF RxSide, StaleConn, Grown

\* The stale list takes a number in.
LEMMA PushedStale ==
  ASSUME NEW w \in Nat, NEW l, StaleBelow(l, w), NEW s \in Nat, s < w,
         NEW m, m = llPushSeqOrd(l, s)
  PROVE  StaleBelow(m, w) /\ Len(m) = Len(l) + 1
<1> DEFINE T == {k \in DOMAIN l : l[k] > s} \cup {Len(l) + 1}
           i == Min(T)
<1>1. l \in Seq(Nat) /\ Len(l) \in Nat /\ \A k \in DOMAIN l : l[k] < w
  BY DEF StaleBelow
<1>2. T \subseteq 1 .. Len(l) + 1 /\ T # {} /\ T \subseteq Nat
  BY <1>1
<1> HIDE DEF T
<1>3. i \in T
  <2>1. \E x \in T : \A y \in T : x <= y
    BY <1>2, LeastNatural
  <2> QED
    BY <2>1 DEF Min
<1>4. i \in 1 .. Len(l) + 1
  BY <1>2, <1>3
<1>5. m = InsertAt(l, i, s)
  BY DEF llPushSeqOrd, T
<1> HIDE DEF i
<1> DEFINE a == SubSeq(l, 1, i - 1)
           b == SubSeq(l, i, Len(l))
<1>6. /\ a \in Seq(Nat) /\ Len(a) = i - 1
      /\ \A k \in 1 .. i - 1 : a[k] = l[k]
  BY <1>1, <1>4
<1>7. /\ b \in Seq(Nat) /\ Len(b) = Len(l) - i + 1
      /\ \A k \in 1 .. Len(l) - i + 1 : b[k] = l[i + k - 1]
  BY <1>1, <1>4
<1> DEFINE c == a \o <<s>>
<1>8. m = c \o b
  BY <1>5 DEF InsertAt
<1> HIDE DEF a, b
<1>9. /\ c \in Seq(Nat) /\ Len(c) = i
      /\ \A k \in 1 .. i : c[k] = IF k < i THEN l[k] ELSE s
  <2>1. i - 1 \in Nat /\ <<s>> \in Seq(Nat) /\ Len(<<s>>) = 1 /\ <<s>>[1] = s
    BY <1>4
  <2>2. c \in Seq(Nat) /\ Len(c) = i
    BY <1>4, <1>6, <2>1
  <2>3. ASSUME NEW k \in 1 .. i PROVE c[k] = IF k < i THEN l[k] ELSE s
    BY <1>4, <1>6, <2>1, <2>3
  <2> QED
    BY <2>2, <2>3
<1> HIDE DEF c
<1>10. /\ m \in Seq(Nat) /\ Len(m) = Len(l) + 1
       /\ \A k \in 1 .. Len(l) + 1 : m[k] = IF k <= i THEN c[k] ELSE b[k - i]
  <2>1. Len(c) + Len(b) = Len(l) + 1
    BY <1>1, <1>4, <1>7, <1>9
  <2>2. m \in Seq(Nat) /\ Len(m) = Len(l) + 1
    BY <1>7, <1>8, <1>9, <2>1
  <2>3. ASSUME NEW k \in 1 .. Len(c) + Len(b)
        PROVE  m[k] = IF k <= Len(c) THEN c[k] ELSE b[k - Len(c)]
    <3>1. c \in Seq(Nat) /\ b \in Seq(Nat)
      BY <1>7, <1>9
    <3> QED
      BY <1>8, <3>1
  <2>4. Len(c) = i
    BY <1>9
  <2> QED
    BY <2>1, <2>2, <2>3, <2>4
<1>11. ASSUME NEW k \in 1 .. Len(l) + 1 PROVE m[k] < w
  <2>1. CASE k < i
    <3>1. m[k] = l[k] /\ k \in DOMAIN l
      BY <1>1, <1>4, <1>9, <1>10, <2>1
    <3> QED
      BY <1>1, <3>1
  <2>2. CASE k = i
    <3>1. m[k] = s
      BY <1>4, <1>9, <1>10, <2>2
    <3> QED
      BY <3>1
  <2>3. CASE k > i
    <3>1. m[k] = b[k - i] /\ k - i \in 1 .. Len(l) - i + 1 /\ i + (k - i) - 1 = k - 1
      BY <1>1, <1>4, <1>10, <2>3
    <3>2. b[k - i] = l[k - 1]
      BY <1>7, <3>1
    <3>3. k - 1 \in DOMAIN l
      BY <1>1, <1>4, <2>3
    <3> QED
      BY <1>1, <3>1, <3>2, <3>3
  <2> QED
    BY <1>4, <2>1, <2>2, <2>3
<1> QED
  BY <1>10, <1>11 DEF StaleBelow

\* The server's connection after a packet was handed over: the window without
\* the first of its packets.
Delivered(c, d) ==
  /\ RxSide(d)
  /\ d.rxQ.rdSeq = c.rxQ.rdSeq + 1 /\ d.rxQ.wrSeq = c.rxQ.wrSeq
  /\ \A j \in Slots : d.rxQ.valid[j] => c.rxQ.valid[j] /\ d.rxQ.buff[j] = c.rxQ.buff[j]
  /\ At(c.rxQ, c.rxQ.rdSeq).seq = c.rxQ.rdSeq

LEMMA DeliverKeeps ==
  ASSUME NEW c, RxSide(c), CanDeliver(c),
         NEW d, d = [c EXCEPT !.rxQ = cqReleaseSlot(@, @.rdSeq)]
  PROVE  Delivered(c, d)
<1> DEFINE C == {Zeroed} \cup RxPackets
           q == c.rxQ
           p == cqReleaseSlot(q, q.rdSeq)
           s == q.rdSeq
<1>1. /\ Sound(C, q) /\ NoHoles(q) /\ NumberedRx(q) /\ q.rdSeq \in Nat /\ q.wrSeq \in Nat
      /\ SlotCount \in Nat /\ SlotCount > 0 /\ q.valid \in [Slots -> BOOLEAN]
      /\ q \in QueueType(C) /\ Windowed(q)
  BY Numbers DEF RxSide, Sound
<1>2. /\ d.rxQ = p /\ d.ackQ = c.ackQ /\ d.staleQ = c.staleQ /\ d.seqAck = c.seqAck
      /\ d = [rxQ |-> d.rxQ, ackQ |-> d.ackQ, staleQ |-> d.staleQ, seqAck |-> d.seqAck]
  <2> HIDE DEF p
  <2> QED
    BY DEF RxSide, p
<1>3. Valid(q, s) /\ At(q, s).ackSent
  BY DEF CanDeliver, cqGetNextRdErr
<1>4. s < q.wrSeq /\ Idx(s) \in Slots /\ s \in q.rdSeq .. q.rdSeq + SlotCount - 1
  BY <1>1, <1>3, ReleasedIsBehind, IdxType
<1>5. cqGetRdErr(q, s) = "cqENOERR"
  BY <1>1, <1>3, <1>4 DEF cqGetRdErr, InRange
<1> HIDE DEF C
<1>6. Sound(C, p) /\ p.buff = q.buff /\ p.valid = [q.valid EXCEPT ![Idx(s)] = FALSE]
      /\ Shrunk(q, p)
  BY <1>1, <1>5, ReleaseShrinks
<1>7. NoHoles(p) /\ p.rdSeq = s + 1
  BY <1>1, <1>5, ReleaseKeepsNoHoles
<1>8. At(q, s).seq = s
  BY <1>1, <1>3, <1>4, NumberAt DEF C
<1> HIDE DEF p
<1>9. p.wrSeq = q.wrSeq /\ \A j \in Slots : p.valid[j] => q.valid[j] /\ j # Idx(s)
  BY <1>1, <1>4, <1>6 DEF Shrunk
<1>10. NumberedRx(p)
  <2> SUFFICES ASSUME NEW j \in Slots, p.valid[j]
               PROVE  /\ p.buff[j] \in RxPackets
                      /\ p.buff[j].seq \in p.rdSeq .. p.rdSeq + SlotCount - 1
                      /\ Idx(p.buff[j].seq) = j
    BY DEF NumberedRx
  <2>1. /\ q.valid[j] /\ j # Idx(s) /\ p.buff[j] = q.buff[j]
    BY <1>6, <1>9
  <2>2. /\ q.buff[j] \in RxPackets /\ q.buff[j].seq \in q.rdSeq .. q.rdSeq + SlotCount - 1
        /\ Idx(q.buff[j].seq) = j
    BY <1>1, <2>1 DEF NumberedRx
  <2>3. q.buff[j].seq # s
    BY <2>1, <2>2
  <2>4. q.buff[j].seq \in p.rdSeq .. p.rdSeq + SlotCount - 1
    BY <1>1, <1>7, <2>2, <2>3
  <2> QED
    BY <2>1, <2>2, <2>4
<1>11. PICK b \in q.rdSeq .. q.wrSeq : AckedBelow(q, b) /\ c.seqAck <= b
  BY DEF RxSide
<1>12. b # s
  <2>1. b = s => ~At(q, s).ackSent
    BY <1>3, <1>4, <1>11 DEF AckedBelow
  <2> QED
    BY <1>3, <2>1
<1>13. AckedBelow(p, b)
  <2>1. b \in p.rdSeq .. p.wrSeq /\ b \in Nat
    BY <1>1, <1>7, <1>9, <1>11, <1>12
  <2>2. ASSUME NEW t \in p.rdSeq .. b - 1 PROVE At(p, t).ackSent
    <3>1. t \in q.rdSeq .. b - 1
      BY <1>1, <1>7, <2>1
    <3> QED
      BY <1>6, <1>11, <3>1 DEF AckedBelow, At
  <2>3. ASSUME NEW t \in b .. p.rdSeq + SlotCount - 1, Valid(p, t) PROVE ~At(p, t).ackSent
    <3>1. t \in Nat /\ t <= q.rdSeq + SlotCount
      BY <1>1, <1>7, <2>1
    <3>2. t # q.rdSeq + SlotCount
      <4>1. Idx(t) # Idx(s)
        BY <1>9, <2>3, <3>1, IdxType DEF Valid
      <4>2. Idx(s + SlotCount) = Idx(s)
        BY <1>1, IdxPeriod
      <4> QED
        BY <4>1, <4>2
    <3>3. t \in b .. q.rdSeq + SlotCount - 1
      BY <1>1, <2>1, <3>1, <3>2
    <3>4. Valid(q, t)
      BY <1>9, <2>3, <3>1, IdxType DEF Valid
    <3> QED
      BY <1>6, <1>11, <3>3, <3>4 DEF AckedBelow, At
  <2> QED
    BY <2>1, <2>2, <2>3 DEF AckedBelow
<1>14. b \in p.rdSeq .. p.wrSeq
  BY <1>13 DEF AckedBelow
<1>15. StaleBelow(c.staleQ, p.rdSeq)
  <2>1. StaleBelow(c.staleQ, q.rdSeq)
    BY DEF RxSide
  <2>2. ASSUME NEW k \in DOMAIN c.staleQ PROVE c.staleQ[k] < p.rdSeq
    <3>1. c.staleQ[k] < q.rdSeq /\ c.staleQ[k] \in Nat
      BY <2>1 DEF StaleBelow
    <3> QED
      BY <1>1, <1>7, <3>1
  <2> QED
    BY <2>1, <2>2 DEF StaleBelow
<1>16. RxSide(d)
  <2>1. Sound({Zeroed} \cup AckPackets, c.ackQ) /\ TailFree(c.ackQ)
        /\ Holds(Allowed(p.wrSeq), c.ackQ) /\ Len(c.staleQ) <= MaxStale /\ c.seqAck \in Nat
    BY <1>9 DEF RxSide
  <2> QED
    BY <1>2, <1>6, <1>7, <1>10, <1>11, <1>13, <1>14, <1>15, <2>1 DEF RxSide, C
<1> QED
  BY <1>2, <1>6, <1>7, <1>8, <1>9, <1>16 DEF Delivered

\* The server's connection after packet f came: more in its window, or in its
\* stale list.
Received(c, f, d) ==
  /\ RxSide(d)
  /\ d.rxQ.rdSeq = c.rxQ.rdSeq /\ d.rxQ.wrSeq \in Nat /\ c.rxQ.wrSeq <= d.rxQ.wrSeq
  /\ \A j \in Slots : d.rxQ.valid[j] =>
       \/ c.rxQ.valid[j] /\ d.rxQ.buff[j] = c.rxQ.buff[j]
       \/ d.rxQ.buff[j].seq = f.seq

\* What etcpOnRxDat puts into the window for packet f
Fresh(f) == [seq |-> f.seq, noAck |-> f.noAck, ackSent |-> FALSE]

\* p is the window q with the packet of number s in it.
Taken(q, s, p) ==
  /\ Sound({Zeroed} \cup RxPackets, p) /\ NoHoles(p) /\ NumberedRx(p)
  /\ p.rdSeq = q.rdSeq /\ p.wrSeq \in Nat /\ q.wrSeq <= p.wrSeq
  /\ \A b \in q.rdSeq .. q.wrSeq :
       AckedBelow(q, b) => AckedBelow(p, b) /\ b \in p.rdSeq .. p.wrSeq
  /\ \A j \in Slots : p.valid[j] =>
       (q.valid[j] /\ p.buff[j] = q.buff[j]) \/ p.buff[j].seq = s

LEMMA WindowTakes ==
  ASSUME NEW c, RxSide(c), NEW f, f.seq \in Nat, f.noAck \in BOOLEAN,
         InRange(c.rxQ, f.seq), ~Valid(c.rxQ, f.seq),
         NEW p, p = Commit(c.rxQ, f.seq, Fresh(f))
  PROVE  Taken(c.rxQ, f.seq, p)
<1>0. PICK x : x = Fresh(f)
  OBVIOUS
<1> DEFINE s == f.seq
<1> DEFINE C == {Zeroed} \cup RxPackets
           q == c.rxQ
<1>1. /\ Sound(C, q) /\ NoHoles(q) /\ NumberedRx(q) /\ q.rdSeq \in Nat /\ q.wrSeq \in Nat
      /\ SlotCount \in Nat /\ SlotCount > 0 /\ q.valid \in [Slots -> BOOLEAN]
      /\ q.buff \in [Slots -> C] /\ q.wrSeq <= q.rdSeq + SlotCount
  BY Numbers DEF RxSide, Sound
<1>2. x \in RxPackets /\ x \in C /\ x.seq = s /\ ~x.ackSent
  BY <1>0 DEF RxPackets, Fresh
<1>3. /\ Idx(s) \in Slots /\ ~q.valid[Idx(s)]
      /\ s \in q.rdSeq .. q.rdSeq + SlotCount - 1 /\ ~(s \in q.rdSeq .. q.wrSeq - 1)
  BY <1>1, IdxType DEF InRange, Valid, NoHoles
<1>r. InRange(q, s) /\ ~Valid(q, s) /\ s \in Nat /\ p = Commit(q, s, x)
  BY <1>0
<1> HIDE DEF C, q, s
<1>4. Sound(C, p) /\ AfterStore(q, s, x, p)
  BY <1>1, <1>2, <1>r, CommitStores
<1>5. /\ p.rdSeq = q.rdSeq /\ p.valid = [q.valid EXCEPT ![Idx(s)] = TRUE]
      /\ p.buff = [q.buff EXCEPT ![Idx(s)] = x]
      /\ p.wrSeq \in q.wrSeq .. q.rdSeq + SlotCount /\ NoHoles(p) /\ s \in Nat
  BY <1>1, <1>4, <1>r DEF AfterStore
<1>6. p.wrSeq \in Nat /\ q.wrSeq <= p.wrSeq
  BY <1>1, <1>5
<1>7. /\ p.valid[Idx(s)] /\ p.buff[Idx(s)] = x
      /\ \A j \in Slots : j # Idx(s) => p.valid[j] = q.valid[j] /\ p.buff[j] = q.buff[j]
  BY <1>1, <1>3, <1>5
<1>8. NumberedRx(p)
  <2> SUFFICES ASSUME NEW j \in Slots, p.valid[j]
               PROVE  /\ p.buff[j] \in RxPackets
                      /\ p.buff[j].seq \in p.rdSeq .. p.rdSeq + SlotCount - 1
                      /\ Idx(p.buff[j].seq) = j
    BY DEF NumberedRx
  <2>1. CASE j = Idx(s)
    BY <1>2, <1>3, <1>5, <1>7, <2>1
  <2>2. CASE j # Idx(s)
    <3>1. q.valid[j] /\ p.buff[j] = q.buff[j]
      BY <1>7, <2>2
    <3> QED
      BY <1>1, <1>5, <3>1 DEF NumberedRx
  <2> QED
    BY <2>1, <2>2
<1>9. ASSUME NEW b \in q.rdSeq .. q.wrSeq, AckedBelow(q, b)
      PROVE  AckedBelow(p, b) /\ b \in p.rdSeq .. p.wrSeq
  <2>1. b \in p.rdSeq .. p.wrSeq /\ b \in Nat /\ b <= s
    BY <1>1, <1>3, <1>5
  <2>2. ASSUME NEW t \in q.rdSeq .. q.rdSeq + SlotCount - 1
        PROVE  At(p, t) = IF t = s THEN x ELSE At(q, t)
    <3>1. Sound(C, q) /\ x \in C /\ p.buff = [q.buff EXCEPT ![Idx(s)] = x]
          /\ s \in q.rdSeq .. q.rdSeq + SlotCount - 1
      BY <1>1, <1>2, <1>3, <1>5
    <3> QED
      BY <3>1, StoredAt
  <2>3. ASSUME NEW t \in p.rdSeq .. b - 1 PROVE At(p, t).ackSent
    <3>1. t \in q.rdSeq .. q.rdSeq + SlotCount - 1 /\ t # s /\ t \in q.rdSeq .. b - 1
      BY <1>1, <1>5, <2>1
    <3>2. At(p, t) = At(q, t)
      BY <2>2, <3>1
    <3> QED
      BY <1>9, <3>1, <3>2 DEF AckedBelow
  <2>4. ASSUME NEW t \in b .. p.rdSeq + SlotCount - 1, Valid(p, t) PROVE ~At(p, t).ackSent
    <3>1. t \in q.rdSeq .. q.rdSeq + SlotCount - 1 /\ t \in b .. q.rdSeq + SlotCount - 1
          /\ t \in Nat
      BY <1>1, <1>5, <2>1
    <3>2. CASE t = s
      BY <1>2, <2>2, <3>1, <3>2
    <3>3. CASE t # s
      <4>1. At(p, t) = At(q, t)
        BY <2>2, <3>1, <3>3
      <4>2. Idx(t) # Idx(s)
        <5>1. t < s + SlotCount /\ s < t + SlotCount
          BY <1>1, <1>3, <3>1
        <5> QED
          BY <1>5, <3>1, <3>3, <5>1, IdxDistinct
      <4>3. Valid(q, t)
        BY <1>7, <2>4, <3>1, <4>2, IdxType DEF Valid
      <4> QED
        BY <1>9, <3>1, <4>1, <4>3 DEF AckedBelow
    <3> QED
      BY <3>2, <3>3
  <2> QED
    BY <2>1, <2>3, <2>4 DEF AckedBelow
<1>10. \A j \in Slots : p.valid[j] =>
         (q.valid[j] /\ p.buff[j] = q.buff[j]) \/ p.buff[j].seq = s
  BY <1>2, <1>7
<1> QED
  BY <1>4, <1>5, <1>6, <1>8, <1>9, <1>10 DEF Taken, C, q, s

LEMMA RxDatKeeps ==
  ASSUME NEW c, RxSide(c), NEW f, f.seq \in Nat, f.noAck \in BOOLEAN,
         BelowWindow(c, f) => f.noAck \/ Len(c.staleQ) < MaxStale,
         NEW d, d = etcpOnRxDat(c, f)
  PROVE  Received(c, f, d)
<1> DEFINE q == c.rxQ
           p == Commit(q, f.seq, Fresh(f))
<1>1. /\ q.rdSeq \in Nat /\ q.wrSeq \in Nat /\ SlotCount \in Nat
      /\ q.rdMin = q.rdSeq /\ q.wrMax = q.rdSeq + SlotCount
  <2>1. q.rdSeq \in Nat /\ q.wrSeq \in Nat /\ SlotCount \in Nat /\ CursorsAgree(q)
    BY Numbers DEF RxSide, Sound, Windowed
  <2> QED
    BY <2>1 DEF CursorsAgree
<1>2. CASE d = c
  BY <1>1, <1>2 DEF Received
<1>3. CASE BelowWindow(c, f) /\ ~f.noAck
  <2>1. d = [c EXCEPT !.staleQ = llPushSeqOrd(@, f.seq)]
    BY <1>1, <1>3 DEF etcpOnRxDat, AboveWindow, BelowWindow, SlotTaken
  <2>2. PICK m : m = llPushSeqOrd(c.staleQ, f.seq)
    OBVIOUS
  <2>3. /\ d.rxQ = c.rxQ /\ d.ackQ = c.ackQ /\ d.staleQ = m /\ d.seqAck = c.seqAck
        /\ d = [rxQ |-> d.rxQ, ackQ |-> d.ackQ, staleQ |-> d.staleQ, seqAck |-> d.seqAck]
    BY <2>1, <2>2 DEF RxSide
  <2>4. StaleBelow(c.staleQ, q.rdSeq) /\ f.seq < q.rdSeq
    BY <1>1, <1>3 DEF RxSide, BelowWindow
  <2>5. StaleBelow(m, q.rdSeq) /\ Len(m) = Len(c.staleQ) + 1
    BY <1>1, <2>2, <2>4, PushedStale
  <2>6. Len(m) <= MaxStale
    <3>1. Len(c.staleQ) \in Nat /\ MaxStale \in Nat /\ Len(c.staleQ) < MaxStale
      BY <1>3, <2>4, FlowAssumption DEF StaleBelow
    <3> QED
      BY <2>5, <3>1
  <2>7. RxSide(d)
    BY <2>3, <2>5, <2>6 DEF RxSide
  <2> QED
    BY <1>1, <2>3, <2>7 DEF Received
<1>4. CASE ~AboveWindow(c, f) /\ ~SlotTaken(c, f) /\ ~BelowWindow(c, f)
  <2>1. d = [c EXCEPT !.rxQ = p]
    BY <1>4 DEF etcpOnRxDat, Fresh
  <2>2. InRange(q, f.seq) /\ ~Valid(q, f.seq)
    <3>1. q.rdSeq <= f.seq /\ f.seq < q.rdSeq + SlotCount
      BY <1>1, <1>4 DEF AboveWindow, BelowWindow
    <3>2. cqPushErr(q, f.seq, SlotDataSize) # "cqENOSLOT"
      BY <1>4 DEF SlotTaken
    <3> QED
      BY <1>1, <3>1, <3>2 DEF cqPushErr, InRange
  <2> HIDE DEF p
  <2>3. /\ d.rxQ = p /\ d.ackQ = c.ackQ /\ d.staleQ = c.staleQ /\ d.seqAck = c.seqAck
        /\ d = [rxQ |-> d.rxQ, ackQ |-> d.ackQ, staleQ |-> d.staleQ, seqAck |-> d.seqAck]
    BY <2>1 DEF RxSide
  <2>4. /\ Sound({Zeroed} \cup RxPackets, p) /\ NoHoles(p) /\ NumberedRx(p)
        /\ p.rdSeq = q.rdSeq /\ p.wrSeq \in Nat /\ q.wrSeq <= p.wrSeq
        /\ \A b \in q.rdSeq .. q.wrSeq :
             AckedBelow(q, b) => AckedBelow(p, b) /\ b \in p.rdSeq .. p.wrSeq
        /\ \A j \in Slots : p.valid[j] =>
             (q.valid[j] /\ p.buff[j] = q.buff[j]) \/ p.buff[j].seq = f.seq
    <3>1. p = Commit(c.rxQ, f.seq, Fresh(f))
      BY DEF p
    <3>2. Taken(c.rxQ, f.seq, p)
      BY <2>2, <3>1, WindowTakes
    <3> QED
      BY <3>2 DEF Taken
  <2>5. PICK b \in q.rdSeq .. q.wrSeq : AckedBelow(q, b) /\ c.seqAck <= b
    BY DEF RxSide
  <2>6. AckedBelow(p, b) /\ b \in p.rdSeq .. p.wrSeq
    BY <2>4, <2>5
  <2>7. Holds(Allowed(p.wrSeq), c.ackQ)
    <3>1. Allowed(q.wrSeq) \subseteq Allowed(p.wrSeq)
      BY <1>1, <2>4, AllowedGrows
    <3>2. Holds(Allowed(q.wrSeq), c.ackQ)
      BY DEF RxSide
    <3> QED
      BY <3>1, <3>2 DEF Holds
  <2>8. RxSide(d)
    <3>1. /\ Sound({Zeroed} \cup AckPackets, c.ackQ) /\ TailFree(c.ackQ) /\ c.seqAck \in Nat
          /\ StaleBelow(c.staleQ, p.rdSeq) /\ Len(c.staleQ) <= MaxStale
      BY <2>4 DEF RxSide
    <3> QED
      BY <2>3, <2>4, <2>5, <2>6, <2>7, <3>1 DEF RxSide
  <2> QED
    BY <2>3, <2>4, <2>8 DEF Received
<1> QED
  BY <1>2, <1>3, <1>4 DEF etcpOnRxDat

\* The queue of acknowledgements with its cursors moved down is the same queue.
LEMMA RebasedKeeps ==
  ASSUME NEW C, Zeroed \in C, NEW q, Sound(C, q), TailFree(q), NEW p, p = Rebased(q)
  PROVE  /\ Sound(C, p) /\ TailFree(p) /\ p.valid = q.valid
         /\ \A j \in Slots : q.valid[j] => p.buff[j] = q.buff[j]
<1> DEFINE k == q.rdSeq \div SlotCount
           b == SlotCount * k
           buff == [j \in Slots |-> IF q.valid[j] THEN q.buff[j] ELSE Zeroed]
<1>1. /\ q \in QueueType(C) /\ CursorsAgree(q) /\ CursorsAtRest(q) /\ Roomy(q)
      /\ q.rdSeq \in Nat /\ q.wrSeq \in Nat /\ q.rdSeq <= q.wrSeq
      /\ q.wrSeq <= q.rdSeq + SlotCount /\ SlotCount \in Nat
  BY Numbers DEF Sound, Windowed
<1>2. k \in Nat /\ b \in Nat /\ b <= q.rdSeq
  <2>1. k \in Nat
    BY <1>1, SlotCountAssumption
  <2>2. q.rdSeq = b + Idx(q.rdSeq) /\ Idx(q.rdSeq) \in Nat
    BY <1>1, IdxDiv
  <2> HIDE DEF k
  <2>3. b \in Nat
    BY <1>1, <2>1
  <2> QED
    BY <1>1, <2>1, <2>2, <2>3
<1>3. /\ q.rdMin = q.rdSeq /\ q.wrMin = q.wrSeq /\ q.wrMax = q.rdSeq + SlotCount
      /\ q.rdMax \in {q.wrSeq, q.wrSeq + 1}
      /\ q.rdMax = q.wrSeq + 1 => q.wrSeq < q.rdSeq + SlotCount
  BY <1>1 DEF CursorsAgree
<1>4. p = [q EXCEPT !.rdSeq = @ - b, !.wrSeq = @ - b, !.rdMin = @ - b, !.rdMax = @ - b,
                    !.wrMin = @ - b, !.wrMax = @ - b, !.buff = buff]
  BY <1>1 DEF Rebased, QueueType
<1>5. buff \in [Slots -> C]
  BY <1>1 DEF QueueType
<1>6. b = SlotCount * k
  OBVIOUS
<1> HIDE DEF b, k
<1>7. /\ p.rdSeq = q.rdSeq - b /\ p.wrSeq = q.wrSeq - b /\ p.rdMin = q.rdMin - b
      /\ p.rdMax = q.rdMax - b /\ p.wrMin = q.wrMin - b /\ p.wrMax = q.wrMax - b
      /\ p.buff = buff /\ p.valid = q.valid /\ p.len = q.len
  <2> HIDE DEF buff
  <2> QED
    BY <1>1, <1>4 DEF QueueType
<1>8. p \in QueueType(C)
  <2>1. /\ q.rdSeq - b \in Nat /\ q.wrSeq - b \in Nat /\ q.rdMin - b \in Nat
        /\ q.rdMax - b \in Nat /\ q.wrMin - b \in Nat /\ q.wrMax - b \in Nat
    BY <1>1, <1>2, <1>3
  <2> HIDE DEF buff
  <2> QED
    BY <1>1, <1>4, <1>5, <2>1 DEF QueueType
<1>9. ASSUME NEW t \in Nat PROVE Valid(p, t) <=> Valid(q, t + b)
  <2>1. Idx(t + b) = Idx(t)
    BY <1>1, <1>2, <1>6, IdxSame
  <2> QED
    BY <1>7, <2>1 DEF Valid
<1>10. CursorsAgree(p) /\ WriteCursorInWindow(p)
  BY <1>1, <1>2, <1>3, <1>7 DEF CursorsAgree, WriteCursorInWindow
<1>11. CursorsAtRest(p)
  <2>1. /\ p.rdSeq \in Nat /\ p.wrSeq \in Nat
        /\ p.rdSeq + b = q.rdSeq /\ p.wrSeq + b = q.wrSeq
    BY <1>1, <1>2, <1>7
  <2>2. (Valid(p, p.rdSeq) <=> Valid(q, q.rdSeq)) /\ (Valid(p, p.wrSeq) <=> Valid(q, q.wrSeq))
    BY <1>9, <2>1
  <2> QED
    BY <1>1, <1>2, <2>1, <2>2 DEF CursorsAtRest
<1>12. TailFree(p)
  <2> SUFFICES ASSUME NEW t \in p.wrSeq .. p.rdSeq + SlotCount - 1 PROVE ~Valid(p, t)
    BY DEF TailFree
  <2>1. t \in Nat /\ t + b \in q.wrSeq .. q.rdSeq + SlotCount - 1
    BY <1>1, <1>2, <1>7
  <2> QED
    BY <1>9, <2>1 DEF TailFree
<1>13. Roomy(p)
  BY <1>1, <1>7 DEF Roomy
<1> QED
  BY <1>7, <1>8, <1>10, <1>11, <1>12, <1>13 DEF Sound, Windowed

\* Of the acknowledgements of q0 those that are still in q are the same, and
\* those that are not were sent, or met with no capacity.
AcksLeave(q0, q, hw, sent) ==
  /\ \A j \in Slots : q.valid[j] =>
       q0.valid[j] /\ AckFrame(q.buff[j]) = AckFrame(q0.buff[j])
  /\ \A j \in Slots : q0.valid[j] /\ ~q.valid[j] =>
       hw[j] = "full" \/ AckFrame(q0.buff[j]) \in sent

\* Sending acknowledgements leaves those that were not let go of.
LEMMA AcksSentKeep ==
  ASSUME NEW c, RxSide(c), NEW hw \in ServerHw(c.ackQ),
         NEW run, run = doEtcpNetTx(TcAcks(c.ackQ), TcMaxAck(c.ackQ), hw),
         NEW d, d = [c EXCEPT !.ackQ = Rebased(run.q)]
  PROVE  /\ RxSide(d) /\ d.rxQ = c.rxQ
         /\ AcksLeave(c.ackQ, d.ackQ, hw, run.sent)
         /\ \A f \in run.sent : \E j \in Slots : c.ackQ.valid[j] /\ f = AckFrame(c.ackQ.buff[j])
<1> DEFINE P == AckPackets
           q == c.ackQ
           w == c.rxQ.wrSeq
           p == Rebased(run.q)
<1>1. Sound({Zeroed} \cup P, q) /\ TailFree(q) /\ Holds(Allowed(w), q) /\ Holds(P, q)
  BY DEF RxSide, Holds, Allowed
<1>2. PacketSet(P)
  BY DEF PacketSet
<1>3. Answers(q, hw)
  <2>1. HwResults \subseteq {"sent", "full", "error"}
    BY FlowAssumption
  <2>2. \A j \in {i \in Slots : q.valid[i]} : hw[j] \in HwResults
    BY DEF ServerHw
  <2> QED
    BY <2>1, <2>2 DEF Answers
<1>4. PICK q1 : q1 = TcAcks(q)
  OBVIOUS
<1>5. PICK m : m = TcMaxAck(q)
  OBVIOUS
<1> HIDE DEF P
<1>6. Kept(P, q, q1) /\ SameWindow(q, q1)
  BY <1>1, <1>2, <1>4, TcKeeps
<1>7. TxDone(P, q, hw, run)
  BY <1>1, <1>2, <1>3, <1>4, <1>5, <1>6, TransmitKeeps
<1>8. PICK r : r = run.q
  OBVIOUS
<1>9. /\ Sound({Zeroed} \cup P, r) /\ TailFree(r)
      /\ \A j \in Slots : r.valid[j] =>
           q.valid[j] /\ r.buff[j] \in P /\ Same(q.buff[j], r.buff[j])
  BY <1>1, <1>7, <1>8 DEF TxDone, Kept, Shrunk
<1>10. /\ Sound({Zeroed} \cup P, p) /\ TailFree(p) /\ p.valid = r.valid
       /\ \A j \in Slots : r.valid[j] => p.buff[j] = r.buff[j]
  BY <1>8, <1>9, RebasedKeeps
<1> HIDE DEF p
<1>11. /\ d.ackQ = p /\ d.rxQ = c.rxQ /\ d.staleQ = c.staleQ /\ d.seqAck = c.seqAck
       /\ d = [rxQ |-> d.rxQ, ackQ |-> d.ackQ, staleQ |-> d.staleQ, seqAck |-> d.seqAck]
  BY DEF RxSide, p
<1>12. ASSUME NEW x \in P PROVE x.type = "ACK" /\ Frame(x) = AckFrame(x)
  BY <1>12 DEF P, AckPackets, Frame
<1>13. ASSUME NEW j \in Slots, p.valid[j]
       PROVE  /\ q.valid[j] /\ p.buff[j] \in P /\ q.buff[j] \in P
              /\ AckFrame(p.buff[j]) = AckFrame(q.buff[j])
              /\ p.buff[j] \in Allowed(w)
  <2>1. q.valid[j] /\ p.buff[j] \in P /\ Same(q.buff[j], p.buff[j])
    BY <1>9, <1>10, <1>13
  <2>2. q.buff[j] \in P /\ q.buff[j] \in Allowed(w)
    BY <1>1, <2>1 DEF Holds
  <2>3. AckFrame(p.buff[j]) = AckFrame(q.buff[j])
    BY <1>12, <2>1, <2>2 DEF Same
  <2>4. p.buff[j].base = q.buff[j].base /\ p.buff[j].fields = q.buff[j].fields
    BY <2>3 DEF AckFrame
  <2>5. p.buff[j] \in Allowed(w)
    BY <2>1, <2>2, <2>4 DEF Allowed, EndsBefore, P
  <2> QED
    BY <2>1, <2>2, <2>3, <2>5
<1>14. RxSide(d)
  <2>1. Holds(Allowed(w), p)
    BY <1>13 DEF Holds
  <2> QED
    BY <1>10, <1>11, <2>1 DEF RxSide, P
<1>15. ASSUME NEW f \in run.sent
       PROVE  \E j \in Slots : q.valid[j] /\ f = AckFrame(q.buff[j])
  <2>1. PICK j \in Slots : q.valid[j] /\ f = Frame(q.buff[j])
    BY <1>7 DEF TxDone
  <2> QED
    BY <1>1, <1>12, <2>1 DEF Holds
<1>16. ASSUME NEW j \in Slots, q.valid[j], ~p.valid[j]
       PROVE  hw[j] = "full" \/ AckFrame(q.buff[j]) \in run.sent
  <2>1. hw[j] = "full" \/ Frame(q.buff[j]) \in run.sent
    BY <1>7, <1>8, <1>10, <1>16 DEF TxDone
  <2> QED
    BY <1>1, <1>12, <1>16, <2>1 DEF Holds
<1>17. AcksLeave(c.ackQ, d.ackQ, hw, run.sent)
  BY <1>11, <1>13, <1>16 DEF AcksLeave
<1> QED
  BY <1>11, <1>14, <1>15, <1>17
=============================================================================
