----------------------------- MODULE FlowProofs -----------------------------
(***************************************************************************)
(* The safety of one direction of a connection, for windows, packets of    *)
(* acknowledgements and stale lists of any size: from one invariant of the *)
(* two sides and the wire between them.                                    *)
(***************************************************************************)
EXTENDS FlowLemmas, FlowRefinesTransfer

DatFrames == [type : {"DAT"}, seq : Nat, noAck : BOOLEAN]

\* What is on the wire: packets that were sent, and acknowledgements of
\* packets the server has.
SentDats(sent) ==
  {f \in DatFrames : f.seq < sent /\ (f.noAck <=> f.seq \in NoAckSeqs)}

SentAcks(got) == {f \in AckFrames : NamesKnown => EndsBefore(f, got)}

OnWire(sent, got) == SentDats(sent) \cup SentAcks(got)

\* The server has no packet that was not sent.
OnlySent(q, sent) ==
  /\ q.wrSeq <= sent
  /\ \A j \in Slots : q.valid[j] => q.buff[j].seq < sent

\* The numbers of a transmit window that could be sent again and want an answer
Waiting(q) == {s \in q.rdSeq .. q.wrSeq - 1 : Valid(q, s)} \ NoAckSeqs

\* The client has what it may have to send again: all it sent but what wants
\* no answer and what the server has.
StillKept(q, got) ==
  \A s \in 0 .. q.wrSeq - 1 : s \in NoAckSeqs \/ s < got \/ s \in Waiting(q)

\* The first n numbers, in order
InOrderUpTo(l, n) ==
  l \in Seq(Nat) /\ Len(l) = n /\ \A k \in DOMAIN l : l[k] = k - 1

FlowInv ==
  /\ TxSide(snd) /\ RxSide(rcv)
  /\ OnlySent(rcv.rxQ, snd.seqSnd)
  /\ wire \subseteq OnWire(snd.seqSnd, rcv.rxQ.wrSeq)
  /\ NamesKnown => StillKept(snd.txQ, rcv.rxQ.wrSeq)
  /\ InOrderUpTo(delivered, rcv.rxQ.rdSeq)
  /\ call \in {"idle", "none", "some", "stopped"}
  /\ ended \in {"no", "exited", "crashed"}

\* The numbers the sides count with are numbers.
LEMMA SideNumbers ==
  ASSUME NEW c, TxSide(c), NEW d, RxSide(d)
  PROVE  /\ c.seqSnd \in Nat /\ c.txQ.rdSeq \in Nat /\ c.txQ.wrSeq = c.seqSnd
         /\ c.txQ.rdSeq <= c.seqSnd /\ c.seqSnd <= c.txQ.rdSeq + SlotCount
         /\ d.rxQ.rdSeq \in Nat /\ d.rxQ.wrSeq \in Nat /\ d.rxQ.rdSeq <= d.rxQ.wrSeq
         /\ d.rxQ.wrSeq <= d.rxQ.rdSeq + SlotCount /\ SlotCount \in Nat
<1>1. PICK q : q = c.txQ
  OBVIOUS
<1>2. PICK p : p = d.rxQ
  OBVIOUS
<1>3. /\ q.rdSeq \in Nat /\ q.wrSeq \in Nat /\ q.rdSeq <= q.wrSeq
      /\ q.wrSeq <= q.rdSeq + SlotCount /\ SlotCount \in Nat /\ c.seqSnd = q.wrSeq
  BY <1>1, Numbers DEF TxSide, Sound
<1>4. /\ p.rdSeq \in Nat /\ p.wrSeq \in Nat /\ p.rdSeq <= p.wrSeq
      /\ p.wrSeq <= p.rdSeq + SlotCount
  BY <1>2, Numbers DEF RxSide, Sound
<1> QED
  BY <1>1, <1>2, <1>3, <1>4

-----------------------------------------------------------------------------
(* The transmit window                                                     *)

\* The packet found at a number of the window has that number.
LEMMA TxNumberAt ==
  ASSUME NEW q, Sound({Zeroed} \cup DatPackets, q), NumberedTx(q),
         NEW s \in q.rdSeq .. q.rdSeq + SlotCount - 1, Valid(q, s)
  PROVE  /\ Packet(q, s) \in DatPackets /\ Packet(q, s).seq = s /\ s \in Nat
         /\ Packet(q, s).noAck <=> s \in NoAckSeqs
<1>1. /\ q.rdSeq \in Nat /\ q.wrSeq \in Nat /\ SlotCount \in Nat
      /\ q.wrSeq <= q.rdSeq + SlotCount
  BY Numbers DEF Sound
<1>2. s \in Nat /\ Idx(s) \in Slots
  BY <1>1, IdxType
<1> DEFINE t == q.buff[Idx(s)].seq
<1>3. /\ Packet(q, s) \in DatPackets /\ t \in q.rdSeq .. q.wrSeq - 1
      /\ Idx(t) = Idx(s) /\ (Packet(q, s).noAck <=> t \in NoAckSeqs)
  BY <1>2 DEF NumberedTx, Valid, Packet
<1> HIDE DEF t
<1>4. t \in Nat /\ s < t + SlotCount /\ t < s + SlotCount
  BY <1>1, <1>3
<1>5. s = t
  BY <1>2, <1>3, <1>4, IdxDistinct
<1> QED
  BY <1>2, <1>3, <1>5 DEF t, Packet

\* Nothing is found before the read cursor or from the write cursor on.
LEMMA WaitingFacts ==
  ASSUME NEW q, Sound({Zeroed} \cup DatPackets, q), NEW s
  PROVE  /\ s \in Waiting(q) <=>
              /\ s \in q.rdSeq .. q.wrSeq - 1 /\ Valid(q, s) /\ s \notin NoAckSeqs
         /\ s \in Waiting(q) =>
              s \in Nat /\ Idx(s) \in Slots /\ s \in q.rdSeq .. q.rdSeq + SlotCount - 1
<1>1. /\ q.rdSeq \in Nat /\ q.wrSeq \in Nat /\ SlotCount \in Nat
      /\ q.wrSeq <= q.rdSeq + SlotCount
  BY Numbers DEF Sound
<1>2. s \in Waiting(q) <=>
        s \in q.rdSeq .. q.wrSeq - 1 /\ Valid(q, s) /\ s \notin NoAckSeqs
  BY DEF Waiting
<1>3. s \in q.rdSeq .. q.wrSeq - 1 =>
        s \in Nat /\ s \in q.rdSeq .. q.rdSeq + SlotCount - 1
  BY <1>1
<1> QED
  BY <1>2, <1>3, IdxType

\* Of the packets of q0 that are not in q all have numbers in G.
LEMMA KeptWaiting ==
  ASSUME NEW q0, Sound({Zeroed} \cup DatPackets, q0), NumberedTx(q0),
         NEW q, Kept(DatPackets, q0, q), NEW G,
         \A j \in Slots : q0.valid[j] /\ ~q.valid[j] => q0.buff[j].seq \in G
  PROVE  /\ Waiting(q) \subseteq Waiting(q0) /\ Waiting(q0) \ Waiting(q) \subseteq G
         /\ q.wrSeq = q0.wrSeq
<1>1. /\ q0.rdSeq \in Nat /\ q0.wrSeq \in Nat /\ SlotCount \in Nat
      /\ q0.wrSeq <= q0.rdSeq + SlotCount
  BY Numbers DEF Sound
<1>2. Sound({Zeroed} \cup DatPackets, q) /\ Shrunk(q0, q)
  BY DEF Kept
<1>3. /\ q.wrSeq = q0.wrSeq /\ q.rdSeq \in q0.rdSeq .. q0.wrSeq
      /\ \A t \in q0.rdSeq .. q.rdSeq - 1 : ~Valid(q, t)
      /\ \A j \in Slots : q.valid[j] => q0.valid[j]
  BY <1>2 DEF Shrunk
<1>4. ASSUME NEW s \in Waiting(q) PROVE s \in Waiting(q0)
  <2>1. s \in q.rdSeq .. q.wrSeq - 1 /\ Valid(q, s) /\ s \notin NoAckSeqs /\ Idx(s) \in Slots
    BY <1>2, <1>4, WaitingFacts
  <2>2. s \in q0.rdSeq .. q0.wrSeq - 1
    BY <1>1, <1>3, <2>1
  <2> QED
    BY <1>3, <2>1, <2>2, WaitingFacts DEF Valid
<1>5. ASSUME NEW s \in Waiting(q0), s \notin Waiting(q) PROVE s \in G
  <2>1. /\ s \in q0.rdSeq .. q0.wrSeq - 1 /\ Valid(q0, s) /\ s \notin NoAckSeqs
        /\ s \in q0.rdSeq .. q0.rdSeq + SlotCount - 1 /\ Idx(s) \in Slots
    BY <1>5, WaitingFacts
  <2>2. ~Valid(q, s)
    <3>1. CASE s < q.rdSeq
      <4>1. s \in q0.rdSeq .. q.rdSeq - 1
        BY <1>1, <1>3, <2>1, <3>1
      <4> QED
        BY <1>3, <4>1
    <3>2. CASE ~(s < q.rdSeq)
      <4>1. s \in q.rdSeq .. q.wrSeq - 1
        BY <1>1, <1>3, <2>1, <3>2
      <4> QED
        BY <1>2, <1>5, <2>1, <4>1, WaitingFacts
    <3> QED
      BY <3>1, <3>2
  <2>3. Packet(q0, s).seq = s
    BY <2>1, TxNumberAt
  <2> QED
    BY <2>1, <2>2, <2>3 DEF Valid, Packet
<1> QED
  BY <1>3, <1>4, <1>5

\* More packets made: those that wait for an answer wait.
LEMMA MoreWaiting ==
  ASSUME NEW c0, TxSide(c0), NEW c, More(c0, c)
  PROVE  Waiting(c.txQ) =
           Waiting(c0.txQ) \cup ((c0.seqSnd .. c.seqSnd - 1) \ NoAckSeqs)
<1>1. PICK q0 : q0 = c0.txQ
  OBVIOUS
<1>2. PICK q : q = c.txQ
  OBVIOUS
<1>3. PICK m, n : m = c0.seqSnd /\ n = c.seqSnd
  OBVIOUS
<1>4. /\ Sound({Zeroed} \cup DatPackets, q0) /\ m = q0.wrSeq
      /\ Sound({Zeroed} \cup DatPackets, q) /\ n = q.wrSeq /\ NumberedTx(q)
      /\ q.rdSeq = q0.rdSeq /\ n >= m
      /\ \A j \in Slots : q0.valid[j] => q.valid[j]
      /\ \A s \in m .. n - 1 : Valid(q, s)
      /\ \A j \in Slots : q.valid[j] => q0.valid[j] \/ q.buff[j].seq >= m
  BY <1>1, <1>2, <1>3 DEF More, TxSide
<1>5. /\ m \in Nat /\ n \in Nat /\ q0.rdSeq \in Nat /\ q0.rdSeq <= m
      /\ n <= q0.rdSeq + SlotCount /\ SlotCount \in Nat
  BY <1>4, Numbers DEF Sound
<1>6. ASSUME NEW s \in Waiting(q)
      PROVE  s \in Waiting(q0) \/ s \in (m .. n - 1) \ NoAckSeqs
  <2>1. /\ s \in q.rdSeq .. q.wrSeq - 1 /\ Valid(q, s) /\ s \notin NoAckSeqs
        /\ Idx(s) \in Slots /\ s \in q.rdSeq .. q.rdSeq + SlotCount - 1
    BY <1>4, <1>6, WaitingFacts
  <2>2. Packet(q, s).seq = s
    BY <1>4, <2>1, TxNumberAt
  <2>3. Valid(q0, s) \/ s >= m
    BY <1>4, <2>1, <2>2 DEF Valid, Packet
  <2>4. s >= m => s \in m .. n - 1
    BY <1>4, <1>5, <2>1
  <2>5. ~(s >= m) => s \in q0.rdSeq .. q0.wrSeq - 1
    BY <1>4, <1>5, <2>1
  <2> QED
    BY <1>4, <2>1, <2>3, <2>4, <2>5, WaitingFacts
<1>7. ASSUME NEW s \in Waiting(q0) PROVE s \in Waiting(q)
  <2>1. /\ s \in q0.rdSeq .. q0.wrSeq - 1 /\ Valid(q0, s) /\ s \notin NoAckSeqs
        /\ Idx(s) \in Slots
    BY <1>4, <1>7, WaitingFacts
  <2>2. s \in q.rdSeq .. q.wrSeq - 1
    BY <1>4, <1>5, <2>1
  <2> QED
    BY <1>4, <2>1, <2>2, WaitingFacts DEF Valid
<1>8. ASSUME NEW s \in m .. n - 1, s \notin NoAckSeqs PROVE s \in Waiting(q)
  <2>1. s \in q.rdSeq .. q.wrSeq - 1
    BY <1>4, <1>5
  <2> QED
    BY <1>4, <1>8, <2>1, WaitingFacts
<1> QED
  BY <1>1, <1>2, <1>3, <1>6, <1>7, <1>8

-----------------------------------------------------------------------------
(* The client's steps                                                      *)

\* A packet of the window goes out under its number.
LEMMA SentIsNumbered ==
  ASSUME NEW c, TxSide(c), NEW j \in Slots, c.txQ.valid[j]
  PROVE  Frame(c.txQ.buff[j]) \in SentDats(c.seqSnd)
<1>1. PICK p : p = c.txQ.buff[j]
  OBVIOUS
<1>2. PICK n : n = c.seqSnd
  OBVIOUS
<1>3. /\ p \in DatPackets /\ p.seq \in c.txQ.rdSeq .. n - 1
      /\ (p.noAck <=> p.seq \in NoAckSeqs)
  BY <1>1, <1>2 DEF TxSide, NumberedTx
<1>4. n \in Nat /\ c.txQ.rdSeq \in Nat
  BY <1>2, Numbers DEF TxSide, Sound
<1>5. Frame(p) = [type |-> "DAT", seq |-> p.seq, noAck |-> p.noAck]
      /\ p.seq \in Nat /\ p.noAck \in BOOLEAN
  BY <1>3 DEF DatPackets, Frame, DatFrame
<1>6. p.seq < n
  BY <1>3, <1>4
<1> QED
  BY <1>1, <1>2, <1>3, <1>5, <1>6 DEF SentDats, DatFrames

\* What etcpSend does once its packets are made: nothing that waits for an
\* answer is let go of, and what goes out are packets of the window.
SendsOn(c, d, w, v) ==
  /\ TxSide(d) /\ d.seqSnd = c.seqSnd
  /\ Waiting(d.txQ) = Waiting(c.txQ)
  /\ v \subseteq w \cup SentDats(c.seqSnd)

LEMMA TransmitSends ==
  ASSUME NEW c, TxSide(c), NEW late, NEW hw \in ClientHw(c.txQ), Transmit(c, late, hw)
  PROVE  SendsOn(c, snd', wire, wire') /\ ended' \in {ended, "exited"}
<1>1. PICK q : q = c.txQ
  OBVIOUS
<1>2. PICK q1 : q1 = TcData(q, late)
  OBVIOUS
<1>3. PICK m : m = TcMaxDat(q)
  OBVIOUS
<1>4. PICK run : run = doEtcpNetTx(q1, m, hw)
  OBVIOUS
<1>5. \/ snd' = c /\ wire' = wire /\ ended' = "exited"
      \/ /\ snd' = [c EXCEPT !.txQ = run.q] /\ wire' = wire \cup run.sent
         /\ ended' = ended
  BY <1>1, <1>2, <1>3, <1>4 DEF Transmit
<1>6. CASE snd' = c /\ wire' = wire /\ ended' = "exited"
  BY <1>6 DEF SendsOn
<1>7. CASE /\ snd' = [c EXCEPT !.txQ = run.q] /\ wire' = wire \cup run.sent
           /\ ended' = ended
  <2> DEFINE P == DatPackets
  <2>1. /\ Sound({Zeroed} \cup P, q) /\ TailFree(q) /\ NumberedTx(q)
        /\ Holds(P, q) /\ PacketSet(P)
    BY <1>1 DEF TxSide, NumberedTx, Holds, PacketSet
  <2>2. Answers(q, hw)
    <3>1. ClientHwResults \subseteq {"sent", "full", "error"}
      BY FlowAssumption
    <3>2. \A j \in {i \in Slots : q.valid[i]} : hw[j] \in ClientHwResults
      BY <1>1 DEF ClientHw
    <3> QED
      BY <3>1, <3>2 DEF Answers
  <2> HIDE DEF P
  <2>3. Kept(P, q, q1) /\ SameWindow(q, q1)
    BY <1>2, <2>1, TcKeeps
  <2>4. TxDone(P, q, hw, run)
    BY <1>4, <2>1, <2>2, <2>3, TransmitKeeps
  <2>5. PICK r : r = run.q
    OBVIOUS
  <2>6. /\ Kept(P, q, r)
        /\ \A f \in run.sent : \E j \in Slots : q.valid[j] /\ f = Frame(q.buff[j])
        /\ \A j \in Slots : q.valid[j] /\ ~r.valid[j] => LetGo(q.buff[j])
    BY <2>4, <2>5 DEF TxDone
  <2>7. \A j \in Slots : q.valid[j] /\ ~r.valid[j] => q.buff[j].seq \in NoAckSeqs
    BY <2>1, <2>6 DEF LetGo, NumberedTx, DatPackets
  <2>8. /\ Waiting(r) \subseteq Waiting(q) /\ Waiting(q) \ Waiting(r) \subseteq NoAckSeqs
        /\ r.wrSeq = q.wrSeq
    BY <2>1, <2>6, <2>7, KeptWaiting DEF P
  <2>9. Waiting(r) = Waiting(q)
    BY <2>8 DEF Waiting
  <2>10. NumberedTx(r) /\ TailFree(r) /\ Sound({Zeroed} \cup DatPackets, r)
    BY <2>1, <2>6, NumberedKept DEF P, Kept, Shrunk
  <2>11. /\ snd'.txQ = r /\ snd'.rxQ = c.rxQ /\ snd'.seqSnd = c.seqSnd
         /\ snd' = [txQ |-> snd'.txQ, rxQ |-> snd'.rxQ, seqSnd |-> snd'.seqSnd]
    BY <1>7, <2>5 DEF TxSide
  <2>12. TxSide(snd')
    BY <1>1, <2>8, <2>10, <2>11 DEF TxSide
  <2>13. run.sent \subseteq SentDats(c.seqSnd)
    BY <1>1, <2>6, SentIsNumbered
  <2> QED
    BY <1>1, <1>7, <2>9, <2>11, <2>12, <2>13 DEF SendsOn
<1> QED
  BY <1>5, <1>6, <1>7

\* What the client's sending changes of the whole
ClientSends ==
  /\ TxSide(snd') /\ snd'.seqSnd >= snd.seqSnd
  /\ Waiting(snd'.txQ) =
       Waiting(snd.txQ) \cup ((snd.seqSnd .. snd'.seqSnd - 1) \ NoAckSeqs)
  /\ wire' \subseteq wire \cup SentDats(snd'.seqSnd)
  /\ ended' \in {ended, "exited"}
  /\ UNCHANGED <<rcv, call, delivered>>

LEMMA SendIsClientSends == ASSUME TxSide(snd), CSend PROVE ClientSends
<1>1. PICK n \in 1 .. Burst : \E late \in SUBSET Late(snd.txQ),
        hw \in ClientHw(doEtcpUserTx(snd, n).txQ) : Transmit(doEtcpUserTx(snd, n), late, hw)
  BY DEF CSend
<1>2. PICK c : c = doEtcpUserTx(snd, n)
  OBVIOUS
<1>3. n \in Nat
  BY <1>1, FlowAssumption
<1>4. More(snd, c)
  BY <1>2, <1>3, UserTxKeeps
<1>5. PICK late \in SUBSET Late(snd.txQ), hw \in ClientHw(c.txQ) : Transmit(c, late, hw)
  BY <1>1, <1>2
<1>6. TxSide(c)
  BY <1>4 DEF More
<1>7. SendsOn(c, snd', wire, wire') /\ ended' \in {ended, "exited"}
  BY <1>5, <1>6, TransmitSends
<1>8. Waiting(c.txQ) = Waiting(snd.txQ) \cup ((snd.seqSnd .. c.seqSnd - 1) \ NoAckSeqs)
  BY <1>4, MoreWaiting
<1>9. UNCHANGED <<rcv, call, delivered>>
  BY DEF CSend
<1> QED
  BY <1>4, <1>7, <1>8, <1>9 DEF SendsOn, More, ClientSends

LEMMA PumpIsClientSends == ASSUME TxSide(snd), CPumpSome PROVE ClientSends
<1>1. PICK late \in SUBSET Late(snd.txQ), hw \in ClientHw(snd.txQ) : Transmit(snd, late, hw)
  BY DEF CPumpSome, CPump
<1>2. SendsOn(snd, snd', wire, wire') /\ ended' \in {ended, "exited"}
  BY <1>1, TransmitSends
<1>3. UNCHANGED <<rcv, call, delivered>>
  BY DEF CPumpSome, CPump
<1>4. snd.seqSnd \in Nat
  BY Numbers DEF TxSide, Sound
<1>5. (snd.seqSnd .. snd'.seqSnd - 1) = {}
  BY <1>2, <1>4 DEF SendsOn
<1> QED
  BY <1>2, <1>3, <1>4, <1>5 DEF SendsOn, ClientSends

\* An acknowledgement that ends before w names numbers below w.
LEMMA NamedBelow ==
  ASSUME NEW f \in AckFrames, NEW w \in Nat, EndsBefore(f, w), NEW s \in Named(f)
  PROVE  s \in Int /\ s < w
<1>1. PICK k \in DOMAIN f.fields :
        s \in {f.base + f.fields[k].offset + j : j \in 0 .. f.fields[k].count - 1}
  BY DEF Named
<1>2. PICK j \in 0 .. f.fields[k].count - 1 : s = f.base + f.fields[k].offset + j
  BY <1>1
<1>3. f.base \in Nat /\ f.fields[k] \in AckFields
  BY <1>1 DEF AckFrames
<1>4. PICK o, n : o = f.fields[k].offset /\ n = f.fields[k].count
  OBVIOUS
<1>5. o \in Int /\ n \in Nat
  BY <1>3, <1>4 DEF AckFields
<1>6. n = 0 \/ f.base + o + n <= w
  BY <1>1, <1>4 DEF EndsBefore
<1> QED
  BY <1>2, <1>3, <1>4, <1>5, <1>6

\* The receive queue of the client only ever fills.
LEMMA KeepSackKeeps ==
  ASSUME NEW q, Sound({Zeroed} \cup {"SACK"}, q), NEW p, p = KeepSack(q)
  PROVE  Sound({Zeroed} \cup {"SACK"}, p)
<1> DEFINE C == {Zeroed} \cup {"SACK"}
<1>1. "SACK" \in C
  OBVIOUS
<1>2. Sound(C, q)
  OBVIOUS
<1> HIDE DEF C
<1>3. CASE cqGetNextWrErr(q) = "cqENOERR"
  <2>1. InRange(q, q.wrSeq) /\ ~Valid(q, q.wrSeq) /\ q.wrSeq \in Nat
    BY <1>2, <1>3, NextWr, Numbers DEF Sound
  <2>2. p = Commit(q, q.wrSeq, "SACK")
    BY <1>3 DEF KeepSack
  <2>3. Sound(C, p)
    BY <1>1, <1>2, <2>1, <2>2, CommitStores
  <2> QED
    BY <2>3 DEF C
<1>4. CASE cqGetNextWrErr(q) # "cqENOERR"
  BY <1>4 DEF KeepSack
<1> QED
  BY <1>3, <1>4

\* What taking in an acknowledgement changes of the client
Hears(c, f, d) ==
  /\ TxSide(d) /\ d.seqSnd = c.seqSnd
  /\ Waiting(d.txQ) \subseteq Waiting(c.txQ)
  /\ Waiting(c.txQ) \ Waiting(d.txQ) \subseteq Named(f)

LEMMA RxAckHears ==
  ASSUME NEW c, TxSide(c), NEW f \in AckFrames, NEW d, d = etcpOnRxAck(c, f)
  PROVE  Hears(c, f, d)
<1>1. CASE ~AckHeaderSized \/ f.sackCount # Len(f.fields)
  BY <1>1 DEF etcpOnRxAck, Hears
<1>2. CASE ~(~AckHeaderSized \/ f.sackCount # Len(f.fields))
  <2>1. PICK q : q = c.txQ
    OBVIOUS
  <2>2. PICK p : p = FieldLoop!After(f, q, [k \in 1 .. f.sackCount |-> k])
    OBVIOUS
  <2>3. PICK r : r = KeepSack(c.rxQ)
    OBVIOUS
  <2>4. /\ d.txQ = p /\ d.rxQ = r /\ d.seqSnd = c.seqSnd
        /\ d = [txQ |-> d.txQ, rxQ |-> d.rxQ, seqSnd |-> d.seqSnd]
    BY <1>2, <2>1, <2>2, <2>3 DEF etcpOnRxAck, TxSide
  <2>5. /\ Sound({Zeroed} \cup DatPackets, q) /\ TailFree(q) /\ NumberedTx(q)
        /\ Holds(DatPackets, q) /\ c.seqSnd = q.wrSeq
        /\ Sound({Zeroed} \cup {"SACK"}, c.rxQ)
    BY <2>1 DEF TxSide, NumberedTx, Holds
  <2>6. Sound({Zeroed} \cup {"SACK"}, r)
    BY <2>3, <2>5, KeepSackKeeps
  <2>7. f.sackCount = Len(f.fields)
    BY <1>2
  <2>8. Acknowledged(q, p, Named(f))
    BY <2>2, <2>5, <2>7, AckKeeps
  <2>9. /\ Kept(DatPackets, q, p)
        /\ \A j \in Slots : q.valid[j] /\ ~p.valid[j] => q.buff[j].seq \in Named(f)
    BY <2>8 DEF Acknowledged
  <2>10. /\ Waiting(p) \subseteq Waiting(q) /\ Waiting(q) \ Waiting(p) \subseteq Named(f)
         /\ p.wrSeq = q.wrSeq
    BY <2>5, <2>9, KeptWaiting
  <2>11. NumberedTx(p) /\ TailFree(p) /\ Sound({Zeroed} \cup DatPackets, p)
    BY <2>5, <2>9, NumberedKept DEF Kept, Shrunk
  <2> QED
    BY <2>1, <2>4, <2>5, <2>6, <2>10, <2>11 DEF Hears, TxSide
<1> QED
  BY <1>1, <1>2

\* What the client's taking in an acknowledgement changes of the whole
ClientHears ==
  /\ TxSide(snd') /\ snd'.seqSnd = snd.seqSnd
  /\ Waiting(snd'.txQ) \subseteq Waiting(snd.txQ)
  /\ NamesKnown => \A s \in Waiting(snd.txQ) \ Waiting(snd'.txQ) : s < rcv.rxQ.wrSeq
  /\ wire' \subseteq wire
  /\ UNCHANGED <<rcv, call, delivered, ended>>

LEMMA FrameTypes ==
  ASSUME NEW sent, NEW got, NEW f \in OnWire(sent, got)
  PROVE  /\ f.type = "ACK" => f \in SentAcks(got)
         /\ f.type = "DAT" => f \in SentDats(sent)
  BY DEF OnWire, SentDats, SentAcks, DatFrames, AckFrames

LEMMA RxAckIsClientHears == ASSUME FlowInv, CRxAck PROVE ClientHears
<1>1. PICK f \in Acks : /\ snd' = etcpOnRxAck(snd, f) /\ Consume(f)
                        /\ UNCHANGED <<rcv, call, delivered, ended>>
  BY DEF CRxAck
<1>2. f \in SentAcks(rcv.rxQ.wrSeq)
  BY FrameTypes DEF Acks, FlowInv
<1>3. f \in AckFrames /\ (NamesKnown => EndsBefore(f, rcv.rxQ.wrSeq))
  BY <1>2 DEF SentAcks
<1>4. Hears(snd, f, snd')
  BY <1>1, <1>3, RxAckHears DEF FlowInv
<1>5. wire' \subseteq wire
  BY <1>1 DEF Consume
<1>6. rcv.rxQ.wrSeq \in Nat
  BY SideNumbers DEF FlowInv
<1>7. NamesKnown => \A s \in Named(f) : s < rcv.rxQ.wrSeq
  BY <1>3, <1>6, NamedBelow
<1> QED
  BY <1>1, <1>4, <1>5, <1>7 DEF Hears, ClientHears

-----------------------------------------------------------------------------
(* The server's steps                                                      *)

\* A window whose packets were all sent reaches no further than what was sent.
LEMMA WindowOnlySent ==
  ASSUME NEW c, RxSide(c), NEW d, RxSide(d), NEW n \in Nat, OnlySent(c.rxQ, n),
         d.rxQ.rdSeq = c.rxQ.rdSeq \/ d.rxQ.wrSeq <= n,
         \A j \in Slots : d.rxQ.valid[j] => d.rxQ.buff[j].seq < n
  PROVE  OnlySent(d.rxQ, n)
<1>1. PICK q : q = d.rxQ
  OBVIOUS
<1>2. /\ Sound({Zeroed} \cup RxPackets, q) /\ NoHoles(q) /\ NumberedRx(q)
      /\ c.rxQ.rdSeq \in Nat /\ c.rxQ.wrSeq \in Nat /\ c.rxQ.rdSeq <= c.rxQ.wrSeq
  BY <1>1, Numbers DEF RxSide, Sound
<1>3. q.rdSeq \in Nat /\ q.wrSeq \in Nat /\ q.rdSeq <= q.wrSeq
      /\ q.wrSeq <= q.rdSeq + SlotCount /\ SlotCount \in Nat
  BY <1>2, Numbers DEF Sound
<1>4. q.wrSeq <= n
  <2>1. CASE q.rdSeq = q.wrSeq /\ q.rdSeq = c.rxQ.rdSeq
    <3>1. c.rxQ.wrSeq <= n
      BY DEF OnlySent
    <3> QED
      BY <1>2, <1>3, <2>1, <3>1
  <2>2. CASE q.rdSeq < q.wrSeq
    <3> DEFINE s == q.wrSeq - 1
    <3>1. s \in q.rdSeq .. q.wrSeq - 1 /\ s \in q.rdSeq .. q.rdSeq + SlotCount - 1
      BY <1>3, <2>2
    <3>2. Valid(q, s)
      BY <1>2, <3>1 DEF NoHoles
    <3> HIDE DEF s
    <3>3. At(q, s).seq = s /\ s \in Nat
      BY <1>2, <3>1, <3>2, NumberAt
    <3>4. s < n
      BY <1>1, <3>2, <3>3, IdxType DEF Valid, At
    <3> QED
      BY <1>3, <3>4 DEF s
  <2> QED
    BY <1>1, <1>3, <2>1, <2>2
<1> QED
  BY <1>1, <1>4 DEF OnlySent

\* What the server's taking in a packet changes of the whole
ServerTakes ==
  /\ RxSide(rcv') /\ OnlySent(rcv'.rxQ, snd.seqSnd)
  /\ rcv'.rxQ.rdSeq = rcv.rxQ.rdSeq /\ rcv.rxQ.wrSeq <= rcv'.rxQ.wrSeq
  /\ wire' \subseteq wire
  /\ ended' \in {ended, "crashed"}
  /\ UNCHANGED <<snd, delivered>>

LEMMA RxIsServerTakes ==
  ASSUME FlowInv, NEW f \in Dats, ServerRx(f)
  PROVE  ServerTakes
<1>1. f \in SentDats(snd.seqSnd)
  BY FrameTypes DEF Dats, FlowInv
<1>2. f.seq \in Nat /\ f.noAck \in BOOLEAN /\ f.seq < snd.seqSnd
  BY <1>1 DEF SentDats, DatFrames
<1>3. /\ BelowWindow(rcv, f) => f.noAck \/ Len(rcv.staleQ) < MaxStale
      /\ wire' \subseteq wire /\ ended' \in {ended, "crashed"} /\ UNCHANGED <<snd, delivered>>
  BY DEF ServerRx, Consume
<1>4. RxSide(rcv) /\ OnlySent(rcv.rxQ, snd.seqSnd) /\ snd.seqSnd \in Nat
  BY SideNumbers DEF FlowInv
<1>5. CASE rcv' = rcv
  <2>1. rcv.rxQ.rdSeq \in Nat /\ rcv.rxQ.wrSeq \in Nat
    BY SideNumbers DEF FlowInv
  <2> QED
    BY <1>3, <1>4, <1>5, <2>1 DEF ServerTakes
<1>6. CASE rcv' = etcpOnRxDat(rcv, f)
  <2>1. Received(rcv, f, rcv')
    BY <1>2, <1>3, <1>4, <1>6, RxDatKeeps
  <2>2. /\ RxSide(rcv') /\ rcv'.rxQ.rdSeq = rcv.rxQ.rdSeq /\ rcv.rxQ.wrSeq <= rcv'.rxQ.wrSeq
        /\ \A j \in Slots : rcv'.rxQ.valid[j] =>
             \/ rcv.rxQ.valid[j] /\ rcv'.rxQ.buff[j] = rcv.rxQ.buff[j]
             \/ rcv'.rxQ.buff[j].seq = f.seq
    BY <2>1 DEF Received
  <2>3. \A j \in Slots : rcv'.rxQ.valid[j] => rcv'.rxQ.buff[j].seq < snd.seqSnd
    BY <1>2, <1>4, <2>2 DEF OnlySent
  <2>4. OnlySent(rcv'.rxQ, snd.seqSnd)
    BY <1>4, <2>2, <2>3, WindowOnlySent
  <2> QED
    BY <1>3, <2>2, <2>4 DEF ServerTakes
<1> QED
  BY <1>5, <1>6 DEF ServerRx

\* What the end of etcpRecv changes of the whole: perhaps the next message is
\* handed over.
ServerHands ==
  /\ RxSide(rcv') /\ OnlySent(rcv'.rxQ, snd.seqSnd)
  /\ rcv'.rxQ.wrSeq = rcv.rxQ.wrSeq
  /\ \/ rcv'.rxQ.rdSeq = rcv.rxQ.rdSeq /\ delivered' = delivered
     \/ /\ rcv'.rxQ.rdSeq = rcv.rxQ.rdSeq + 1
        /\ delivered' = Append(delivered, rcv.rxQ.rdSeq)
  /\ UNCHANGED <<snd, wire, ended>>

\* q has the acknowledgements of q0, where they were.
StillQueued(q0, q) ==
  \A j \in Slots : q0.valid[j] => q.valid[j] /\ q.buff[j] = q0.buff[j]

\* Acknowledgements made for what is in the window and in the stale list
LEMMA GenerateKeeps ==
  ASSUME NEW c, RxSide(c), NEW junk \in JunkFields,
         NEW d, d = generateStaleAcks(generateAcks(c, junk), junk)
  PROVE  /\ RxSide(d) /\ SameWindow(c.rxQ, d.rxQ) /\ SameSeqs(c.rxQ, d.rxQ)
         /\ StillQueued(c.ackQ, d.ackQ)
<1>1. PICK b : b = generateAcks(c, junk)
  OBVIOUS
<1>2. AcksMade(c, b)
  BY <1>1, AcksKeep
<1>3. /\ RxSide(b) /\ SameWindow(c.rxQ, b.rxQ) /\ SameSeqs(c.rxQ, b.rxQ)
      /\ StillQueued(c.ackQ, b.ackQ)
  BY <1>2, AcksMadeRxSide DEF Grown, StillQueued
<1>4. StaleConn(b, d)
  BY <1>1, <1>3, StaleKeeps
<1>5. RxSide(d) /\ d.rxQ = b.rxQ
  BY <1>3, <1>4, StaleRxSide
<1>6. StillQueued(b.ackQ, d.ackQ)
  BY <1>4 DEF StaleConn, Grown, StillQueued
<1>7. StillQueued(c.ackQ, d.ackQ)
  BY <1>3, <1>6 DEF StillQueued
<1> QED
  BY <1>3, <1>5, <1>7

LEMMA RecvEndIsServerHands == ASSUME FlowInv, SRecvEnd PROVE ServerHands
<1>1. PICK junk \in JunkFields :
        UserRx(generateStaleAcks(generateAcks(rcv, junk), junk))
  BY DEF SRecvEnd
<1>2. PICK c : c = generateStaleAcks(generateAcks(rcv, junk), junk)
  OBVIOUS
<1>3. RxSide(rcv) /\ OnlySent(rcv.rxQ, snd.seqSnd) /\ snd.seqSnd \in Nat
  BY SideNumbers DEF FlowInv
<1>4. RxSide(c) /\ SameWindow(rcv.rxQ, c.rxQ) /\ SameSeqs(rcv.rxQ, c.rxQ)
  BY <1>2, <1>3, GenerateKeeps
<1>5. /\ c.rxQ.rdSeq = rcv.rxQ.rdSeq /\ c.rxQ.wrSeq = rcv.rxQ.wrSeq
      /\ \A j \in Slots : c.rxQ.valid[j] => c.rxQ.buff[j].seq < snd.seqSnd
  BY <1>3, <1>4 DEF SameWindow, SameSeqs, OnlySent
<1>6. OnlySent(c.rxQ, snd.seqSnd)
  BY <1>3, <1>4, <1>5, WindowOnlySent
<1>7. UNCHANGED <<snd, wire, ended>>
  BY DEF SRecvEnd
<1>8. CASE CanDeliver(c)
  <2>1. /\ rcv' = [c EXCEPT !.rxQ = cqReleaseSlot(@, @.rdSeq)]
        /\ delivered' = Append(delivered, At(c.rxQ, c.rxQ.rdSeq).seq)
    BY <1>1, <1>2, <1>8 DEF UserRx
  <2>2. Delivered(c, rcv')
    BY <1>4, <1>8, <2>1, DeliverKeeps
  <2>3. /\ RxSide(rcv')
        /\ rcv'.rxQ.rdSeq = c.rxQ.rdSeq + 1 /\ rcv'.rxQ.wrSeq = c.rxQ.wrSeq
        /\ \A j \in Slots : rcv'.rxQ.valid[j] =>
             c.rxQ.valid[j] /\ rcv'.rxQ.buff[j] = c.rxQ.buff[j]
        /\ At(c.rxQ, c.rxQ.rdSeq).seq = c.rxQ.rdSeq
    BY <2>2 DEF Delivered
  <2>4. OnlySent(rcv'.rxQ, snd.seqSnd)
    BY <1>6, <2>3 DEF OnlySent
  <2> QED
    BY <1>5, <1>7, <2>1, <2>3, <2>4 DEF ServerHands
<1>9. CASE ~CanDeliver(c)
  <2>1. rcv' = c /\ delivered' = delivered
    BY <1>1, <1>2, <1>9 DEF UserRx
  <2> QED
    BY <1>4, <1>5, <1>6, <1>7, <2>1 DEF ServerHands
<1> QED
  BY <1>8, <1>9

\* What sending acknowledgements changes of the whole
ServerAcks ==
  /\ RxSide(rcv') /\ rcv'.rxQ = rcv.rxQ
  /\ wire' \subseteq wire \cup SentAcks(rcv.rxQ.wrSeq)
  /\ UNCHANGED <<snd, call, delivered, ended>>

\* A queued acknowledgement as it goes out
LEMMA AckOnWire ==
  ASSUME NEW w, NEW p \in Allowed(w)
  PROVE  AckFrame(p) \in SentAcks(w)
<1>1. p \in AckPackets /\ (NamesKnown => EndsBefore(p, w))
  BY DEF Allowed
<1>2. PICK f : f = AckFrame(p)
  OBVIOUS
<1>3. /\ f = [type |-> "ACK", base |-> p.base, sackCount |-> p.sackCount, fields |-> p.fields]
      /\ p.base \in Nat /\ p.sackCount \in Nat /\ p.fields \in Seq(AckFields)
  BY <1>1, <1>2 DEF AckFrame, AckPackets
<1>4. f \in AckFrames
  BY <1>3 DEF AckFrames
<1>5. f.base = p.base /\ f.fields = p.fields
  BY <1>3
<1>6. NamesKnown => EndsBefore(f, w)
  BY <1>1, <1>5 DEF EndsBefore
<1> QED
  BY <1>2, <1>4, <1>6 DEF SentAcks

LEMMA SendIsServerAcks == ASSUME FlowInv, SSend PROVE ServerAcks
<1>1. PICK hw \in ServerHw(rcv.ackQ) :
        LET run == doEtcpNetTx(TcAcks(rcv.ackQ), TcMaxAck(rcv.ackQ), hw)
        IN rcv' = [rcv EXCEPT !.ackQ = Rebased(run.q)] /\ wire' = wire \cup run.sent
  BY DEF SSend
<1>2. PICK run : run = doEtcpNetTx(TcAcks(rcv.ackQ), TcMaxAck(rcv.ackQ), hw)
  OBVIOUS
<1>3. rcv' = [rcv EXCEPT !.ackQ = Rebased(run.q)] /\ wire' = wire \cup run.sent
  BY <1>1, <1>2
<1>4. RxSide(rcv)
  BY DEF FlowInv
<1>5. /\ RxSide(rcv') /\ rcv'.rxQ = rcv.rxQ
      /\ \A f \in run.sent : \E j \in Slots :
           rcv.ackQ.valid[j] /\ f = AckFrame(rcv.ackQ.buff[j])
  BY <1>2, <1>3, <1>4, AcksSentKeep
<1>6. \A j \in Slots : rcv.ackQ.valid[j] => rcv.ackQ.buff[j] \in Allowed(rcv.rxQ.wrSeq)
  BY <1>4 DEF RxSide, Holds
<1>7. run.sent \subseteq SentAcks(rcv.rxQ.wrSeq)
  BY <1>5, <1>6, AckOnWire
<1>8. UNCHANGED <<snd, call, delivered, ended>>
  BY DEF SSend
<1> QED
  BY <1>3, <1>5, <1>7, <1>8 DEF ServerAcks

-----------------------------------------------------------------------------
(* The invariant                                                           *)

LEMMA FreshSides ==
  ASSUME Init
  PROVE  TxSide(snd) /\ RxSide(rcv) /\ OnlySent(rcv.rxQ, snd.seqSnd)
         /\ snd.seqSnd = 0 /\ rcv.rxQ.rdSeq = 0 /\ snd.txQ.wrSeq = 0
<1>1. PICK q : q = cqNew
  OBVIOUS
<1>2. ASSUME NEW P
      PROVE  /\ Sound({Zeroed} \cup P, q) /\ TailFree(q) /\ NoHoles(q)
             /\ q.rdSeq = 0 /\ q.wrSeq = 0 /\ \A j \in Slots : ~q.valid[j]
  <2> DEFINE C == {Zeroed} \cup P
  <2>1. Zeroed \in C
    OBVIOUS
  <2> HIDE DEF C
  <2>2. /\ Sound(C, q) /\ TailFree(q) /\ NoHoles(q)
        /\ q.rdSeq = 0 /\ q.wrSeq = 0 /\ \A j \in Slots : ~q.valid[j]
    BY <1>1, <2>1, NewIsSound
  <2> QED
    BY <2>2 DEF C
<1>3. /\ snd = [txQ |-> q, rxQ |-> q, seqSnd |-> 0]
      /\ rcv = [rxQ |-> q, ackQ |-> q, staleQ |-> <<>>, seqAck |-> 0]
  BY <1>1 DEF Init
<1>4. /\ q.rdSeq = 0 /\ q.wrSeq = 0 /\ TailFree(q) /\ NoHoles(q)
      /\ \A j \in Slots : ~q.valid[j]
  BY <1>2
<1>5. /\ Sound({Zeroed} \cup DatPackets, q) /\ Sound({Zeroed} \cup {"SACK"}, q)
      /\ Sound({Zeroed} \cup RxPackets, q) /\ Sound({Zeroed} \cup AckPackets, q)
  BY <1>2
<1>6. NumberedTx(q) /\ NumberedRx(q) /\ Holds(Allowed(q.wrSeq), q)
  BY <1>4 DEF NumberedTx, NumberedRx, Holds
<1>7. TxSide(snd) /\ snd.seqSnd = 0 /\ snd.txQ.wrSeq = 0
  <2>1. /\ snd.txQ = q /\ snd.rxQ = q /\ snd.seqSnd = 0
        /\ snd = [txQ |-> snd.txQ, rxQ |-> snd.rxQ, seqSnd |-> snd.seqSnd]
    BY <1>3
  <2> QED
    BY <1>4, <1>5, <1>6, <2>1 DEF TxSide
<1>8. AckedBelow(q, 0) /\ 0 \in q.rdSeq .. q.wrSeq
  <2>1. ASSUME NEW s \in 0 .. 0 + SlotCount - 1 PROVE ~Valid(q, s)
    <3>1. s \in Nat
      BY SlotCountAssumption
    <3> QED
      BY <1>4, <3>1, IdxType DEF Valid
  <2>2. 0 \in q.rdSeq .. q.wrSeq
    BY <1>4
  <2>3. \A s \in q.rdSeq .. 0 - 1 : FALSE
    BY <1>4
  <2> QED
    BY <1>4, <2>1, <2>2, <2>3 DEF AckedBelow
<1>9. StaleBelow(<<>>, q.rdSeq) /\ Len(<<>>) <= MaxStale
  BY FlowAssumption DEF StaleBelow
<1>10. RxSide(rcv) /\ rcv.rxQ = q
  <2>1. /\ rcv.rxQ = q /\ rcv.ackQ = q /\ rcv.staleQ = <<>> /\ rcv.seqAck = 0
        /\ rcv = [rxQ |-> rcv.rxQ, ackQ |-> rcv.ackQ, staleQ |-> rcv.staleQ,
                  seqAck |-> rcv.seqAck]
    BY <1>3
  <2>2. 0 \in Nat /\ 0 <= 0
    OBVIOUS
  <2>3. \E b \in q.rdSeq .. q.wrSeq : AckedBelow(q, b) /\ 0 <= b
    BY <1>8, <2>2
  <2> QED
    BY <1>4, <1>5, <1>6, <1>9, <2>1, <2>2, <2>3 DEF RxSide
<1> QED
  BY <1>4, <1>7, <1>10 DEF OnlySent

LEMMA InitFlowInv == Init => FlowInv
<1> SUFFICES ASSUME Init PROVE FlowInv
  OBVIOUS
<1>1. snd.txQ.wrSeq = 0 /\ rcv.rxQ.rdSeq = 0
  BY FreshSides
<1>2. StillKept(snd.txQ, rcv.rxQ.wrSeq)
  BY <1>1 DEF StillKept
<1>3. delivered = <<>> /\ wire = {} /\ call = "idle" /\ ended = "no"
  BY DEF Init
<1>4. InOrderUpTo(delivered, rcv.rxQ.rdSeq)
  BY <1>1, <1>3 DEF InOrderUpTo
<1> QED
  BY <1>2, <1>3, <1>4, FreshSides DEF FlowInv

\* What was on the wire may be there when more was sent and more was received.
LEMMA WireGrows ==
  ASSUME NEW m \in Nat, NEW n \in Nat, m <= n, NEW v \in Nat, NEW w \in Nat, v <= w
  PROVE  OnWire(m, v) \subseteq OnWire(n, w)
<1>1. SentDats(m) \subseteq SentDats(n)
  BY DEF SentDats, DatFrames
<1>2. SentAcks(v) \subseteq SentAcks(w)
  <2> SUFFICES ASSUME NEW f \in AckFrames, EndsBefore(f, v) PROVE EndsBefore(f, w)
    BY DEF SentAcks
  <2> SUFFICES ASSUME NEW k \in DOMAIN f.fields, f.fields[k].count # 0
               PROVE  f.base + f.fields[k].offset + f.fields[k].count <= w
    BY DEF EndsBefore
  <2>1. f.base \in Nat /\ f.fields[k] \in AckFields
    BY DEF AckFrames
  <2>2. PICK o, c : o = f.fields[k].offset /\ c = f.fields[k].count
    OBVIOUS
  <2>3. o \in Int /\ c \in Nat /\ f.base + o + c <= v
    BY <2>1, <2>2 DEF AckFields, EndsBefore
  <2> QED
    BY <2>1, <2>2, <2>3
<1> QED
  BY <1>1, <1>2 DEF OnWire

\* What the client kept it keeps, but for what it may forget.
LEMMA StillKeptOn ==
  ASSUME NEW q, NEW got \in Nat, StillKept(q, got), NEW p, NEW w \in Nat, got <= w,
         q.wrSeq \in Nat, p.wrSeq \in Nat,
         \A s \in Waiting(q) : s < w \/ s \in Waiting(p),
         \A s \in q.wrSeq .. p.wrSeq - 1 : s \in NoAckSeqs \/ s \in Waiting(p)
  PROVE  StillKept(p, w)
<1> SUFFICES ASSUME NEW s \in 0 .. p.wrSeq - 1
             PROVE  s \in NoAckSeqs \/ s < w \/ s \in Waiting(p)
  BY DEF StillKept
<1>1. CASE s < q.wrSeq
  <2>1. s \in 0 .. q.wrSeq - 1
    BY <1>1
  <2>2. s \in NoAckSeqs \/ s < got \/ s \in Waiting(q)
    BY <2>1 DEF StillKept
  <2> QED
    BY <2>2
<1>2. CASE ~(s < q.wrSeq)
  <2>1. s \in q.wrSeq .. p.wrSeq - 1
    BY <1>2
  <2> QED
    BY <2>1
<1> QED
  BY <1>1, <1>2

LEMMA ClientSendsInv == ASSUME FlowInv, ClientSends PROVE FlowInv'
<1>1. /\ snd.seqSnd \in Nat /\ snd'.seqSnd \in Nat /\ rcv.rxQ.wrSeq \in Nat
      /\ snd.txQ.wrSeq = snd.seqSnd /\ snd'.txQ.wrSeq = snd'.seqSnd
  BY SideNumbers DEF FlowInv, ClientSends
<1>2. /\ TxSide(snd') /\ snd'.seqSnd >= snd.seqSnd
      /\ rcv' = rcv /\ call' = call /\ delivered' = delivered
      /\ wire' \subseteq wire \cup SentDats(snd'.seqSnd)
      /\ ended' \in {ended, "exited"}
  BY DEF ClientSends
<1>3. wire' \subseteq OnWire(snd'.seqSnd, rcv.rxQ.wrSeq)
  <2>1. OnWire(snd.seqSnd, rcv.rxQ.wrSeq) \subseteq OnWire(snd'.seqSnd, rcv.rxQ.wrSeq)
    BY <1>1, <1>2, WireGrows
  <2>2. SentDats(snd'.seqSnd) \subseteq OnWire(snd'.seqSnd, rcv.rxQ.wrSeq)
    BY DEF OnWire
  <2> QED
    BY <1>2, <2>1, <2>2 DEF FlowInv
<1>4. OnlySent(rcv.rxQ, snd'.seqSnd)
  <2>1. ASSUME NEW j \in Slots, rcv.rxQ.valid[j] PROVE rcv.rxQ.buff[j].seq < snd'.seqSnd
    <3>1. rcv.rxQ.buff[j] \in RxPackets /\ rcv.rxQ.buff[j].seq < snd.seqSnd
      BY <2>1 DEF FlowInv, OnlySent, RxSide, NumberedRx
    <3>2. rcv.rxQ.buff[j].seq \in Nat
      BY <3>1 DEF RxPackets
    <3> QED
      BY <1>1, <1>2, <3>1, <3>2
  <2>2. rcv.rxQ.wrSeq <= snd'.seqSnd
    <3>1. rcv.rxQ.wrSeq <= snd.seqSnd
      BY DEF FlowInv, OnlySent
    <3> QED
      BY <1>1, <1>2, <3>1
  <2> QED
    BY <2>1, <2>2 DEF OnlySent
<1>5. NamesKnown => StillKept(snd'.txQ, rcv.rxQ.wrSeq)
  <2>1. /\ \A s \in Waiting(snd.txQ) : s \in Waiting(snd'.txQ)
        /\ \A s \in snd.seqSnd .. snd'.seqSnd - 1 : s \in NoAckSeqs \/ s \in Waiting(snd'.txQ)
    BY DEF ClientSends
  <2> QED
    BY <1>1, <2>1, StillKeptOn DEF FlowInv
<1> QED
  BY <1>2, <1>3, <1>4, <1>5 DEF FlowInv

LEMMA ClientHearsInv == ASSUME FlowInv, ClientHears PROVE FlowInv'
<1>1. /\ snd.seqSnd \in Nat /\ rcv.rxQ.wrSeq \in Nat
      /\ snd.txQ.wrSeq = snd.seqSnd /\ snd'.txQ.wrSeq = snd.seqSnd
  BY SideNumbers DEF FlowInv, ClientHears
<1>2. /\ TxSide(snd') /\ snd'.seqSnd = snd.seqSnd /\ wire' \subseteq wire
      /\ rcv' = rcv /\ call' = call /\ delivered' = delivered /\ ended' = ended
  BY DEF ClientHears
<1>3. NamesKnown => StillKept(snd'.txQ, rcv.rxQ.wrSeq)
  <2> SUFFICES ASSUME NamesKnown PROVE StillKept(snd'.txQ, rcv.rxQ.wrSeq)
    OBVIOUS
  <2>1. \A s \in Waiting(snd.txQ) : s < rcv.rxQ.wrSeq \/ s \in Waiting(snd'.txQ)
    BY DEF ClientHears
  <2>2. \A s \in snd.txQ.wrSeq .. snd'.txQ.wrSeq - 1 : FALSE
    BY <1>1
  <2> QED
    BY <1>1, <2>1, <2>2, StillKeptOn DEF FlowInv
<1> QED
  BY <1>2, <1>3 DEF FlowInv

\* The server has more, or what it had.
LEMMA ServerGot ==
  ASSUME FlowInv, RxSide(rcv'), OnlySent(rcv'.rxQ, snd.seqSnd),
         rcv.rxQ.wrSeq <= rcv'.rxQ.wrSeq, snd' = snd,
         wire' \subseteq OnWire(snd.seqSnd, rcv'.rxQ.wrSeq),
         InOrderUpTo(delivered', rcv'.rxQ.rdSeq),
         call' \in {"idle", "none", "some", "stopped"},
         ended' \in {"no", "exited", "crashed"}
  PROVE  FlowInv'
<1>1. /\ snd.txQ.wrSeq \in Nat /\ rcv.rxQ.wrSeq \in Nat /\ rcv'.rxQ.wrSeq \in Nat
  BY SideNumbers DEF FlowInv
<1>2. NamesKnown => StillKept(snd.txQ, rcv'.rxQ.wrSeq)
  <2>1. \A s \in snd.txQ.wrSeq .. snd.txQ.wrSeq - 1 : FALSE
    BY <1>1
  <2> QED
    BY <1>1, <2>1, StillKeptOn DEF FlowInv
<1> QED
  BY <1>2 DEF FlowInv

LEMMA ServerTakesInv ==
  ASSUME FlowInv, ServerTakes, call' \in {"idle", "none", "some", "stopped"}
  PROVE  FlowInv'
<1>1. /\ snd.seqSnd \in Nat /\ rcv.rxQ.wrSeq \in Nat /\ rcv'.rxQ.wrSeq \in Nat
  BY SideNumbers DEF FlowInv, ServerTakes
<1>2. OnWire(snd.seqSnd, rcv.rxQ.wrSeq) \subseteq OnWire(snd.seqSnd, rcv'.rxQ.wrSeq)
  BY <1>1, WireGrows DEF ServerTakes
<1> QED
  BY <1>2, ServerGot DEF FlowInv, ServerTakes

\* One more number, in order
LEMMA OneMoreInOrder ==
  ASSUME NEW n \in Nat, NEW l, InOrderUpTo(l, n)
  PROVE  InOrderUpTo(Append(l, n), n + 1)
<1>1. l \in Seq(Nat) /\ Len(l) = n /\ \A k \in 1 .. n : l[k] = k - 1
  BY DEF InOrderUpTo
<1>2. /\ Append(l, n) \in Seq(Nat) /\ Len(Append(l, n)) = n + 1
      /\ Append(l, n)[n + 1] = n
      /\ \A k \in 1 .. n : Append(l, n)[k] = l[k]
  BY <1>1
<1> HIDE DEF InOrderUpTo
<1>3. \A k \in 1 .. n + 1 : Append(l, n)[k] = k - 1
  BY <1>1, <1>2
<1> QED
  BY <1>2, <1>3 DEF InOrderUpTo

LEMMA ServerHandsInv ==
  ASSUME FlowInv, ServerHands, call' \in {"idle", "none", "some", "stopped"}
  PROVE  FlowInv'
<1>1. rcv.rxQ.rdSeq \in Nat /\ rcv.rxQ.wrSeq \in Nat
  BY SideNumbers DEF FlowInv
<1>2. InOrderUpTo(delivered', rcv'.rxQ.rdSeq)
  BY <1>1, OneMoreInOrder DEF FlowInv, ServerHands
<1>3. RxSide(rcv') /\ OnlySent(rcv'.rxQ, snd.seqSnd) /\ rcv'.rxQ.wrSeq = rcv.rxQ.wrSeq
      /\ snd' = snd /\ wire' = wire /\ ended' = ended
  BY DEF ServerHands
<1> QED
  BY <1>1, <1>2, <1>3, ServerGot DEF FlowInv

LEMMA ServerAcksInv == ASSUME FlowInv, ServerAcks PROVE FlowInv'
<1>1. wire' \subseteq OnWire(snd.seqSnd, rcv.rxQ.wrSeq)
  BY DEF FlowInv, ServerAcks, OnWire
<1>2. rcv.rxQ.wrSeq \in Nat
  BY SideNumbers DEF FlowInv
<1> QED
  BY <1>1, <1>2, ServerGot DEF FlowInv, ServerAcks

\* Every step is one of these, or changes nothing of what FlowInv is about but
\* the place in etcpRecv and what is lost.
Quiet ==
  /\ UNCHANGED <<snd, rcv, delivered, ended>>
  /\ wire' \subseteq wire
  /\ call' \in {"idle", "none", "some", "stopped"}

LEMMA StepKinds ==
  ASSUME FlowInv, [Next]_vars
  PROVE  \/ ClientSends \/ ClientHears \/ ServerAcks \/ Quiet
         \/ ServerTakes /\ call' \in {"idle", "none", "some", "stopped"}
         \/ ServerHands /\ call' \in {"idle", "none", "some", "stopped"}
<1>1. TxSide(snd) /\ call \in {"idle", "none", "some", "stopped"}
  BY DEF FlowInv
<1>2. CASE Client
  BY <1>1, <1>2, SendIsClientSends, PumpIsClientSends, RxAckIsClientHears DEF Client
<1>3. CASE SPoll
  <2>1. PICK f \in Arriving : ServerRx(f)
    BY <1>3 DEF SPoll
  <2>2. f \in Dats /\ call' = call
    BY <1>3, <2>1 DEF Arriving, SPoll
  <2> QED
    BY <1>1, <2>1, <2>2, RxIsServerTakes
<1>4. CASE SRecvFrame
  <2>1. PICK f \in Arriving :
          ServerRx(f) /\ call' = IF SlotTaken(rcv, f) THEN "stopped" ELSE "some"
    BY <1>4 DEF SRecvFrame
  <2>2. f \in Dats
    BY <2>1 DEF Arriving
  <2> QED
    BY <2>1, <2>2, RxIsServerTakes
<1>5. CASE SRecvBegin \/ SRecvNothing
  BY <1>5 DEF SRecvBegin, SRecvNothing, Quiet
<1>6. CASE SRecvEnd
  BY <1>6, RecvEndIsServerHands DEF SRecvEnd
<1>7. CASE SSend
  BY <1>7, SendIsServerAcks
<1>8. CASE Lose
  BY <1>1, <1>8 DEF Lose, Quiet
<1>9. CASE UNCHANGED vars
  BY <1>1, <1>9 DEF vars, Quiet
<1> QED
  BY <1>2, <1>3, <1>4, <1>5, <1>6, <1>7, <1>8, <1>9 DEF Next, Server

LEMMA FlowInvStep == FlowInv /\ [Next]_vars => FlowInv'
<1> SUFFICES ASSUME FlowInv, [Next]_vars PROVE FlowInv'
  OBVIOUS
<1>1. CASE Quiet
  <2>1. rcv.rxQ.wrSeq \in Nat
    BY SideNumbers DEF FlowInv
  <2> QED
    BY <1>1, <2>1, ServerGot DEF FlowInv, Quiet
<1> QED
  BY <1>1, StepKinds, ClientSendsInv, ClientHearsInv, ServerTakesInv, ServerHandsInv,
     ServerAcksInv

\* FlowInv holds in every state of every behaviour of the connection.
THEOREM FlowInvariant == Spec => []FlowInv
  BY InitFlowInv, FlowInvStep, PTL DEF Spec

-----------------------------------------------------------------------------
(* What follows from it                                                    *)

\* Queues, connections and calls are of their types.
THEOREM FlowTypes == Spec => []TypeOK
<1>1. ASSUME FlowInv PROVE TypeOK
  <2>1. TxSide(snd) /\ RxSide(rcv) /\ snd.seqSnd \in Nat
    BY <1>1, SideNumbers DEF FlowInv
  <2>2. snd.txQ \in QueueType({Zeroed} \cup DatPackets)
    BY <2>1 DEF TxSide, Sound
  <2>3. snd.rxQ \in QueueType({Zeroed, "SACK"})
    <3>1. {Zeroed, "SACK"} = {Zeroed} \cup {"SACK"}
      OBVIOUS
    <3>2. snd.rxQ \in QueueType({Zeroed} \cup {"SACK"})
      BY <2>1 DEF TxSide, Sound
    <3> QED
      BY <3>1, <3>2
  <2>4. rcv.rxQ \in QueueType({Zeroed} \cup [seq : Nat, noAck : BOOLEAN, ackSent : BOOLEAN])
    BY <2>1 DEF RxSide, Sound, RxPackets
  <2>5. ASSUME NEW j \in Slots, rcv.ackQ.valid[j]
        PROVE  rcv.ackQ.buff[j].type = "ACK" /\ rcv.ackQ.buff[j].txState \in {"RDY", "NOW"}
    <3>1. rcv.ackQ.buff[j] \in AckPackets
      BY <2>1, <2>5 DEF RxSide, Holds, Allowed
    <3> QED
      BY <3>1 DEF AckPackets
  <2>6. rcv.staleQ \in Seq(Nat) /\ rcv.seqAck \in Nat
    BY <2>1 DEF RxSide, StaleBelow
  <2>7. /\ delivered \in Seq(Nat) /\ call \in {"idle", "none", "some", "stopped"}
        /\ ended \in {"no", "exited", "crashed"}
    BY <1>1 DEF FlowInv, InOrderUpTo
  <2> QED
    BY <2>1, <2>2, <2>3, <2>4, <2>5, <2>6, <2>7 DEF TypeOK
<1> QED
  BY <1>1, FlowInvariant, PTL

\* etcpRecv hands messages over once each, in order, without a gap, whatever
\* the network does, and whatever the hardware answers.
THEOREM FlowDeliversInOrder == Spec => []InOrderDelivery
<1>1. FlowInv => InOrderDelivery
  BY DEF FlowInv, InOrderUpTo, InOrderDelivery
<1> QED
  BY <1>1, FlowInvariant, PTL

\* A packet waits in the slot of its number on both sides: seqSnd and the
\* write cursor of txQ never come apart.
THEOREM FlowNumbersSlots == Spec => []NumberedBySlot
<1>1. ASSUME FlowInv PROVE NumberedBySlot
  <2>1. PICK q, p : q = snd.txQ /\ p = rcv.rxQ
    OBVIOUS
  <2>2. /\ Sound({Zeroed} \cup DatPackets, q) /\ NumberedTx(q) /\ snd.seqSnd = q.wrSeq
        /\ Sound({Zeroed} \cup RxPackets, p) /\ NumberedRx(p)
    BY <1>1, <2>1 DEF FlowInv, TxSide, RxSide
  <2>3. q.rdSeq \in Nat /\ q.wrSeq \in Nat /\ q.wrSeq <= q.rdSeq + SlotCount
        /\ SlotCount \in Nat
    BY <2>2, Numbers DEF Sound
  <2>4. ASSUME NEW s \in q.rdSeq .. q.wrSeq - 1, Valid(q, s) PROVE Packet(q, s).seq = s
    <3>1. s \in q.rdSeq .. q.rdSeq + SlotCount - 1
      BY <2>3
    <3> QED
      BY <2>2, <2>4, <3>1, TxNumberAt
  <2>5. ASSUME NEW s \in p.rdSeq .. p.rdSeq + SlotCount - 1, Valid(p, s)
        PROVE  At(p, s).seq = s
    BY <2>2, <2>5, NumberAt
  <2> QED
    BY <2>1, <2>2, <2>4, <2>5 DEF NumberedBySlot
<1> QED
  BY <1>1, FlowInvariant, PTL

\* The boundary of RxSide: what is in the window before it was acknowledged,
\* what is not was not.
LEMMA AckBoundary ==
  ASSUME NEW c, RxSide(c)
  PROVE  \E b \in Nat :
           /\ c.seqAck <= b /\ c.seqAck \in Nat /\ c.rxQ.rdSeq \in Nat
           /\ \A s \in c.rxQ.rdSeq .. c.rxQ.wrSeq - 1 :
                s \in Nat /\ (s < b => At(c.rxQ, s).ackSent)
                /\ (~(s < b) => ~At(c.rxQ, s).ackSent)
<1>1. PICK q : q = c.rxQ
  OBVIOUS
<1>2. /\ Sound({Zeroed} \cup RxPackets, q) /\ NoHoles(q) /\ c.seqAck \in Nat
      /\ \E b \in q.rdSeq .. q.wrSeq : AckedBelow(q, b) /\ c.seqAck <= b
  BY <1>1 DEF RxSide
<1>3. PICK b \in q.rdSeq .. q.wrSeq : AckedBelow(q, b) /\ c.seqAck <= b
  BY <1>2
<1>4. q.rdSeq \in Nat /\ q.wrSeq \in Nat /\ q.wrSeq <= q.rdSeq + SlotCount
      /\ SlotCount \in Nat
  BY <1>2, Numbers DEF Sound
<1>5. ASSUME NEW s \in q.rdSeq .. q.wrSeq - 1
      PROVE  /\ s \in Nat /\ (s < b => At(q, s).ackSent)
             /\ (~(s < b) => ~At(q, s).ackSent)
  <2>1. Valid(q, s)
    BY <1>2 DEF NoHoles
  <2>2. s < b => s \in q.rdSeq .. b - 1
    BY <1>3, <1>4
  <2>3. ~(s < b) => s \in b .. q.rdSeq + SlotCount - 1
    BY <1>3, <1>4
  <2>4. s \in Nat
    BY <1>4
  <2> QED
    BY <1>3, <2>1, <2>2, <2>3, <2>4 DEF AckedBelow
<1>6. b \in Nat
  BY <1>3, <1>4
<1> QED
  BY <1>1, <1>2, <1>3, <1>4, <1>5, <1>6

\* generateAcks leaves no packet without its ack before one that has it, so
\* that doEtcpUserRx passes over none.
THEOREM FlowAcksPrefix == Spec => []AckedPrefix
<1>1. ASSUME FlowInv PROVE AckedPrefix
  <2>1. PICK b \in Nat :
          \A s \in rcv.rxQ.rdSeq .. rcv.rxQ.wrSeq - 1 :
            s \in Nat /\ (s < b => At(rcv.rxQ, s).ackSent)
            /\ (~(s < b) => ~At(rcv.rxQ, s).ackSent)
    BY <1>1, AckBoundary DEF FlowInv
  <2> SUFFICES ASSUME NEW s \in rcv.rxQ.rdSeq .. rcv.rxQ.wrSeq - 1,
                      NEW t \in rcv.rxQ.rdSeq .. rcv.rxQ.wrSeq - 1,
                      s < t, At(rcv.rxQ, t).ackSent
               PROVE  At(rcv.rxQ, s).ackSent
    BY DEF AckedPrefix
  <2>2. t < b /\ t \in Nat /\ s \in Nat
    BY <2>1
  <2>3. s < b
    BY <2>2
  <2> QED
    BY <2>1, <2>3
<1> QED
  BY <1>1, FlowInvariant, PTL

\* The offset of an acknowledgement, packet number less seqAck, never wraps.
THEOREM FlowSeqAckBehind == Spec => []SeqAckBehind
<1>1. ASSUME FlowInv PROVE SeqAckBehind
  <2>1. PICK b \in Nat :
          /\ rcv.seqAck <= b /\ rcv.seqAck \in Nat
          /\ \A s \in rcv.rxQ.rdSeq .. rcv.rxQ.wrSeq - 1 :
               s \in Nat /\ (s < b => At(rcv.rxQ, s).ackSent)
    BY <1>1, AckBoundary DEF FlowInv
  <2> SUFFICES ASSUME NEW s \in rcv.rxQ.rdSeq .. rcv.rxQ.wrSeq - 1, ~At(rcv.rxQ, s).ackSent
               PROVE  rcv.seqAck <= s
    BY DEF SeqAckBehind
  <2>2. ~(s < b) /\ s \in Nat
    BY <2>1
  <2> QED
    BY <2>1, <2>2
<1> QED
  BY <1>1, FlowInvariant, PTL

\* An acknowledgement names only what the server has got, when no field is
\* read from behind tmpBuff and the stale list fits one packet of them.
THEOREM FlowAcksTruthful == ASSUME NamesKnown PROVE Spec => []AcksTruthful
<1>1. ASSUME FlowInv PROVE AcksTruthful
  <2>1. PICK w : w = rcv.rxQ.wrSeq
    OBVIOUS
  <2>2. w \in Nat
    BY <1>1, <2>1, SideNumbers DEF FlowInv
  <2>3. ASSUME NEW f \in SentAcks(w), NEW s \in Named(f) PROVE s < w
    <3>1. f \in AckFrames /\ EndsBefore(f, w)
      BY DEF SentAcks
    <3> QED
      BY <2>2, <3>1, NamedBelow
  <2>4. ASSUME NEW f \in Acks PROVE f \in SentAcks(w)
    BY <1>1, <2>1, FrameTypes DEF Acks, FlowInv
  <2>5. ASSUME NEW p \in AckQueued PROVE AckFrame(p) \in SentAcks(w) /\ Named(p) = Named(AckFrame(p))
    <3>1. p \in Allowed(w)
      BY <1>1, <2>1 DEF AckQueued, FlowInv, RxSide, Holds
    <3>2. AckFrame(p) \in SentAcks(w)
      BY <3>1, AckOnWire
    <3>3. AckFrame(p).base = p.base /\ AckFrame(p).fields = p.fields
      BY DEF AckFrame
    <3> QED
      BY <3>2, <3>3 DEF Named
  <2> QED
    BY <2>1, <2>3, <2>4, <2>5 DEF AcksTruthful
<1> QED
  BY <1>1, FlowInvariant, PTL

\* Nothing is released that wants an answer before the server has it.
THEOREM FlowReleasesReceived == ASSUME NamesKnown PROVE Spec => []ReleasedOnlyIfReceived
<1>1. ASSUME FlowInv PROVE ReleasedOnlyIfReceived
  <2>1. PICK q : q = snd.txQ
    OBVIOUS
  <2>2. /\ StillKept(q, rcv.rxQ.wrSeq) /\ snd.seqSnd = q.wrSeq
        /\ Sound({Zeroed} \cup DatPackets, q)
    BY <1>1, <2>1 DEF FlowInv, TxSide
  <2>3. q.rdSeq \in Nat /\ q.wrSeq \in Nat
    BY <2>2, Numbers DEF Sound
  <2> SUFFICES ASSUME NEW s \in 0 .. q.wrSeq - 1, s < q.rdSeq \/ ~Valid(q, s)
               PROVE  s \in NoAckSeqs \/ s < rcv.rxQ.wrSeq
    BY <2>1, <2>2 DEF ReleasedOnlyIfReceived
  <2>4. s \notin Waiting(q)
    <3>1. s \in q.rdSeq .. q.wrSeq - 1 => ~(s < q.rdSeq)
      BY <2>3
    <3> QED
      BY <2>2, <3>1, WaitingFacts
  <2> QED
    BY <2>2, <2>4 DEF StillKept
<1> QED
  BY <1>1, FlowInvariant, PTL

-----------------------------------------------------------------------------
(* Acknowledgements leave their queue onto the wire                        *)

\* What is queued stays queued when each acknowledgement is where it was.
LEMMA QueuedStays ==
  ASSUME StillQueued(rcv.ackQ, rcv'.ackQ), NEW p \in AckQueued
  PROVE  p \in AckQueued'
<1>1. PICK j \in Slots : rcv.ackQ.valid[j] /\ p = rcv.ackQ.buff[j]
  BY DEF AckQueued
<1>2. rcv'.ackQ.valid[j] /\ p = rcv'.ackQ.buff[j]
  BY <1>1 DEF StillQueued
<1> QED
  BY <1>1, <1>2 DEF AckQueued

\* Taking in a packet queues no acknowledgement and drops none.
LEMMA RxKeepsAcks ==
  ASSUME FlowInv, NEW f, ServerRx(f)
  PROVE  rcv'.ackQ = rcv.ackQ
<1>1. rcv = [rxQ |-> rcv.rxQ, ackQ |-> rcv.ackQ, staleQ |-> rcv.staleQ,
             seqAck |-> rcv.seqAck]
  BY DEF FlowInv, RxSide
<1>2. rcv' = rcv \/ rcv' = etcpOnRxDat(rcv, f)
  BY DEF ServerRx
<1> QED
  BY <1>1, <1>2 DEF etcpOnRxDat

\* An acknowledgement that leaves the queue of the server is on the wire, if
\* the hardware never answers that it has no capacity.
THEOREM FlowSendsAcks ==
  ASSUME "full" \notin HwResults PROVE Spec => AckSentBeforeReleased
<1> DEFINE Gone(p) == AckFrame(p) \in {AckFrame(r) : r \in AckQueued'} \cup wire'
<1>1. ASSUME FlowInv, Next, NEW p \in AckQueued PROVE Gone(p)
  <2>1. CASE StillQueued(rcv.ackQ, rcv'.ackQ)
    BY <1>1, <2>1, QueuedStays
  <2>2. CASE rcv'.ackQ = rcv.ackQ
    BY <2>1, <2>2 DEF StillQueued
  <2>3. CASE Client \/ SRecvBegin \/ SRecvNothing \/ Lose
    <3>1. rcv' = rcv
      BY <2>3 DEF Client, CSend, CPumpSome, CPump, CRxAck, SRecvBegin, SRecvNothing, Lose
    <3> QED
      BY <2>2, <3>1
  <2>4. CASE SPoll \/ SRecvFrame
    <3>1. \E f : ServerRx(f)
      BY <2>4 DEF SPoll, SRecvFrame
    <3> QED
      BY <1>1, <2>2, <3>1, RxKeepsAcks
  <2>5. CASE SRecvEnd
    <3>1. PICK junk \in JunkFields :
            UserRx(generateStaleAcks(generateAcks(rcv, junk), junk))
      BY <2>5 DEF SRecvEnd
    <3>2. PICK c : c = generateStaleAcks(generateAcks(rcv, junk), junk)
      OBVIOUS
    <3>3. RxSide(c) /\ StillQueued(rcv.ackQ, c.ackQ)
      BY <1>1, <3>2, GenerateKeeps DEF FlowInv
    <3>4. rcv' = c \/ rcv' = [c EXCEPT !.rxQ = cqReleaseSlot(@, @.rdSeq)]
      BY <3>1, <3>2 DEF UserRx
    <3>5. rcv'.ackQ = c.ackQ
      BY <3>3, <3>4 DEF RxSide
    <3> QED
      BY <2>1, <3>3, <3>5
  <2>6. CASE SSend
    <3>1. PICK hw \in ServerHw(rcv.ackQ) :
            LET run == doEtcpNetTx(TcAcks(rcv.ackQ), TcMaxAck(rcv.ackQ), hw)
            IN rcv' = [rcv EXCEPT !.ackQ = Rebased(run.q)] /\ wire' = wire \cup run.sent
      BY <2>6 DEF SSend
    <3>2. PICK run : run = doEtcpNetTx(TcAcks(rcv.ackQ), TcMaxAck(rcv.ackQ), hw)
      OBVIOUS
    <3>3. rcv' = [rcv EXCEPT !.ackQ = Rebased(run.q)] /\ wire' = wire \cup run.sent
      BY <3>1, <3>2
    <3>4. AcksLeave(rcv.ackQ, rcv'.ackQ, hw, run.sent)
      <4>1. RxSide(rcv)
        BY <1>1 DEF FlowInv
      <4> QED
        BY <3>2, <3>3, <4>1, AcksSentKeep
    <3>5. PICK j \in Slots : rcv.ackQ.valid[j] /\ p = rcv.ackQ.buff[j]
      BY <1>1 DEF AckQueued
    <3>6. hw[j] # "full"
      <4>1. hw \in [{i \in Slots : rcv.ackQ.valid[i]} -> HwResults]
        BY <3>1 DEF ServerHw
      <4>2. hw[j] \in HwResults
        BY <3>5, <4>1
      <4> QED
        BY <4>2
    <3>7. CASE rcv'.ackQ.valid[j]
      <4>1. AckFrame(p) = AckFrame(rcv'.ackQ.buff[j]) /\ rcv'.ackQ.buff[j] \in AckQueued'
        BY <3>4, <3>5, <3>7 DEF AckQueued, AcksLeave
      <4> QED
        BY <4>1
    <3>8. CASE ~rcv'.ackQ.valid[j]
      BY <3>3, <3>4, <3>5, <3>6, <3>8 DEF AcksLeave
    <3> QED
      BY <3>7, <3>8
  <2> QED
    BY <1>1, <2>3, <2>4, <2>5, <2>6 DEF Next, Server
<1>2. FlowInv /\ [Next]_vars =>
        [\A p \in AckQueued : AckFrame(p) \in {AckFrame(r) : r \in AckQueued'} \cup wire']_vars
  BY <1>1
<1> QED
  BY <1>2, FlowInvariant, PTL DEF Spec, AckSentBeforeReleased

-----------------------------------------------------------------------------
(* What the applications see                                               *)

\* Under the hypotheses of FlowAcksTruthful the connection implements
\* Transfer: every step is one of the application's view of it, or a stutter.
THEOREM FlowImplementsTransfer == ASSUME NamesKnown PROVE Spec => ImplementsTransfer
<1> USE DEF ImplementsTransfer
<1>1. Init => Abstract!Init
  <2> SUFFICES ASSUME Init PROVE Abstract!Init
    OBVIOUS
  <2>1. snd.seqSnd = 0 /\ snd.txQ.wrSeq = 0 /\ rcv.rxQ.wrSeq = 0 /\ snd.txQ.rdSeq = 0
    BY DEF Init, cqNew
  <2>2. KeptNow = {}
    BY <2>1 DEF KeptNow
  <2>3. Len(delivered) = 0
    BY DEF Init
  <2> QED
    BY <2>1, <2>2, <2>3 DEF Abstract!Init
<1>2. FlowInv /\ FlowInv' /\ [Next]_vars => [Abstract!Next]_Abstract!vars
  <2> SUFFICES ASSUME FlowInv, FlowInv', [Next]_vars
               PROVE  Abstract!Next \/ UNCHANGED Abstract!vars
    OBVIOUS
  <2>1. /\ KeptNow = Waiting(snd.txQ) /\ KeptNow' = Waiting(snd'.txQ)
    BY DEF KeptNow, Waiting
  <2>2. /\ Len(delivered) = rcv.rxQ.rdSeq /\ Len(delivered') = rcv'.rxQ.rdSeq
        /\ rcv'.rxQ.wrSeq <= snd'.seqSnd
    BY DEF FlowInv, InOrderUpTo, OnlySent
  <2>3. /\ snd.seqSnd \in Nat /\ rcv.rxQ.rdSeq \in Nat /\ rcv.rxQ.wrSeq \in Nat
        /\ snd'.seqSnd \in Nat /\ rcv'.rxQ.rdSeq \in Nat /\ rcv'.rxQ.wrSeq \in Nat
        /\ rcv'.rxQ.rdSeq <= rcv'.rxQ.wrSeq
        /\ rcv'.rxQ.wrSeq <= rcv'.rxQ.rdSeq + SlotCount /\ SlotCount \in Nat
    <3>1. TxSide(snd) /\ RxSide(rcv) /\ TxSide(snd') /\ RxSide(rcv')
      BY DEF FlowInv
    <3> QED
      BY <3>1, SideNumbers
  <2>4. CASE ClientSends
    <3>1. /\ snd'.seqSnd >= snd.seqSnd /\ rcv' = rcv /\ delivered' = delivered
          /\ KeptNow' = KeptNow \cup ((snd.seqSnd .. snd'.seqSnd - 1) \ NoAckSeqs)
      BY <2>1, <2>4 DEF ClientSends
    <3>2. CASE snd'.seqSnd = snd.seqSnd
      <4>1. (snd.seqSnd .. snd'.seqSnd - 1) = {}
        BY <2>3, <3>2
      <4> QED
        BY <3>1, <3>2, <4>1 DEF Abstract!vars
    <3>3. CASE snd'.seqSnd > snd.seqSnd
      BY <2>3, <3>1, <3>3 DEF Abstract!Next, Abstract!Send
    <3> QED
      BY <2>3, <3>1, <3>2, <3>3
  <2>5. CASE ClientHears
    <3>1. /\ KeptNow' \subseteq KeptNow /\ snd'.seqSnd = snd.seqSnd
          /\ \A s \in KeptNow \ KeptNow' : s < rcv.rxQ.wrSeq
          /\ rcv' = rcv /\ delivered' = delivered
      BY <2>1, <2>5 DEF ClientHears
    <3> DEFINE S == KeptNow \ KeptNow'
    <3>2. S \in SUBSET KeptNow /\ (\A s \in S : s < rcv.rxQ.wrSeq) /\ KeptNow' = KeptNow \ S
      BY <3>1
    <3> HIDE DEF S
    <3> QED
      BY <3>1, <3>2 DEF Abstract!Next, Abstract!Forget
  <2>6. CASE ServerTakes
    <3>1. /\ snd' = snd /\ delivered' = delivered /\ KeptNow' = KeptNow
          /\ rcv'.rxQ.rdSeq = rcv.rxQ.rdSeq /\ rcv.rxQ.wrSeq <= rcv'.rxQ.wrSeq
      BY <2>1, <2>6 DEF ServerTakes
    <3>2. CASE rcv'.rxQ.wrSeq = rcv.rxQ.wrSeq
      BY <3>1, <3>2 DEF Abstract!vars
    <3>3. CASE rcv'.rxQ.wrSeq > rcv.rxQ.wrSeq
      <4>1. rcv'.rxQ.wrSeq \in rcv.rxQ.wrSeq + 1 .. snd.seqSnd
        BY <2>2, <2>3, <3>1, <3>3
      <4>2. rcv'.rxQ.wrSeq <= Len(delivered) + SlotCount
        BY <2>2, <2>3, <3>1
      <4> QED
        BY <3>1, <4>1, <4>2 DEF Abstract!Next, Abstract!Accept
    <3> QED
      BY <2>3, <3>1, <3>2, <3>3
  <2>7. CASE ServerHands
    <3>1. snd' = snd /\ KeptNow' = KeptNow /\ rcv'.rxQ.wrSeq = rcv.rxQ.wrSeq
      BY <2>1, <2>7 DEF ServerHands
    <3>2. CASE rcv'.rxQ.rdSeq = rcv.rxQ.rdSeq /\ delivered' = delivered
      BY <3>1, <3>2 DEF Abstract!vars
    <3>3. CASE rcv'.rxQ.rdSeq = rcv.rxQ.rdSeq + 1
      <4>1. Len(delivered) < rcv.rxQ.wrSeq /\ Len(delivered') = Len(delivered) + 1
        BY <2>2, <2>3, <3>1, <3>3
      <4> QED
        BY <3>1, <4>1 DEF Abstract!Next, Abstract!HandOver
    <3> QED
      BY <2>7, <3>2, <3>3 DEF ServerHands
  <2>8. CASE ServerAcks \/ Quiet
    BY <2>1, <2>8 DEF ServerAcks, Quiet, Abstract!vars
  <2> QED
    BY <2>4, <2>5, <2>6, <2>7, <2>8, StepKinds
<1> QED
  BY <1>1, <1>2, FlowInvariant, PTL DEF Spec, Abstract!Spec
=============================================================================
