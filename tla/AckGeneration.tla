---------------------------- MODULE AckGeneration ----------------------------
(***************************************************************************)
(* How the receiving side of a connection acknowledges: the two passes of  *)
(* etcp.c over what it holds, generateAcks over the receive window and     *)
(* generateStaleAcks over the list of packets that came below it, and the  *)
(* packets the two put into the transmit queue of the connection.          *)
(*                                                                         *)
(* A connection is a record of                                             *)
(*   rxQ     the receive window; a slot holds [seq, noAck, ackSent],       *)
(*   ackQ    its txQ, in which acknowledgements wait to be sent,           *)
(*   staleQ  the sequence numbers in the stale list, in its order,         *)
(*   seqAck  the number acknowledgements are relative to.                  *)
(* Both passes are loops, whose bodies are AckStep and StaleStep.          *)
(***************************************************************************)
EXTENDS CircularQueue, SequencesExt

CONSTANT MaxSacks   \* ETCP_MAX_SACKS, the fields of one packet

ASSUME MaxSacksAssumption == MaxSacks \in Nat \ {0}

\* What a slot's buffer is written through slot->buff
Stored(q, s, p) == [q EXCEPT !.buff[Idx(s)] = p]

At(q, s) == q.buff[Idx(s)]

\* Every packet fits its slot: the length committed is the data size.
Commit(q, s, p) == cqCommitSlot(Stored(q, s, p), s, SlotDataSize)

-----------------------------------------------------------------------------
(* The stale list                                                          *)

\* In order of sequence number, after those with an equal one
llPushSeqOrd(l, s) ==
  InsertAt(l, Min({k \in DOMAIN l : l[k] > s} \cup {Len(l) + 1}), s)

llReleaseHead(l) == IF l = <<>> THEN l ELSE Tail(l)

-----------------------------------------------------------------------------
(* Packets of acknowledgements                                             *)

Field(o, c) == [offset |-> o, count |-> c]

\* A packet under construction (tmpBuff): base and fields, the index of the
\* field to write next, whether that field has been begun, and how many
\* numbers the packet names.
EmptyPacket == [base |-> 0, fields |-> <<>>, idx |-> 0, begun |-> FALSE, unsent |-> 0]

Closed(b) == IF b.begun THEN [b EXCEPT !.idx = @ + 1, !.begun = FALSE] ELSE b

\* Seeded fault: a field begins with a count of one, and counts its first number.
BegunAtOne(b, base, s) ==
  IF b.begun THEN b
  ELSE [b EXCEPT !.base = IF b.idx = 0 THEN base ELSE @, !.begun = TRUE,
                 !.fields = Append(@, Field(s - base, 1))]

Begun(b, base, s) ==
  IF b.begun THEN b
  ELSE LET first == IF b.idx = 0 THEN base ELSE b.base IN
       [b EXCEPT !.base = first, !.begun = TRUE,
                 !.fields = Append(@, Field(s - base, 0))]

Counted(b) ==
  [b EXCEPT !.unsent = @ + 1, !.fields[b.idx + 1].count = @ + 1]

\* The n fields pushSackEthPacket copies: what was never written is zero as
\* far as tmpBuff goes and whatever follows it on the stack after that.
Carried(b, n, junk) ==
  [k \in 1 .. n |-> IF k <= Len(b.fields) THEN b.fields[k]
                    ELSE IF k <= MaxSacks THEN Field(0, 0)
                    ELSE junk]

SackPacket(b, n, sackCount, junk) ==
  [type |-> "ACK", txState |-> "RDY", base |-> b.base,
   sackCount |-> sackCount, fields |-> Carried(b, n, junk)]

HasTxSlot(c) == cqGetNextWrErr(c.ackQ) = "cqENOERR"

pushSackEthPacket(c, b, n, sackCount, junk) ==
  [c EXCEPT !.ackQ = Commit(@, @.wrSeq, SackPacket(b, n, sackCount, junk))]

\* Seeded fault: one further than the field.
AckedPast(c, b) ==
  [c EXCEPT !.seqAck = @ + b.fields[1].offset + b.fields[1].count + 1]

\* seqAck moves past the first field of a packet that was queued.
Acked(c, b) ==
  [c EXCEPT !.seqAck = @ + b.fields[1].offset + b.fields[1].count]

-----------------------------------------------------------------------------
(* generateAcks                                                            *)

\* The loop's state: the connection, the packet, and whether the function has
\* returned.  completeAckPackets is never counted, so that maxAckPackets, once
\* it is positive, stops nothing.
AckRun(c) == [conn |-> c, pkt |-> EmptyPacket, returned |-> FALSE]

\* A packet with no field left is queued, with a sackCount of zero, and a new
\* one begun; without a slot for it the function returns.
FlushIfFull(run, junk) ==
  IF run.pkt.idx < MaxSacks THEN run
  ELSE IF ~HasTxSlot(run.conn) THEN [run EXCEPT !.returned = TRUE]
  ELSE [run EXCEPT
         !.conn = Acked(pushSackEthPacket(@, run.pkt, MaxSacks, 0, junk), run.pkt),
         !.pkt = EmptyPacket]

AckSlot(run, i) ==
  LET q == run.conn.rxQ
      p == At(q, i)
      marked == [run EXCEPT !.conn.rxQ = Stored(q, i, [p EXCEPT !.ackSent = TRUE])]
  IN IF ~Valid(q, i) THEN [run EXCEPT !.pkt = Closed(@)]
     ELSE IF p.ackSent THEN run
     ELSE IF p.noAck THEN [marked EXCEPT !.pkt = Closed(@)]
     ELSE [marked EXCEPT !.pkt = Counted(Begun(@, run.conn.seqAck, p.seq))]

AckStep(junk, run, i) ==
  LET r == FlushIfFull(run, junk)
  IN IF run.returned THEN run ELSE IF r.returned THEN r ELSE AckSlot(r, i)

AckLoop == INSTANCE Iteration WITH Step <- AckStep

\* The last packet, whose count is one more than the fields that were closed
AckFinish(run, junk) ==
  LET n == run.pkt.idx + 1 IN
  IF run.returned \/ run.pkt.unsent = 0 \/ ~HasTxSlot(run.conn) THEN run.conn
  ELSE Acked(pushSackEthPacket(run.conn, run.pkt, n, n, junk), run.pkt)

\* Seeded fault: the loop starts after rdMin.
VisitedLate(q) ==
  [k \in 1 .. Lesser(q.rdMax - q.rdMin, SlotCount) - 1 |-> q.rdMin + k]

\* The numbers a loop from rdMin below rdMax visits when maxSlots is the size
\* of the window
Visited(q) ==
  [k \in 1 .. Lesser(q.rdMax - q.rdMin, SlotCount) |-> q.rdMin + k - 1]

generateAcks(c, junk) ==
  IF c.rxQ.readable = 0 THEN c
  ELSE AckFinish(AckLoop!After(junk, AckRun(c), Visited(c.rxQ)), junk)

-----------------------------------------------------------------------------
(* generateStaleAcks                                                       *)

\* As above, with the number expected next, and done set when the list runs
\* out
StaleRun(c) ==
  [conn |-> c, pkt |-> EmptyPacket, returned |-> FALSE, done |-> FALSE,
   expect |-> Head(c.staleQ)]

\* The head of the list is looked at again and again: only finding it a second
\* time, taken for a duplicate, removes it.
StaleHead(run) ==
  LET s    == Head(run.conn.staleQ)
      jump == s > run.expect /\ run.pkt.begun
      pkt  == IF jump THEN Closed(run.pkt) ELSE run.pkt
      base == IF pkt.idx = 0 /\ ~pkt.begun THEN s ELSE pkt.base
  IN IF s = run.expect - 1 THEN [run EXCEPT !.conn.staleQ = llReleaseHead(@)]
     ELSE IF s < run.expect THEN [run EXCEPT !.returned = TRUE]
     ELSE [run EXCEPT
            !.pkt = Counted(Begun(pkt, base, s)),
            !.expect = (IF jump THEN s ELSE @) + 1]

StaleStep(junk, run, i) ==
  LET full == run.pkt.idx >= MaxSacks IN
  IF run.returned \/ run.done THEN run
  ELSE IF full /\ ~HasTxSlot(run.conn) THEN [run EXCEPT !.returned = TRUE]
  ELSE LET r == IF full
                THEN [run EXCEPT
                       !.conn = pushSackEthPacket(@, run.pkt, MaxSacks, 0, junk),
                       !.pkt = EmptyPacket]
                ELSE run
       IN IF r.conn.staleQ = <<>> THEN [r EXCEPT !.done = TRUE] ELSE StaleHead(r)

StaleLoop == INSTANCE Iteration WITH Step <- StaleStep

StaleFinish(run, junk) ==
  LET n == run.pkt.idx + 1 IN
  IF run.returned \/ run.pkt.unsent = 0 \/ ~HasTxSlot(run.conn) THEN run.conn
  ELSE pushSackEthPacket(run.conn, run.pkt, n, n, junk)

\* maxSlots is the length of the list when the call is made.
generateStaleAcks(c, junk) ==
  IF c.staleQ = <<>> THEN c
  ELSE StaleFinish(StaleLoop!After(junk, StaleRun(c), c.staleQ), junk)
=============================================================================
