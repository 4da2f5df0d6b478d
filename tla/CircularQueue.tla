---------------------------- MODULE CircularQueue ----------------------------
(***************************************************************************)
(* The circular queue of CircularQueue.c: a window of SlotCount slots over *)
(* an unbounded sequence number space.  The library is a set of pure       *)
(* functions of the queue here, so that a module that owns several queues  *)
(* (the transmit and the receive window of a connection) can use it for    *)
(* each of them.                                                           *)
(*                                                                         *)
(* For each call there are two operators: cqX(cq, ...), the queue the call *)
(* leaves behind, and cqXErr(cq, ...), the code it returns.                *)
(*                                                                         *)
(* Sequence numbers are i64 in the code ("64bit ~= infinity"), naturals    *)
(* here.  A payload is abstract: Prefix(d, n) is what is left of payload d *)
(* when n bytes of it were copied.                                         *)
(***************************************************************************)
EXTENDS Integers

CONSTANTS
  SlotCount,     \* __slotCount, 2^slotCountLog2
  SlotDataSize,  \* slotDataSize, the bytes a slot was made for
  Zeroed         \* what a slot holds before its first write (calloc)

ASSUME SlotCountAssumption == SlotCount \in Nat \ {0}
ASSUME SlotDataSizeAssumption == SlotDataSize \in Nat

Slots == 0 .. SlotCount - 1

\* sizeof(cqSlot_t), packed: an i64, a pointer and a bool
SlotHeaderSize == 17

\* __slotSize: header and data rounded up to the next 64-bit word
SlotSize == ((SlotDataSize + SlotHeaderSize + 7) \div 8) * 8

Prefix(d, n) == [data |-> d, bytes |-> n]

Lesser(a, b) == IF a < b THEN a ELSE b

-----------------------------------------------------------------------------
(* The queue                                                               *)

\* wrRng and rdRng are left out: no code reads them.
cqNew ==
  [ rdSeq |-> 0, wrSeq |-> 0,
    rdMin |-> 0, rdMax |-> 0, wrMin |-> 0, wrMax |-> SlotCount,
    readable |-> 0, available |-> SlotCount, outstanding |-> 0,
    valid |-> [i \in Slots |-> FALSE],
    len   |-> [i \in Slots |-> SlotDataSize],
    buff  |-> [i \in Slots |-> Zeroed] ]

\* seqNum & __seqMask, with SlotCount a power of two
Idx(s) == s % SlotCount

InRange(cq, s) == cq.rdSeq <= s /\ s < cq.rdSeq + SlotCount

cqGetErr(cq, s) ==
  IF s < cq.rdSeq THEN "cqERANGELO"
  ELSE IF s >= cq.rdSeq + SlotCount THEN "cqERANGEHI"
  ELSE "cqENOERR"

\* The slot sequence number s falls into holds data
Valid(cq, s) == cq.valid[Idx(s)]

-----------------------------------------------------------------------------
(* Moving the cursors                                                      *)

\* Seeded fault: the scan runs over empty slots.
WrScanStopsAtEnd(cq, s) == s >= cq.rdSeq + SlotCount

\* The write scan ends at the first empty slot, or where the window ends.
WrScanStops(cq, s) == s >= cq.rdSeq + SlotCount \/ ~Valid(cq, s)

WrScanEnd(cq) ==
  CHOOSE e \in cq.wrSeq .. cq.wrSeq + SlotCount :
    /\ WrScanStops(cq, e)
    /\ \A s \in cq.wrSeq .. e - 1 : ~WrScanStops(cq, s)

cqAdvWrSeqErr(cq) ==
  IF cq.wrSeq < cq.rdSeq THEN "cqEPANIC"
  ELSE IF WrScanEnd(cq) = cq.wrSeq THEN "cqENOCHANGE"
  ELSE "cqENOERR"

\* Seeded fault: rdMax one past the slots that were written.
cqAdvWrSeqPast(cq) ==
  IF cqAdvWrSeqErr(cq) # "cqENOERR" THEN cq
  ELSE LET e == WrScanEnd(cq) IN
       [cq EXCEPT !.wrSeq = e, !.wrMin = e, !.wrMax = cq.rdSeq + SlotCount,
                  !.rdMax = e + 1,
                  !.outstanding = @ - 1, !.readable = @ + 1, !.available = @ - 1]

\* Seeded fault: readable is not counted.
cqAdvWrSeqUnread(cq) ==
  IF cqAdvWrSeqErr(cq) # "cqENOERR" THEN cq
  ELSE LET e == WrScanEnd(cq) IN
       [cq EXCEPT !.wrSeq = e, !.wrMin = e, !.wrMax = cq.rdSeq + SlotCount,
                  !.rdMax = e, !.outstanding = @ - 1, !.available = @ - 1]

\* One call is one change of the three counters, however far wrSeq moves.
cqAdvWrSeq(cq) ==
  IF cqAdvWrSeqErr(cq) # "cqENOERR" THEN cq
  ELSE LET e == WrScanEnd(cq) IN
       [cq EXCEPT !.wrSeq = e, !.wrMin = e,
                  !.wrMax = cq.rdSeq + SlotCount,
                  !.rdMax = e,
                  !.outstanding = @ - 1, !.readable = @ + 1,
                  !.available = @ - 1]

\* Seeded fault: the scan runs over slots still in use.
RdScanStopsAtWr(cq, s) == s >= cq.wrSeq \/ s >= cq.rdSeq + SlotCount

\* The read scan ends at wrSeq or at the first slot still in use; running
\* into the end of the window first is what the code calls impossible.
RdScanStops(cq, s) ==
  s >= cq.wrSeq \/ s >= cq.rdSeq + SlotCount \/ Valid(cq, s)

RdScanEnd(cq) ==
  CHOOSE e \in cq.rdSeq .. cq.rdSeq + SlotCount :
    /\ RdScanStops(cq, e)
    /\ \A s \in cq.rdSeq .. e - 1 : ~RdScanStops(cq, s)

cqAdvRdSeqErr(cq) ==
  LET e == RdScanEnd(cq) IN
  IF e < cq.wrSeq /\ e >= cq.rdSeq + SlotCount THEN "cqEPANIC"
  ELSE IF e = cq.rdSeq THEN "cqENOCHANGE"
  ELSE "cqENOERR"

\* Seeded fault: wrMax stays behind.
cqAdvRdSeqKeepsMax(cq) ==
  IF cqAdvRdSeqErr(cq) # "cqENOERR" THEN cq
  ELSE LET e == RdScanEnd(cq) IN
       [cq EXCEPT !.rdSeq = e, !.rdMin = e, !.rdMax = cq.wrMin + 1,
                  !.readable = @ - 1, !.available = @ + 1]

\* Seeded fault: available is not counted.
cqAdvRdSeqKeepsCount(cq) ==
  IF cqAdvRdSeqErr(cq) # "cqENOERR" THEN cq
  ELSE LET e == RdScanEnd(cq) IN
       [cq EXCEPT !.rdSeq = e, !.rdMin = e, !.rdMax = cq.wrMin + 1,
                  !.wrMax = e + SlotCount, !.readable = @ - 1]

cqAdvRdSeq(cq) ==
  IF cqAdvRdSeqErr(cq) # "cqENOERR" THEN cq
  ELSE LET e == RdScanEnd(cq) IN
       [cq EXCEPT !.rdSeq = e, !.rdMin = e,
                  !.rdMax = cq.wrMin + 1,
                  !.wrMax = e + SlotCount,
                  !.readable = @ - 1, !.available = @ + 1]

-----------------------------------------------------------------------------
(* Filling and emptying slots                                              *)

\* Seeded fault: a slot in use is written over.
cqPushErrBlind(cq, s, n) ==
  IF s < cq.rdSeq THEN "cqEPANIC"
  ELSE IF ~InRange(cq, s) THEN "cqENOSLOT"
  ELSE IF cq.len[Idx(s)] < n THEN "cqETRUNC"
  ELSE "cqENOERR"

cqPushErr(cq, s, n) ==
  IF s < cq.rdSeq THEN "cqEPANIC"
  ELSE IF ~InRange(cq, s) \/ Valid(cq, s) THEN "cqENOSLOT"
  ELSE IF cq.len[Idx(s)] < n THEN "cqETRUNC"
  ELSE "cqENOERR"

\* The bytes cqPush copies, its *len_io
cqPushLen(cq, s, n) == Lesser(n, cq.len[Idx(s)])

cqPush(cq, s, d, n) ==
  IF cqPushErr(cq, s, n) \in {"cqEPANIC", "cqENOSLOT"} THEN cq
  ELSE [cq EXCEPT !.buff[Idx(s)] = Prefix(d, cqPushLen(cq, s, n))]

cqPullErr(cq, s) ==
  IF s < cq.rdSeq THEN "cqEPANIC"
  ELSE IF ~InRange(cq, s) \/ ~Valid(cq, s) THEN "cqENOSLOT"
  ELSE "cqENOERR"   \* toCopy > slot->len never holds: toCopy is the minimum

cqPullLen(cq, s, n) == Lesser(n, cq.len[Idx(s)])

\* Slot s with n bytes in it, before the write cursor moves
Filled(cq, s, n) ==
  [cq EXCEPT !.len[Idx(s)] = n, !.valid[Idx(s)] = TRUE, !.outstanding = @ + 1]

\* Seeded fault: a slot cannot be filled to its last byte.
CommitRefusalStrict(cq, s, n) ==
  IF ~InRange(cq, s) THEN cqGetErr(cq, s)
  ELSE IF n >= cq.len[Idx(s)] THEN "cqEPANIC"
  ELSE IF Valid(cq, s) THEN "cqEWRONGSLOT"
  ELSE "cqENOERR"

\* The code of a commit that stops before it marks the slot
CommitRefusal(cq, s, n) ==
  IF ~InRange(cq, s) THEN cqGetErr(cq, s)
  ELSE IF n > cq.len[Idx(s)] THEN "cqEPANIC"
  ELSE IF Valid(cq, s) THEN "cqEWRONGSLOT"
  ELSE "cqENOERR"

cqCommitSlotErr(cq, s, n) ==
  IF CommitRefusal(cq, s, n) # "cqENOERR" THEN CommitRefusal(cq, s, n)
  ELSE cqAdvWrSeqErr(Filled(cq, s, n))

cqCommitSlot(cq, s, n) ==
  IF CommitRefusal(cq, s, n) # "cqENOERR" THEN cq
  ELSE cqAdvWrSeq(Filled(cq, s, n))

\* Seeded fault: the length of an empty slot is marked as unknown.
EmptiedUnknown(cq, s) ==
  [cq EXCEPT !.len[Idx(s)] = -1, !.valid[Idx(s)] = FALSE]

\* Seeded fault: the slot is not marked as empty.
EmptiedStillValid(cq, s) == [cq EXCEPT !.len[Idx(s)] = SlotSize]

\* Slot s emptied, before the read cursor moves.  Its length becomes that of
\* the whole slot, header included.
Emptied(cq, s) ==
  [cq EXCEPT !.len[Idx(s)] = SlotSize, !.valid[Idx(s)] = FALSE]

cqGetRdErr(cq, s) ==
  IF ~InRange(cq, s) THEN cqGetErr(cq, s)
  ELSE IF ~Valid(cq, s) THEN "cqEWRONGSLOT"
  ELSE "cqENOERR"

cqReleaseSlotErr(cq, s) ==
  IF cqGetRdErr(cq, s) # "cqENOERR" THEN cqGetRdErr(cq, s)
  ELSE cqAdvRdSeqErr(Emptied(cq, s))

cqReleaseSlot(cq, s) ==
  IF cqGetRdErr(cq, s) # "cqENOERR" THEN cq
  ELSE cqAdvRdSeq(Emptied(cq, s))

\* cqGetNextWr hands out the slot at wrSeq, cqGetNextRd the one at rdSeq.
cqGetNextWrErr(cq) ==
  IF cq.wrSeq < cq.rdSeq THEN "cqEPANIC"
  ELSE IF ~InRange(cq, cq.wrSeq) \/ Valid(cq, cq.wrSeq) THEN "cqENOSLOT"
  ELSE "cqENOERR"

cqGetNextRdErr(cq) == IF ~Valid(cq, cq.rdSeq) THEN "cqENOSLOT" ELSE "cqENOERR"

-----------------------------------------------------------------------------
(* The shape of a queue, stated for any queue so that every owner can use  *)
(* it for its own                                                          *)

\* The fields of cq_t, with contents from C in the slots
QueueType(C) ==
  [ rdSeq : Nat, wrSeq : Nat, rdMin : Nat, rdMax : Nat, wrMin : Nat, wrMax : Nat,
    readable : Int, available : Int, outstanding : Int,
    valid : [Slots -> BOOLEAN],
    len   : [Slots -> Nat],
    buff  : [Slots -> C] ]

\* rdMin, rdMax, wrMin and wrMax, which the callers read, against the cursors
CursorsAgree(q) ==
  /\ q.rdMin = q.rdSeq
  /\ q.wrMin = q.wrSeq
  /\ q.wrMax = q.rdSeq + SlotCount
  /\ q.rdMax \in {q.wrSeq, q.wrSeq + 1}
  /\ q.rdMax = q.wrSeq + 1 => q.wrSeq < q.rdSeq + SlotCount

WriteCursorInWindow(q) == q.rdSeq <= q.wrSeq /\ q.wrSeq <= q.rdSeq + SlotCount

\* Each cursor stands at its first stop: wrSeq at an empty slot unless the
\* window ends there, rdSeq at a slot in use unless wrSeq is there.
CursorsAtRest(q) ==
  /\ q.wrSeq < q.rdSeq + SlotCount => ~Valid(q, q.wrSeq)
  /\ q.rdSeq < q.wrSeq => Valid(q, q.rdSeq)

Windowed(q) == CursorsAgree(q) /\ WriteCursorInWindow(q) /\ CursorsAtRest(q)
=============================================================================
