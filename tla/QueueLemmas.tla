---------------------------- MODULE QueueLemmas ----------------------------
(***************************************************************************)
(* Facts about the operators of CircularQueue: where the scans end and     *)
(* what each call does to the cursors, for a queue of any size.            *)
(***************************************************************************)
EXTENDS CircularQueue, WellFoundedInduction, TLAPS

\* A non-empty set of naturals has a least element.
LEMMA LeastNatural ==
  ASSUME NEW T, T \subseteq Nat, T # {}
  PROVE  \E x \in T : \A y \in T : x <= y
<1>1. PICK x \in T : \A y \in T : ~(<<y, x>> \in OpToRel(<, Nat))
  BY NatLessThanWellFounded, WFMin, Zenon
<1>2. ASSUME NEW y \in T PROVE x <= y
  <2>1. <<y, x>> \in Nat \X Nat
    OBVIOUS
  <2>2. ~(<<y, x>>[1] < <<y, x>>[2])
    BY <1>1, <2>1, Zenon DEF OpToRel
  <2> QED
    BY <2>2, SMT
<1> QED
  BY <1>2

\* Any property that holds at some number from lo on holds first somewhere.
LEMMA FirstStop ==
  ASSUME NEW lo \in Nat, NEW hi \in Nat, NEW S, lo <= hi, hi \in S
  PROVE  \E e \in lo .. hi : e \in S /\ \A s \in lo .. e - 1 : s \notin S
<1> DEFINE T == {s \in lo .. hi : s \in S}
<1>1. T \subseteq Nat /\ T # {}
  BY SMT
<1>2. PICK e \in T : \A y \in T : e <= y
  BY <1>1, LeastNatural, Zenon
<1> QED
  BY <1>2, SMT

\* Slot indices are slots, and a number a whole window later has the same one.
LEMMA IdxType == ASSUME NEW s \in Nat PROVE Idx(s) \in Slots
  BY SlotCountAssumption, SMT DEF Idx, Slots

\* A multiple of n strictly between -n and n is 0.
LEMMA SmallMultiple ==
  ASSUME NEW n \in Nat, NEW k \in Int, -n < n * k, n * k < n
  PROVE  k = 0
<1>1. CASE k >= 1
  <2>1. n * k = n + n * (k - 1)
    BY SMT
  <2>2. n * (k - 1) >= 0
    BY <1>1, SMT
  <2> QED
    BY <2>1, <2>2, SMT
<1>2. CASE k <= -1
  <2>1. n * k = -n + n * (k + 1)
    BY SMT
  <2>2. n * (-(k + 1)) >= 0
    BY <1>2, SMT
  <2>3. n * (-(k + 1)) = -(n * (k + 1))
    BY SMT
  <2> QED
    BY <2>1, <2>2, <2>3, SMT
<1> QED
  BY <1>1, <1>2, SMT

\* A sequence number is a number of whole windows and its slot index.
LEMMA IdxDiv ==
  ASSUME NEW s \in Nat
  PROVE  /\ s \div SlotCount \in Int
         /\ Idx(s) \in Nat
         /\ Idx(s) < SlotCount
         /\ s = SlotCount * (s \div SlotCount) + Idx(s)
  BY SlotCountAssumption, SMT DEF Idx

\* Sequence numbers a whole number of windows apart share a slot.
LEMMA IdxSame ==
  ASSUME NEW s \in Nat, NEW t \in Nat, NEW k \in Int, t = s + SlotCount * k
  PROVE  Idx(t) = Idx(s)
<1>1. PICK a \in Int : s = SlotCount * a + Idx(s)
  BY IdxDiv, Zenon
<1>2. PICK b \in Int : t = SlotCount * b + Idx(t)
  BY IdxDiv, Zenon
<1>3. /\ Idx(s) \in Nat /\ Idx(s) < SlotCount
      /\ Idx(t) \in Nat /\ Idx(t) < SlotCount
  BY IdxDiv, Zenon
<1>4. SlotCount * (b - a - k) = Idx(s) - Idx(t)
  <2>1. SlotCount * (b - a - k) = SlotCount * b - SlotCount * a - SlotCount * k
    BY SlotCountAssumption, SMT
  <2> QED
    BY <1>1, <1>2, <1>3, <2>1, SlotCountAssumption, SMT
<1>5. b - a - k = 0
  BY <1>3, <1>4, SmallMultiple, SlotCountAssumption, SMT
<1> QED
  BY <1>3, <1>4, <1>5, SlotCountAssumption, SMT

\* The number one window further on falls into the same slot: the slot at
\* rdSeq is the slot at rdSeq + SlotCount (seqNum & __seqMask).
LEMMA IdxPeriod == ASSUME NEW s \in Nat PROVE Idx(s + SlotCount) = Idx(s)
  BY SlotCountAssumption, IdxSame, SMT

-----------------------------------------------------------------------------
(* The scans                                                               *)

\* What the scans and the cursor moves need to know of a queue
Scannable(q) ==
  /\ q.rdSeq \in Nat /\ q.wrSeq \in Nat
  /\ q.rdSeq <= q.wrSeq /\ q.wrSeq <= q.rdSeq + SlotCount

\* The write scan ends in the window, at its first stop.
LEMMA WrScan ==
  ASSUME NEW q, Scannable(q)
  PROVE  LET e == WrScanEnd(q) IN
         /\ e \in q.wrSeq .. q.rdSeq + SlotCount
         /\ WrScanStops(q, e)
         /\ \A s \in q.wrSeq .. e - 1 : ~WrScanStops(q, s)
<1> DEFINE hi == q.rdSeq + SlotCount
<1> DEFINE S == {s \in q.wrSeq .. hi : WrScanStops(q, s)}
<1>1. hi \in Nat /\ q.wrSeq \in Nat /\ q.wrSeq <= hi /\ hi \in S
  BY SlotCountAssumption DEF Scannable, WrScanStops
<1>2. PICK e \in q.wrSeq .. hi : e \in S /\ \A s \in q.wrSeq .. e - 1 : s \notin S
  <2> HIDE DEF S, hi
  <2> QED
    BY <1>1, FirstStop
<1>3. \A s \in q.wrSeq .. e - 1 : ~WrScanStops(q, s)
  BY <1>1, <1>2
<1>4. e \in q.wrSeq .. q.wrSeq + SlotCount
  BY <1>1, <1>2, SlotCountAssumption DEF Scannable
<1>5. WrScanEnd(q) \in q.wrSeq .. q.wrSeq + SlotCount
      /\ WrScanStops(q, WrScanEnd(q))
      /\ \A s \in q.wrSeq .. WrScanEnd(q) - 1 : ~WrScanStops(q, s)
  <2> DEFINE P(x) == /\ WrScanStops(q, x)
                     /\ \A s \in q.wrSeq .. x - 1 : ~WrScanStops(q, s)
  <2>1. P(e)
    BY <1>2, <1>3
  <2>2. WrScanEnd(q) = CHOOSE x \in q.wrSeq .. q.wrSeq + SlotCount : P(x)
    BY DEF WrScanEnd
  <2> HIDE DEF P
  <2>3. P(WrScanEnd(q)) /\ WrScanEnd(q) \in q.wrSeq .. q.wrSeq + SlotCount
    BY <1>4, <2>1, <2>2, Zenon
  <2> QED
    BY <2>3 DEF P
<1>6. WrScanEnd(q) <= hi
  <2>1. SUFFICES ASSUME WrScanEnd(q) > hi PROVE FALSE
    BY <1>1, <1>5, SlotCountAssumption
  <2>2. hi \in q.wrSeq .. WrScanEnd(q) - 1
    BY <1>1, <1>5, <2>1, SlotCountAssumption
  <2> QED
    BY <1>1, <1>5, <2>2
<1> QED
  BY <1>1, <1>5, <1>6, SlotCountAssumption

\* The read scan ends before or at wrSeq, at its first stop.
LEMMA RdScan ==
  ASSUME NEW q, Scannable(q)
  PROVE  LET e == RdScanEnd(q) IN
         /\ e \in q.rdSeq .. q.wrSeq
         /\ RdScanStops(q, e)
         /\ \A s \in q.rdSeq .. e - 1 : ~RdScanStops(q, s)
<1> DEFINE hi == q.wrSeq
<1> DEFINE S == {s \in q.rdSeq .. hi : RdScanStops(q, s)}
<1>1. hi \in Nat /\ q.rdSeq \in Nat /\ q.rdSeq <= hi /\ hi \in S
  BY SlotCountAssumption DEF Scannable, RdScanStops
<1>2. PICK e \in q.rdSeq .. hi : e \in S /\ \A s \in q.rdSeq .. e - 1 : s \notin S
  <2> HIDE DEF S, hi
  <2> QED
    BY <1>1, FirstStop
<1>3. \A s \in q.rdSeq .. e - 1 : ~RdScanStops(q, s)
  BY <1>1, <1>2
<1>4. e \in q.rdSeq .. q.rdSeq + SlotCount
  BY <1>1, <1>2, SlotCountAssumption DEF Scannable
<1>5. RdScanEnd(q) \in q.rdSeq .. q.rdSeq + SlotCount
      /\ RdScanStops(q, RdScanEnd(q))
      /\ \A s \in q.rdSeq .. RdScanEnd(q) - 1 : ~RdScanStops(q, s)
  <2> DEFINE P(x) == /\ RdScanStops(q, x)
                     /\ \A s \in q.rdSeq .. x - 1 : ~RdScanStops(q, s)
  <2>1. P(e)
    BY <1>2, <1>3
  <2>2. RdScanEnd(q) = CHOOSE x \in q.rdSeq .. q.rdSeq + SlotCount : P(x)
    BY DEF RdScanEnd
  <2> HIDE DEF P
  <2>3. P(RdScanEnd(q)) /\ RdScanEnd(q) \in q.rdSeq .. q.rdSeq + SlotCount
    BY <1>4, <2>1, <2>2, Zenon
  <2> QED
    BY <2>3 DEF P
<1>6. RdScanEnd(q) <= hi
  <2>1. SUFFICES ASSUME RdScanEnd(q) > hi PROVE FALSE
    BY <1>1, <1>5, SlotCountAssumption
  <2>2. hi \in q.rdSeq .. RdScanEnd(q) - 1
    BY <1>1, <1>5, <2>1, SlotCountAssumption
  <2> QED
    BY <1>1, <1>5, <2>2
<1> QED
  BY <1>1, <1>5, <1>6, SlotCountAssumption

-----------------------------------------------------------------------------
(* Updates that keep a queue a queue, in steps small enough for the        *)
(* provers: a record of twelve fields with seven of them replaced is not.  *)

\* Moving the write cursor keeps the type of a queue.
LEMMA TypeWrCursor ==
  ASSUME NEW C, NEW q \in QueueType(C), NEW e \in Nat
  PROVE  [q EXCEPT !.wrSeq = e, !.wrMin = e] \in QueueType(C)
  BY DEF QueueType

\* Moving the read cursor keeps the type of a queue.
LEMMA TypeRdCursor ==
  ASSUME NEW C, NEW q \in QueueType(C), NEW e \in Nat
  PROVE  [q EXCEPT !.rdSeq = e, !.rdMin = e] \in QueueType(C)
  BY DEF QueueType

\* So does setting the two upper bounds, as cqAdvWrSeq does,
LEMMA TypeWrBounds ==
  ASSUME NEW C, NEW q \in QueueType(C), NEW w \in Nat, NEW r \in Nat
  PROVE  [q EXCEPT !.wrMax = w, !.rdMax = r] \in QueueType(C)
  BY DEF QueueType

\* and as cqAdvRdSeq does,
LEMMA TypeRdBounds ==
  ASSUME NEW C, NEW q \in QueueType(C), NEW w \in Nat, NEW r \in Nat
  PROVE  [q EXCEPT !.rdMax = r, !.wrMax = w] \in QueueType(C)
  BY DEF QueueType

\* and changing the three counters of cqAdvWrSeq,
LEMMA TypeWrCounts ==
  ASSUME NEW C, NEW q \in QueueType(C), NEW a \in Int, NEW b \in Int, NEW c \in Int
  PROVE  [q EXCEPT !.outstanding = a, !.readable = b, !.available = c]
           \in QueueType(C)
  BY DEF QueueType

\* and the two of cqAdvRdSeq.
LEMMA TypeRdCounts ==
  ASSUME NEW C, NEW q \in QueueType(C), NEW a \in Int, NEW b \in Int
  PROVE  [q EXCEPT !.readable = a, !.available = b] \in QueueType(C)
  BY DEF QueueType

\* All assignments of cqAdvWrSeq together keep the type of a queue.
LEMMA TypeWrMove ==
  ASSUME NEW C, NEW q \in QueueType(C), NEW e \in Nat, NEW w \in Nat,
         NEW a \in Int, NEW b \in Int, NEW c \in Int
  PROVE  [q EXCEPT !.wrSeq = e, !.wrMin = e, !.wrMax = w, !.rdMax = e,
                   !.outstanding = a, !.readable = b, !.available = c]
           \in QueueType(C)
<1> DEFINE q1 == [q EXCEPT !.wrSeq = e, !.wrMin = e]
<1> DEFINE q2 == [q1 EXCEPT !.wrMax = w, !.rdMax = e]
<1>1. q1 \in QueueType(C)
  BY TypeWrCursor
<1>2. q2 \in QueueType(C)
  <2> HIDE DEF q1
  <2> QED
    BY <1>1, TypeWrBounds
<1>3. [q2 EXCEPT !.outstanding = a, !.readable = b, !.available = c]
        \in QueueType(C)
  <2> HIDE DEF q2
  <2> QED
    BY <1>2, TypeWrCounts
<1> QED
  BY <1>3

\* All assignments of cqAdvRdSeq together keep the type of a queue.
LEMMA TypeRdMove ==
  ASSUME NEW C, NEW q \in QueueType(C), NEW e \in Nat, NEW w \in Nat,
         NEW r \in Nat, NEW a \in Int, NEW b \in Int
  PROVE  [q EXCEPT !.rdSeq = e, !.rdMin = e, !.rdMax = r, !.wrMax = w,
                   !.readable = a, !.available = b] \in QueueType(C)
<1> DEFINE q1 == [q EXCEPT !.rdSeq = e, !.rdMin = e]
<1> DEFINE q2 == [q1 EXCEPT !.rdMax = r, !.wrMax = w]
<1>1. q1 \in QueueType(C)
  BY TypeRdCursor
<1>2. q2 \in QueueType(C)
  <2> HIDE DEF q1
  <2> QED
    BY <1>1, TypeRdBounds
<1>3. [q2 EXCEPT !.readable = a, !.available = b] \in QueueType(C)
  <2> HIDE DEF q2
  <2> QED
    BY <1>2, TypeRdCounts
<1> QED
  BY <1>3

\* Counting an outstanding slot keeps the type of a queue.
LEMMA TypeOutstanding ==
  ASSUME NEW C, NEW q \in QueueType(C), NEW a \in Int
  PROVE  [q EXCEPT !.outstanding = a] \in QueueType(C)
  BY DEF QueueType

\* Marking a slot as filled (cqCommitSlot) keeps the type of a queue.
LEMMA TypeFilled ==
  ASSUME NEW C, NEW q \in QueueType(C), NEW s \in Nat, NEW n \in Nat
  PROVE  Filled(q, s, n) \in QueueType(C)
<1>1. Idx(s) \in Slots
  BY IdxType
<1>2. [q EXCEPT !.len[Idx(s)] = n, !.valid[Idx(s)] = TRUE] \in QueueType(C)
  BY <1>1 DEF QueueType
<1>3. [q EXCEPT !.len[Idx(s)] = n, !.valid[Idx(s)] = TRUE, !.outstanding = q.outstanding + 1]
        \in QueueType(C)
  <2> DEFINE q1 == [q EXCEPT !.len[Idx(s)] = n, !.valid[Idx(s)] = TRUE]
  <2>1. q.outstanding + 1 \in Int
    BY DEF QueueType
  <2>2. q1 \in QueueType(C)
    BY <1>2
  <2>3. [q1 EXCEPT !.outstanding = q.outstanding + 1] \in QueueType(C)
    <3> HIDE DEF q1
    <3> QED
      BY <2>1, <2>2, TypeOutstanding
  <2> QED
    BY <2>3
<1> QED
  BY <1>3 DEF Filled

\* Marking a slot as empty (cqReleaseSlot) keeps the type of a queue.
LEMMA TypeEmptied ==
  ASSUME NEW C, NEW q \in QueueType(C), NEW s \in Nat
  PROVE  Emptied(q, s) \in QueueType(C)
<1>1. Idx(s) \in Slots /\ SlotSize \in Nat
  BY IdxType, SlotDataSizeAssumption, SMT DEF SlotSize, SlotHeaderSize
<1> QED
  BY <1>1 DEF QueueType, Emptied

\* Copying a payload into a slot (cqPush) keeps the type of a queue.
LEMMA TypePushed ==
  ASSUME NEW C, NEW q \in QueueType(C), NEW s \in Nat, NEW d, NEW n \in Nat,
         \A k \in Nat : Prefix(d, k) \in C
  PROVE  cqPush(q, s, d, n) \in QueueType(C)
<1>1. Idx(s) \in Slots
  BY IdxType
<1>2. cqPushLen(q, s, n) \in Nat
  BY <1>1 DEF cqPushLen, Lesser, QueueType
<1>3. Prefix(d, cqPushLen(q, s, n)) \in C
  BY <1>2
<1> QED
  BY <1>1, <1>3 DEF QueueType, cqPush

-----------------------------------------------------------------------------
(* The cursor moves                                                        *)

\* The write scan leaves a well-formed window when everything but the rest
\* position of wrSeq is in order before it, and it does not panic.
LEMMA AdvWr ==
  ASSUME NEW C, NEW q \in QueueType(C), Scannable(q), CursorsAgree(q),
         q.rdSeq < q.wrSeq => Valid(q, q.rdSeq)
  PROVE  /\ cqAdvWrSeq(q) \in QueueType(C)
         /\ Windowed(cqAdvWrSeq(q))
         /\ cqAdvWrSeqErr(q) \in {"cqENOERR", "cqENOCHANGE"}
<1> DEFINE e == WrScanEnd(q)
<1> DEFINE p == cqAdvWrSeq(q)
<1>1. /\ e \in q.wrSeq .. q.rdSeq + SlotCount
      /\ WrScanStops(q, e)
      /\ \A s \in q.wrSeq .. e - 1 : ~WrScanStops(q, s)
  BY WrScan, Zenon
<1>2. /\ q.rdSeq \in Nat /\ q.wrSeq \in Nat /\ q.rdSeq <= q.wrSeq
      /\ SlotCount \in Nat /\ q.wrSeq <= q.rdSeq + SlotCount
  BY SlotCountAssumption DEF Scannable
<1>3. cqAdvWrSeqErr(q) = IF e = q.wrSeq THEN "cqENOCHANGE" ELSE "cqENOERR"
  BY <1>2 DEF cqAdvWrSeqErr
<1>4. CASE e = q.wrSeq
  <2>1. p = q
    BY <1>3, <1>4 DEF cqAdvWrSeq
  <2>2. WrScanStops(q, q.wrSeq)
    BY <1>1, <1>4
  <2> QED
    BY <1>2, <1>3, <1>4, <2>1, <2>2 DEF Windowed, WriteCursorInWindow, CursorsAtRest, WrScanStops
<1>5. CASE e # q.wrSeq
  <2>1. p = [q EXCEPT !.wrSeq = e, !.wrMin = e,
                      !.wrMax = q.rdSeq + SlotCount, !.rdMax = e,
                      !.outstanding = @ - 1, !.readable = @ + 1,
                      !.available = @ - 1]
    BY <1>3, <1>5 DEF cqAdvWrSeq
  <2>2. e \in Nat /\ q.rdSeq + SlotCount \in Nat
    BY <1>1, <1>2
  <2>3. p \in QueueType(C)
    <3>1. /\ q.outstanding - 1 \in Int /\ q.readable + 1 \in Int
          /\ q.available - 1 \in Int
      BY DEF QueueType
    <3>2. [q EXCEPT !.wrSeq = e, !.wrMin = e,
                    !.wrMax = q.rdSeq + SlotCount, !.rdMax = e,
                    !.outstanding = q.outstanding - 1,
                    !.readable = q.readable + 1,
                    !.available = q.available - 1] \in QueueType(C)
      <4> HIDE DEF e
      <4> QED
        BY <2>2, <3>1, TypeWrMove
    <3> QED
      BY <2>1, <3>2
  <2>4. /\ p.wrSeq = e /\ p.wrMin = e /\ p.rdMax = e /\ p.rdSeq = q.rdSeq
        /\ p.rdMin = q.rdMin /\ p.wrMax = q.rdSeq + SlotCount
        /\ p.valid = q.valid
    BY <2>1 DEF QueueType
  <2>5. e < q.rdSeq + SlotCount => ~Valid(q, e)
    BY <1>1, <1>2 DEF WrScanStops
  <2>6. Valid(q, q.rdSeq)
    <3>1. CASE q.rdSeq < q.wrSeq
      BY <3>1
    <3>2. CASE q.rdSeq = q.wrSeq
      <4>1. ~WrScanStops(q, q.wrSeq)
        BY <1>1, <1>2, <1>5
      <4> QED
        BY <3>2, <4>1 DEF WrScanStops
    <3> QED
      BY <1>2, <3>1, <3>2
  <2>7. CursorsAgree(p) /\ WriteCursorInWindow(p)
    BY <1>1, <1>2, <2>4 DEF CursorsAgree, WriteCursorInWindow
  <2>8. CursorsAtRest(p)
    BY <2>4, <2>5, <2>6 DEF CursorsAtRest, Valid
  <2> QED
    BY <1>3, <1>5, <2>3, <2>7, <2>8 DEF Windowed
<1> QED
  BY <1>4, <1>5

\* The read scan likewise, for rdSeq.  The slot a full window has at wrSeq is
\* the one at rdSeq: when rdSeq moves on, that slot is empty.
LEMMA AdvRd ==
  ASSUME NEW C, NEW q \in QueueType(C), Scannable(q), CursorsAgree(q),
         q.wrSeq < q.rdSeq + SlotCount => ~Valid(q, q.wrSeq)
  PROVE  /\ cqAdvRdSeq(q) \in QueueType(C)
         /\ Windowed(cqAdvRdSeq(q))
         /\ cqAdvRdSeqErr(q) \in {"cqENOERR", "cqENOCHANGE"}
<1> DEFINE e == RdScanEnd(q)
<1> DEFINE p == cqAdvRdSeq(q)
<1>1. /\ e \in q.rdSeq .. q.wrSeq
      /\ RdScanStops(q, e)
      /\ \A s \in q.rdSeq .. e - 1 : ~RdScanStops(q, s)
  BY RdScan, Zenon
<1>2. /\ q.rdSeq \in Nat /\ q.wrSeq \in Nat /\ q.rdSeq <= q.wrSeq
      /\ SlotCount \in Nat /\ SlotCount > 0 /\ q.wrSeq <= q.rdSeq + SlotCount
  BY SlotCountAssumption DEF Scannable
<1>3. cqAdvRdSeqErr(q) = IF e = q.rdSeq THEN "cqENOCHANGE" ELSE "cqENOERR"
  BY <1>1, <1>2 DEF cqAdvRdSeqErr
<1>4. e < q.wrSeq => Valid(q, e)
  BY <1>1, <1>2 DEF RdScanStops
<1>5. CASE e = q.rdSeq
  <2>1. p = q
    BY <1>3, <1>5 DEF cqAdvRdSeq
  <2> QED
    BY <1>2, <1>3, <1>4, <1>5, <2>1 DEF Windowed, WriteCursorInWindow, CursorsAtRest
<1>6. CASE e # q.rdSeq
  <2>1. p = [q EXCEPT !.rdSeq = e, !.rdMin = e, !.rdMax = q.wrMin + 1,
                      !.wrMax = e + SlotCount,
                      !.readable = @ - 1, !.available = @ + 1]
    BY <1>3, <1>6 DEF cqAdvRdSeq
  <2>2. e \in Nat /\ e + SlotCount \in Nat /\ q.wrMin + 1 \in Nat
    BY <1>1, <1>2 DEF QueueType
  <2>3. p \in QueueType(C)
    <3>1. q.readable - 1 \in Int /\ q.available + 1 \in Int
      BY DEF QueueType
    <3>2. [q EXCEPT !.rdSeq = e, !.rdMin = e, !.rdMax = q.wrMin + 1,
                    !.wrMax = e + SlotCount,
                    !.readable = q.readable - 1,
                    !.available = q.available + 1] \in QueueType(C)
      <4> HIDE DEF e
      <4> QED
        BY <2>2, <3>1, TypeRdMove
    <3> QED
      BY <2>1, <3>2
  <2>4. /\ p.rdSeq = e /\ p.rdMin = e /\ p.rdMax = q.wrMin + 1
        /\ p.wrSeq = q.wrSeq /\ p.wrMin = q.wrMin
        /\ p.wrMax = e + SlotCount /\ p.valid = q.valid
    BY <2>1 DEF QueueType
  <2>5. CursorsAgree(p) /\ WriteCursorInWindow(p)
    BY <1>1, <1>2, <1>6, <2>4 DEF CursorsAgree, WriteCursorInWindow
  <2>6. ~Valid(q, q.wrSeq)
    <3>1. CASE q.wrSeq < q.rdSeq + SlotCount
      BY <3>1
    <3>2. CASE q.wrSeq = q.rdSeq + SlotCount
      <4>1. ~RdScanStops(q, q.rdSeq)
        BY <1>1, <1>2, <1>6
      <4>2. ~Valid(q, q.rdSeq)
        BY <4>1 DEF RdScanStops
      <4> QED
        BY <1>2, <3>2, <4>2, IdxPeriod DEF Valid
    <3> QED
      BY <1>2, <3>1, <3>2
  <2>7. CursorsAtRest(p)
    BY <1>4, <2>4, <2>6 DEF CursorsAtRest, Valid
  <2> QED
    BY <1>3, <1>6, <2>3, <2>5, <2>7 DEF Windowed
<1> QED
  BY <1>5, <1>6

-----------------------------------------------------------------------------
(* The calls                                                               *)

\* A queue of the right shape can be scanned.
LEMMA WindowedScannable ==
  ASSUME NEW C, NEW q \in QueueType(C), Windowed(q) PROVE Scannable(q)
  BY DEF QueueType, Windowed, WriteCursorInWindow, Scannable

\* Filling a slot disturbs nothing but the rest position of wrSeq.
LEMMA FilledFacts ==
  ASSUME NEW C, NEW q \in QueueType(C), Windowed(q), NEW s \in Nat, NEW n \in Nat
  PROVE  LET p == Filled(q, s, n) IN
         /\ p \in QueueType(C) /\ Scannable(p) /\ CursorsAgree(p)
         /\ p.rdSeq < p.wrSeq => Valid(p, p.rdSeq)
<1> DEFINE p == Filled(q, s, n)
<1>1. p \in QueueType(C)
  BY TypeFilled
<1>2. /\ p.rdSeq = q.rdSeq /\ p.wrSeq = q.wrSeq /\ p.rdMin = q.rdMin
      /\ p.rdMax = q.rdMax /\ p.wrMin = q.wrMin /\ p.wrMax = q.wrMax
      /\ p.valid = [q.valid EXCEPT ![Idx(s)] = TRUE]
  BY DEF QueueType, Filled
<1>3. Scannable(p) /\ CursorsAgree(p)
  BY <1>2, WindowedScannable DEF Windowed, CursorsAgree, Scannable
<1>4. ASSUME p.rdSeq < p.wrSeq PROVE Valid(p, p.rdSeq)
  <2>1. Valid(q, q.rdSeq)
    BY <1>2, <1>4 DEF Windowed, CursorsAtRest
  <2>2. q.valid \in [Slots -> BOOLEAN] /\ Idx(q.rdSeq) \in Slots
    BY IdxType DEF QueueType
  <2> QED
    BY <1>2, <2>1, <2>2 DEF Valid
<1> QED
  BY <1>1, <1>3, <1>4

\* Emptying a slot disturbs nothing but the rest position of rdSeq.
LEMMA EmptiedFacts ==
  ASSUME NEW C, NEW q \in QueueType(C), Windowed(q), NEW s \in Nat
  PROVE  LET p == Emptied(q, s) IN
         /\ p \in QueueType(C) /\ Scannable(p) /\ CursorsAgree(p)
         /\ p.wrSeq < p.rdSeq + SlotCount => ~Valid(p, p.wrSeq)
<1> DEFINE p == Emptied(q, s)
<1>1. p \in QueueType(C)
  BY TypeEmptied
<1>2. /\ p.rdSeq = q.rdSeq /\ p.wrSeq = q.wrSeq /\ p.rdMin = q.rdMin
      /\ p.rdMax = q.rdMax /\ p.wrMin = q.wrMin /\ p.wrMax = q.wrMax
      /\ p.valid = [q.valid EXCEPT ![Idx(s)] = FALSE]
  BY DEF QueueType, Emptied
<1>3. Scannable(p) /\ CursorsAgree(p)
  BY <1>2, WindowedScannable DEF Windowed, CursorsAgree, Scannable
<1>4. ASSUME p.wrSeq < p.rdSeq + SlotCount PROVE ~Valid(p, p.wrSeq)
  <2>1. ~Valid(q, q.wrSeq)
    BY <1>2, <1>4 DEF Windowed, CursorsAtRest
  <2>2. q.valid \in [Slots -> BOOLEAN] /\ Idx(q.wrSeq) \in Slots
    BY IdxType DEF QueueType
  <2> QED
    BY <1>2, <2>1, <2>2 DEF Valid
<1> QED
  BY <1>1, <1>3, <1>4

\* cqPush keeps the shape of the window: it changes contents only.
LEMMA PushKeepsWindow ==
  ASSUME NEW C, NEW q \in QueueType(C), Windowed(q), NEW s \in Nat, NEW d,
         NEW n \in Nat, \A k \in Nat : Prefix(d, k) \in C
  PROVE  /\ cqPush(q, s, d, n) \in QueueType(C)
         /\ Windowed(cqPush(q, s, d, n))
         /\ cqPush(q, s, d, n).len = q.len
<1> DEFINE p == cqPush(q, s, d, n)
<1>1. p \in QueueType(C)
  BY TypePushed
<1>2. /\ p.rdSeq = q.rdSeq /\ p.wrSeq = q.wrSeq /\ p.rdMin = q.rdMin
      /\ p.rdMax = q.rdMax /\ p.wrMin = q.wrMin /\ p.wrMax = q.wrMax
      /\ p.valid = q.valid /\ p.len = q.len
  BY DEF QueueType, cqPush
<1> QED
  BY <1>1, <1>2
  DEF Windowed, CursorsAgree, WriteCursorInWindow, CursorsAtRest, Valid

\* cqCommitSlot keeps the shape of the window, and does not panic over a
\* length the slot has room for.
LEMMA CommitKeepsWindow ==
  ASSUME NEW C, NEW q \in QueueType(C), Windowed(q), NEW s \in Nat, NEW n \in Nat
  PROVE  /\ cqCommitSlot(q, s, n) \in QueueType(C)
         /\ Windowed(cqCommitSlot(q, s, n))
         /\ cqCommitSlotErr(q, s, n) \in
              {"cqENOERR", "cqENOCHANGE", "cqEWRONGSLOT", "cqEPANIC",
               "cqERANGELO", "cqERANGEHI"}
         /\ n <= q.len[Idx(s)] => cqCommitSlotErr(q, s, n) # "cqEPANIC"
<1> DEFINE r == CommitRefusal(q, s, n)
<1>1. r \in {"cqENOERR", "cqEWRONGSLOT", "cqEPANIC", "cqERANGELO", "cqERANGEHI"}
  BY DEF CommitRefusal, cqGetErr, InRange
<1>2. n <= q.len[Idx(s)] => r # "cqEPANIC"
  <2>1. q.len[Idx(s)] \in Nat
    BY IdxType DEF QueueType
  <2> QED
    BY <2>1 DEF CommitRefusal, cqGetErr, InRange
<1>3. CASE r # "cqENOERR"
  <2>1. cqCommitSlot(q, s, n) = q /\ cqCommitSlotErr(q, s, n) = r
    BY <1>3 DEF cqCommitSlot, cqCommitSlotErr
  <2> HIDE DEF r
  <2> QED
    BY <1>1, <1>2, <2>1
<1>4. CASE r = "cqENOERR"
  <2>1. /\ cqCommitSlot(q, s, n) = cqAdvWrSeq(Filled(q, s, n))
        /\ cqCommitSlotErr(q, s, n) = cqAdvWrSeqErr(Filled(q, s, n))
    BY <1>4 DEF cqCommitSlot, cqCommitSlotErr
  <2>2. /\ cqAdvWrSeq(Filled(q, s, n)) \in QueueType(C)
        /\ Windowed(cqAdvWrSeq(Filled(q, s, n)))
        /\ cqAdvWrSeqErr(Filled(q, s, n)) \in {"cqENOERR", "cqENOCHANGE"}
    BY FilledFacts, AdvWr
  <2> QED
    BY <2>1, <2>2
<1> QED
  BY <1>3, <1>4

\* cqReleaseSlot keeps the shape of the window and never panics.
LEMMA ReleaseKeepsWindow ==
  ASSUME NEW C, NEW q \in QueueType(C), Windowed(q), NEW s \in Nat
  PROVE  /\ cqReleaseSlot(q, s) \in QueueType(C)
         /\ Windowed(cqReleaseSlot(q, s))
         /\ cqReleaseSlotErr(q, s) \in
              {"cqENOERR", "cqENOCHANGE", "cqEWRONGSLOT", "cqERANGELO", "cqERANGEHI"}
<1> DEFINE r == cqGetRdErr(q, s)
<1>1. r \in {"cqENOERR", "cqEWRONGSLOT", "cqERANGELO", "cqERANGEHI"}
  BY DEF cqGetRdErr, cqGetErr, InRange
<1>2. CASE r # "cqENOERR"
  <2>1. cqReleaseSlot(q, s) = q /\ cqReleaseSlotErr(q, s) = r
    BY <1>2 DEF cqReleaseSlot, cqReleaseSlotErr
  <2> HIDE DEF r
  <2> QED
    BY <1>1, <2>1
<1>3. CASE r = "cqENOERR"
  <2>1. /\ cqReleaseSlot(q, s) = cqAdvRdSeq(Emptied(q, s))
        /\ cqReleaseSlotErr(q, s) = cqAdvRdSeqErr(Emptied(q, s))
    BY <1>3 DEF cqReleaseSlot, cqReleaseSlotErr
  <2>2. /\ cqAdvRdSeq(Emptied(q, s)) \in QueueType(C)
        /\ Windowed(cqAdvRdSeq(Emptied(q, s)))
        /\ cqAdvRdSeqErr(Emptied(q, s)) \in {"cqENOERR", "cqENOCHANGE"}
    BY EmptiedFacts, AdvRd
  <2> QED
    BY <2>1, <2>2
<1> QED
  BY <1>2, <1>3

-----------------------------------------------------------------------------
(* What the calls do, number by number                                     *)

\* Two numbers less than a window apart have slots of their own.
LEMMA IdxDistinct ==
  ASSUME NEW s \in Nat, NEW t \in Nat, Idx(s) = Idx(t),
         s < t + SlotCount, t < s + SlotCount
  PROVE  s = t
<1>1. PICK a \in Int : s = SlotCount * a + Idx(s)
  BY IdxDiv, Zenon
<1>2. PICK b \in Int : t = SlotCount * b + Idx(t)
  BY IdxDiv, Zenon
<1>3. Idx(s) \in Nat
  BY IdxDiv, Zenon
<1>4. SlotCount * (a - b) = s - t
  <2>1. SlotCount * (a - b) = SlotCount * a - SlotCount * b
    BY SlotCountAssumption, SMT
  <2> QED
    BY <1>1, <1>2, <1>3, <2>1, SlotCountAssumption, SMT
<1>5. a - b = 0
  BY <1>4, SmallMultiple, SlotCountAssumption, SMT
<1> QED
  BY <1>4, <1>5, SlotCountAssumption, SMT

\* Changing one slot of a window changes the slot of one number in it.
LEMMA OneSlot ==
  ASSUME NEW S, NEW f \in [Slots -> S], NEW x,
         NEW s \in Nat, NEW t \in Nat, s < t + SlotCount, t < s + SlotCount
  PROVE  [f EXCEPT ![Idx(s)] = x][Idx(t)] = IF t = s THEN x ELSE f[Idx(t)]
<1>1. Idx(s) \in Slots /\ Idx(t) \in Slots
  BY IdxType
<1>2. t # s => Idx(t) # Idx(s)
  BY IdxDistinct
<1> QED
  BY <1>1, <1>2

\* cqAdvWrSeq moves the write cursor over a run of slots in use, and counts
\* once if it moved.
LEMMA AdvWrEffect ==
  ASSUME NEW C, NEW q \in QueueType(C), Scannable(q),
         NEW p, p = cqAdvWrSeq(q)
  PROVE  /\ p.rdSeq = q.rdSeq /\ p.valid = q.valid /\ p.len = q.len /\ p.buff = q.buff
         /\ p.wrSeq \in q.wrSeq .. q.rdSeq + SlotCount
         /\ \A t \in q.wrSeq .. p.wrSeq - 1 : Valid(q, t)
         /\ p.wrSeq < q.rdSeq + SlotCount => ~Valid(q, p.wrSeq)
         /\ p.wrSeq # q.wrSeq => /\ p.outstanding = q.outstanding - 1
                                 /\ p.readable = q.readable + 1
                                 /\ p.available = q.available - 1
<1> DEFINE e == WrScanEnd(q)
<1>1. /\ e \in q.wrSeq .. q.rdSeq + SlotCount
      /\ WrScanStops(q, e)
      /\ \A t \in q.wrSeq .. e - 1 : ~WrScanStops(q, t)
  BY WrScan, Zenon
<1>2. /\ q.rdSeq \in Nat /\ q.wrSeq \in Nat /\ q.rdSeq <= q.wrSeq /\ SlotCount \in Nat
  BY SlotCountAssumption DEF Scannable
<1>3. cqAdvWrSeqErr(q) = IF e = q.wrSeq THEN "cqENOCHANGE" ELSE "cqENOERR"
  BY <1>2 DEF cqAdvWrSeqErr
<1>4. /\ p.rdSeq = q.rdSeq /\ p.valid = q.valid /\ p.len = q.len /\ p.buff = q.buff
      /\ p.wrSeq = e
      /\ p.wrSeq # q.wrSeq => /\ p.outstanding = q.outstanding - 1
                              /\ p.readable = q.readable + 1
                              /\ p.available = q.available - 1
  BY <1>3 DEF cqAdvWrSeq, QueueType
<1>5. \A t \in q.wrSeq .. e - 1 : Valid(q, t)
  BY <1>1 DEF WrScanStops
<1>6. e < q.rdSeq + SlotCount => ~Valid(q, e)
  BY <1>1, <1>2 DEF WrScanStops
<1> QED
  BY <1>1, <1>4, <1>5, <1>6

\* cqAdvRdSeq moves the read cursor over a run of empty slots, and counts
\* once if it moved.
LEMMA AdvRdEffect ==
  ASSUME NEW C, NEW q \in QueueType(C), Scannable(q),
         NEW p, p = cqAdvRdSeq(q)
  PROVE  /\ p.wrSeq = q.wrSeq /\ p.valid = q.valid /\ p.len = q.len /\ p.buff = q.buff
         /\ p.outstanding = q.outstanding
         /\ p.rdSeq \in q.rdSeq .. q.wrSeq
         /\ \A t \in q.rdSeq .. p.rdSeq - 1 : ~Valid(q, t)
         /\ p.rdSeq < q.wrSeq => Valid(q, p.rdSeq)
         /\ p.rdSeq # q.rdSeq => /\ p.readable = q.readable - 1
                                 /\ p.available = q.available + 1
<1> DEFINE e == RdScanEnd(q)
<1>1. /\ e \in q.rdSeq .. q.wrSeq
      /\ RdScanStops(q, e)
      /\ \A t \in q.rdSeq .. e - 1 : ~RdScanStops(q, t)
  BY RdScan, Zenon
<1>2. /\ q.rdSeq \in Nat /\ q.wrSeq \in Nat /\ q.rdSeq <= q.wrSeq
      /\ SlotCount \in Nat /\ SlotCount > 0 /\ q.wrSeq <= q.rdSeq + SlotCount
  BY SlotCountAssumption DEF Scannable
<1>3. cqAdvRdSeqErr(q) = IF e = q.rdSeq THEN "cqENOCHANGE" ELSE "cqENOERR"
  BY <1>1, <1>2 DEF cqAdvRdSeqErr
<1>4. /\ p.wrSeq = q.wrSeq /\ p.valid = q.valid /\ p.len = q.len /\ p.buff = q.buff
      /\ p.outstanding = q.outstanding
      /\ p.rdSeq = e
      /\ p.rdSeq # q.rdSeq => /\ p.readable = q.readable - 1
                              /\ p.available = q.available + 1
  BY <1>3 DEF cqAdvRdSeq, QueueType
<1>5. \A t \in q.rdSeq .. e - 1 : ~Valid(q, t)
  BY <1>1 DEF RdScanStops
<1>6. e < q.wrSeq => Valid(q, e)
  BY <1>1, <1>2 DEF RdScanStops
<1> QED
  BY <1>1, <1>4, <1>5, <1>6

\* What a commit that is not refused makes of q: one slot filled, the write
\* cursor moved if it is the slot it stands at.
AfterCommit(q, s, n, p) ==
  /\ p.rdSeq = q.rdSeq /\ p.buff = q.buff
  /\ p.valid = [q.valid EXCEPT ![Idx(s)] = TRUE]
  /\ p.len = [q.len EXCEPT ![Idx(s)] = n]
  /\ p.wrSeq \in q.wrSeq .. q.rdSeq + SlotCount
  /\ \A t \in q.wrSeq .. p.wrSeq - 1 : Valid(p, t)
  /\ s # q.wrSeq => p.wrSeq = q.wrSeq
  /\ s = q.wrSeq => /\ p.wrSeq > q.wrSeq
                    /\ p.outstanding = q.outstanding
                    /\ p.readable = q.readable + 1
                    /\ p.available = q.available - 1

\* A commit that is not refused fills one slot.  The write cursor moves if it
\* is the slot it stands at.
LEMMA CommitEffect ==
  ASSUME NEW C, NEW q \in QueueType(C), Windowed(q), NEW s \in Nat, NEW n \in Nat,
         CommitRefusal(q, s, n) = "cqENOERR",
         NEW p, p = cqCommitSlot(q, s, n)
  PROVE  AfterCommit(q, s, n, p)
<1> DEFINE f == Filled(q, s, n)
<1>1. InRange(q, s) /\ ~Valid(q, s) /\ p = cqAdvWrSeq(f)
  <2>1. InRange(q, s) /\ ~Valid(q, s)
    BY SlotCountAssumption DEF CommitRefusal, cqGetErr, InRange, QueueType
  <2>2. p = cqAdvWrSeq(f)
    BY DEF cqCommitSlot
  <2> QED
    BY <2>1, <2>2
<1>2. f \in QueueType(C) /\ Scannable(f)
  BY FilledFacts
<1>3. /\ f.rdSeq = q.rdSeq /\ f.wrSeq = q.wrSeq /\ f.buff = q.buff
      /\ f.valid = [q.valid EXCEPT ![Idx(s)] = TRUE]
      /\ f.len = [q.len EXCEPT ![Idx(s)] = n]
      /\ f.outstanding = q.outstanding + 1
      /\ f.readable = q.readable /\ f.available = q.available
  BY DEF QueueType, Filled
<1>4. /\ q.rdSeq \in Nat /\ q.wrSeq \in Nat /\ q.rdSeq <= q.wrSeq
      /\ q.wrSeq <= q.rdSeq + SlotCount /\ SlotCount \in Nat /\ SlotCount > 0
      /\ q.outstanding \in Int /\ q.readable \in Int /\ q.available \in Int
      /\ q.valid \in [Slots -> BOOLEAN]
  BY SlotCountAssumption DEF QueueType, Windowed, WriteCursorInWindow
<1>5. /\ p.rdSeq = f.rdSeq /\ p.valid = f.valid /\ p.len = f.len /\ p.buff = f.buff
      /\ p.wrSeq \in f.wrSeq .. f.rdSeq + SlotCount
      /\ \A t \in f.wrSeq .. p.wrSeq - 1 : Valid(f, t)
      /\ p.wrSeq < f.rdSeq + SlotCount => ~Valid(f, p.wrSeq)
      /\ p.wrSeq # f.wrSeq => /\ p.outstanding = f.outstanding - 1
                              /\ p.readable = f.readable + 1
                              /\ p.available = f.available - 1
  <2> HIDE DEF f
  <2> QED
    BY <1>1, <1>2, AdvWrEffect, Zenon
<1> HIDE DEF f
<1>6. \A t \in q.wrSeq .. p.wrSeq - 1 : Valid(p, t)
  BY <1>3, <1>5 DEF Valid
<1>7. ASSUME s # q.wrSeq PROVE p.wrSeq = q.wrSeq
  <2>1. SUFFICES ASSUME p.wrSeq # q.wrSeq PROVE FALSE
    OBVIOUS
  <2>2. Valid(f, q.wrSeq) /\ q.wrSeq < q.rdSeq + SlotCount
    BY <1>3, <1>4, <1>5, <2>1
  <2>3. ~Valid(q, q.wrSeq)
    BY <2>2 DEF Windowed, CursorsAtRest
  <2>4. s < q.wrSeq + SlotCount /\ q.wrSeq < s + SlotCount
    BY <1>1, <1>4, <2>2 DEF InRange
  <2>5. f.valid[Idx(q.wrSeq)] = q.valid[Idx(q.wrSeq)]
    <3>1. Idx(s) # Idx(q.wrSeq)
      BY <1>4, <1>7, <2>4, IdxDistinct
    <3> QED
      BY <1>3, <1>4, <3>1, IdxType
  <2> QED
    BY <2>2, <2>3, <2>5 DEF Valid
<1>8. ASSUME s = q.wrSeq PROVE p.wrSeq > q.wrSeq
  <2>1. q.wrSeq < q.rdSeq + SlotCount
    BY <1>1, <1>8 DEF InRange
  <2>2. Valid(f, q.wrSeq)
    BY <1>3, <1>4, <1>8, IdxType DEF Valid
  <2> QED
    BY <1>3, <1>4, <1>5, <2>1, <2>2
<1> QED
  BY <1>3, <1>4, <1>5, <1>6, <1>7, <1>8 DEF AfterCommit

\* What a release that is not refused makes of q: one slot emptied, the read
\* cursor moved if it is the slot it stands at.
AfterRelease(q, s, p) ==
  /\ p.wrSeq = q.wrSeq /\ p.buff = q.buff
  /\ p.valid = [q.valid EXCEPT ![Idx(s)] = FALSE]
  /\ p.len = [q.len EXCEPT ![Idx(s)] = SlotSize]
  /\ p.outstanding = q.outstanding
  /\ p.rdSeq \in q.rdSeq .. q.wrSeq
  /\ \A t \in q.rdSeq .. p.rdSeq - 1 : ~Valid(p, t)
  /\ s # q.rdSeq => p.rdSeq = q.rdSeq
  /\ s = q.rdSeq => /\ p.rdSeq > q.rdSeq
                    /\ p.readable = q.readable - 1
                    /\ p.available = q.available + 1

\* A release that is not refused empties one slot.  The read cursor moves if
\* it is the slot it stands at.
LEMMA ReleaseEffect ==
  ASSUME NEW C, NEW q \in QueueType(C), Windowed(q), NEW s \in Nat,
         cqGetRdErr(q, s) = "cqENOERR",
         NEW p, p = cqReleaseSlot(q, s)
  PROVE  AfterRelease(q, s, p)
<1> DEFINE f == Emptied(q, s)
<1>1. InRange(q, s) /\ Valid(q, s) /\ p = cqAdvRdSeq(f)
  <2>1. InRange(q, s) /\ Valid(q, s)
    BY SlotCountAssumption DEF cqGetRdErr, cqGetErr, InRange, QueueType
  <2>2. p = cqAdvRdSeq(f)
    BY DEF cqReleaseSlot
  <2> QED
    BY <2>1, <2>2
<1>2. f \in QueueType(C) /\ Scannable(f)
  BY EmptiedFacts
<1>3. /\ f.rdSeq = q.rdSeq /\ f.wrSeq = q.wrSeq /\ f.buff = q.buff
      /\ f.valid = [q.valid EXCEPT ![Idx(s)] = FALSE]
      /\ f.len = [q.len EXCEPT ![Idx(s)] = SlotSize]
      /\ f.outstanding = q.outstanding
      /\ f.readable = q.readable /\ f.available = q.available
  BY DEF QueueType, Emptied
<1>4. /\ q.rdSeq \in Nat /\ q.wrSeq \in Nat /\ q.rdSeq <= q.wrSeq
      /\ q.wrSeq <= q.rdSeq + SlotCount /\ SlotCount \in Nat /\ SlotCount > 0
      /\ q.readable \in Int /\ q.available \in Int
      /\ q.valid \in [Slots -> BOOLEAN]
  BY SlotCountAssumption DEF QueueType, Windowed, WriteCursorInWindow
<1>5. /\ p.wrSeq = f.wrSeq /\ p.valid = f.valid /\ p.len = f.len /\ p.buff = f.buff
      /\ p.outstanding = f.outstanding
      /\ p.rdSeq \in f.rdSeq .. f.wrSeq
      /\ \A t \in f.rdSeq .. p.rdSeq - 1 : ~Valid(f, t)
      /\ p.rdSeq < f.wrSeq => Valid(f, p.rdSeq)
      /\ p.rdSeq # f.rdSeq => /\ p.readable = f.readable - 1
                              /\ p.available = f.available + 1
  <2> HIDE DEF f
  <2> QED
    BY <1>1, <1>2, AdvRdEffect, Zenon
<1> HIDE DEF f
<1>6. \A t \in q.rdSeq .. p.rdSeq - 1 : ~Valid(p, t)
  BY <1>3, <1>5 DEF Valid
<1>7. ASSUME s # q.rdSeq PROVE p.rdSeq = q.rdSeq
  <2>1. SUFFICES ASSUME p.rdSeq # q.rdSeq PROVE FALSE
    OBVIOUS
  <2>2. ~Valid(f, q.rdSeq) /\ q.rdSeq < q.wrSeq
    BY <1>3, <1>4, <1>5, <2>1
  <2>3. Valid(q, q.rdSeq)
    BY <2>2 DEF Windowed, CursorsAtRest
  <2>4. s < q.rdSeq + SlotCount /\ q.rdSeq < s + SlotCount
    BY <1>1, <1>4 DEF InRange
  <2>5. f.valid[Idx(q.rdSeq)] = q.valid[Idx(q.rdSeq)]
    <3>1. Idx(s) # Idx(q.rdSeq)
      BY <1>4, <1>7, <2>4, IdxDistinct
    <3> QED
      BY <1>3, <1>4, <3>1, IdxType
  <2> QED
    BY <2>2, <2>3, <2>5 DEF Valid
<1>8. ASSUME s = q.rdSeq PROVE p.rdSeq > q.rdSeq
  <2>1. q.rdSeq < q.wrSeq
    BY <1>1, <1>4, <1>8 DEF Windowed, CursorsAtRest
  <2>2. ~Valid(f, q.rdSeq)
    BY <1>3, <1>4, <1>8, IdxType DEF Valid
  <2> QED
    BY <1>3, <1>4, <1>5, <2>1, <2>2
<1> QED
  BY <1>3, <1>4, <1>5, <1>6, <1>7, <1>8 DEF AfterRelease

-----------------------------------------------------------------------------
(* What the owners of a queue build on                                     *)

\* No number between the cursors is missing.
NoHoles(q) == \A t \in q.rdSeq .. q.wrSeq - 1 : Valid(q, t)

\* Nothing is held at or after the write cursor.
TailFree(q) == \A t \in q.wrSeq .. q.rdSeq + SlotCount - 1 : ~Valid(q, t)

\* The cursors and the counters of a queue are numbers.
LEMMA Numbers ==
  ASSUME NEW C, NEW q \in QueueType(C), Windowed(q)
  PROVE  /\ q.rdSeq \in Nat /\ q.wrSeq \in Nat /\ q.rdSeq <= q.wrSeq
         /\ q.wrSeq <= q.rdSeq + SlotCount /\ SlotCount \in Nat /\ SlotCount > 0
         /\ q.outstanding \in Int /\ q.readable \in Int /\ q.available \in Int
         /\ q.valid \in [Slots -> BOOLEAN] /\ q.len \in [Slots -> Nat]
         /\ q.buff \in [Slots -> C]
  BY SlotCountAssumption DEF QueueType, Windowed, WriteCursorInWindow

\* A number that can be released has been passed by the write cursor, when it
\* is the one at the read cursor.
LEMMA ReleasedIsBehind ==
  ASSUME NEW C, NEW q \in QueueType(C), Windowed(q), Valid(q, q.rdSeq)
  PROVE  q.rdSeq < q.wrSeq
  BY Numbers DEF Windowed, CursorsAtRest

\* A slot is as it was, or the one that changed.
LEMMA ValidOrSet ==
  ASSUME NEW v \in [Slots -> BOOLEAN], NEW s \in Nat, NEW t \in Nat, NEW b,
         NEW w, w = [v EXCEPT ![Idx(s)] = b]
  PROVE  w[Idx(t)] = v[Idx(t)] \/ w[Idx(t)] = b
  BY IdxType, Zenon

\* A commit makes no hole.
LEMMA CommitKeepsNoHoles ==
  ASSUME NEW C, NEW q \in QueueType(C), Windowed(q), NEW s \in Nat, NEW n \in Nat,
         NEW p, p = cqCommitSlot(q, s, n), NoHoles(q)
  PROVE  NoHoles(p)
<1>1. CASE CommitRefusal(q, s, n) # "cqENOERR"
  BY <1>1 DEF cqCommitSlot
<1>2. CASE CommitRefusal(q, s, n) = "cqENOERR"
  <2>1. /\ p.rdSeq = q.rdSeq
        /\ p.valid = [q.valid EXCEPT ![Idx(s)] = TRUE]
        /\ p.wrSeq \in q.wrSeq .. q.rdSeq + SlotCount
        /\ \A t \in q.wrSeq .. p.wrSeq - 1 : Valid(p, t)
    <3>1. AfterCommit(q, s, n, p)
      BY <1>2, CommitEffect, Zenon
    <3> QED
      BY <3>1 DEF AfterCommit
  <2>2. \A t \in q.rdSeq .. q.wrSeq - 1 : Valid(p, t)
    <3> SUFFICES ASSUME NEW t \in q.rdSeq .. q.wrSeq - 1 PROVE Valid(p, t)
      OBVIOUS
    <3>1. t \in Nat /\ Idx(t) \in Slots
      BY Numbers, IdxType
    <3>2. p.valid[Idx(t)] = q.valid[Idx(t)] \/ p.valid[Idx(t)] = TRUE
      <4>1. q.valid \in [Slots -> BOOLEAN]
        BY Numbers
      <4> QED
        BY <2>1, <3>1, <4>1, ValidOrSet, Zenon
    <3> QED
      BY <3>2 DEF Valid, NoHoles
  <2> QED
    BY <2>1, <2>2, Numbers DEF NoHoles
<1> QED
  BY <1>1, <1>2

\* Releasing the number at the read cursor moves it by one, when there is no
\* hole, and makes none.
LEMMA ReleaseKeepsNoHoles ==
  ASSUME NEW C, NEW q \in QueueType(C), Windowed(q),
         cqGetRdErr(q, q.rdSeq) = "cqENOERR",
         NEW p, p = cqReleaseSlot(q, q.rdSeq), NoHoles(q)
  PROVE  NoHoles(p) /\ p.rdSeq = q.rdSeq + 1
<1> DEFINE s == q.rdSeq
<1>1. /\ p.wrSeq = q.wrSeq
      /\ p.valid = [q.valid EXCEPT ![Idx(s)] = FALSE]
      /\ p.rdSeq \in q.rdSeq .. q.wrSeq
      /\ \A t \in q.rdSeq .. p.rdSeq - 1 : ~Valid(p, t)
      /\ p.rdSeq > q.rdSeq
  <2>1. s \in Nat /\ s = q.rdSeq
    BY Numbers
  <2>2. AfterRelease(q, s, p)
    <3> HIDE DEF s
    <3> QED
      BY <2>1, ReleaseEffect, Zenon
  <2> QED
    BY <2>2 DEF AfterRelease
<1>2. \A t \in s + 1 .. q.wrSeq - 1 : Valid(p, t)
  <2> SUFFICES ASSUME NEW t \in s + 1 .. q.wrSeq - 1 PROVE Valid(p, t)
    OBVIOUS
  <2>1. t \in Nat /\ s < t + SlotCount /\ t < s + SlotCount /\ t # s
    BY Numbers
  <2>2. Idx(t) # Idx(s)
    BY <2>1, Numbers, IdxDistinct
  <2>3. Valid(q, t)
    BY Numbers DEF NoHoles
  <2>4. p.valid[Idx(t)] = q.valid[Idx(t)]
    BY <1>1, <2>1, <2>2, Numbers, IdxType
  <2> QED
    BY <2>3, <2>4 DEF Valid
<1>3. p.rdSeq = s + 1
  <2>1. SUFFICES ASSUME p.rdSeq > s + 1 PROVE FALSE
    BY <1>1, Numbers
  <2>2. s + 1 \in s + 1 .. q.wrSeq - 1 /\ s + 1 \in q.rdSeq .. p.rdSeq - 1
    BY <1>1, <2>1, Numbers
  <2> QED
    BY <1>1, <1>2, <2>2
<1> QED
  BY <1>1, <1>2, <1>3 DEF NoHoles

\* Filling the slot at the write cursor moves it by one, when nothing is held
\* after it, and leaves nothing there.
LEMMA CommitKeepsTailFree ==
  ASSUME NEW C, NEW q \in QueueType(C), Windowed(q), NEW n \in Nat,
         CommitRefusal(q, q.wrSeq, n) = "cqENOERR",
         NEW p, p = cqCommitSlot(q, q.wrSeq, n), TailFree(q)
  PROVE  TailFree(p) /\ p.wrSeq = q.wrSeq + 1
<1> DEFINE s == q.wrSeq
<1>1. /\ p.rdSeq = q.rdSeq
      /\ p.valid = [q.valid EXCEPT ![Idx(s)] = TRUE]
      /\ p.wrSeq \in q.wrSeq .. q.rdSeq + SlotCount
      /\ \A t \in q.wrSeq .. p.wrSeq - 1 : Valid(p, t)
      /\ p.wrSeq > q.wrSeq
  <2>1. s \in Nat /\ s = q.wrSeq
    BY Numbers
  <2>2. AfterCommit(q, s, n, p)
    <3> HIDE DEF s
    <3> QED
      BY <2>1, CommitEffect, Zenon
  <2> QED
    BY <2>2 DEF AfterCommit
<1>2. \A t \in s + 1 .. q.rdSeq + SlotCount - 1 : ~Valid(p, t)
  <2> SUFFICES ASSUME NEW t \in s + 1 .. q.rdSeq + SlotCount - 1 PROVE ~Valid(p, t)
    OBVIOUS
  <2>1. t \in Nat /\ s < t + SlotCount /\ t < s + SlotCount /\ t # s
    BY Numbers
  <2>2. Idx(t) # Idx(s)
    BY <2>1, Numbers, IdxDistinct
  <2>3. ~Valid(q, t)
    BY Numbers DEF TailFree
  <2>4. p.valid[Idx(t)] = q.valid[Idx(t)]
    BY <1>1, <2>1, <2>2, Numbers, IdxType
  <2> QED
    BY <2>3, <2>4 DEF Valid
<1>3. p.wrSeq = s + 1
  <2>1. SUFFICES ASSUME p.wrSeq > s + 1 PROVE FALSE
    BY <1>1, Numbers
  <2>2. /\ s + 1 \in s + 1 .. q.rdSeq + SlotCount - 1
        /\ s + 1 \in q.wrSeq .. p.wrSeq - 1
    BY <1>1, <2>1, Numbers
  <2> QED
    BY <1>1, <1>2, <2>2
<1> QED
  BY <1>1, <1>2, <1>3 DEF TailFree

\* A release, of whatever number, leaves nothing after the write cursor: the
\* numbers that come into the window take slots that were given back.
LEMMA ReleaseKeepsTailFree ==
  ASSUME NEW C, NEW q \in QueueType(C), Windowed(q), NEW s \in Nat,
         NEW p, p = cqReleaseSlot(q, s), TailFree(q)
  PROVE  TailFree(p)
<1>1. CASE cqGetRdErr(q, s) # "cqENOERR"
  BY <1>1 DEF cqReleaseSlot
<1>2. CASE cqGetRdErr(q, s) = "cqENOERR"
  <2>1. /\ p.wrSeq = q.wrSeq
        /\ p.valid = [q.valid EXCEPT ![Idx(s)] = FALSE]
        /\ p.rdSeq \in q.rdSeq .. q.wrSeq
        /\ \A t \in q.rdSeq .. p.rdSeq - 1 : ~Valid(p, t)
    <3>1. AfterRelease(q, s, p)
      BY <1>2, ReleaseEffect, Zenon
    <3> QED
      BY <3>1 DEF AfterRelease
  <2>2. SUFFICES ASSUME NEW t \in p.wrSeq .. p.rdSeq + SlotCount - 1, Valid(p, t)
                 PROVE  FALSE
    BY DEF TailFree
  <2>3. CASE t < q.rdSeq + SlotCount
    <3>1. t \in q.wrSeq .. q.rdSeq + SlotCount - 1 /\ t \in Nat
      BY <2>1, <2>3, Numbers
    <3>2. ~Valid(q, t)
      BY <3>1 DEF TailFree
    <3>3. p.valid[Idx(t)] = q.valid[Idx(t)] \/ ~p.valid[Idx(t)]
      <4>1. q.valid \in [Slots -> BOOLEAN] /\ p.valid = [q.valid EXCEPT ![Idx(s)] = FALSE]
        BY <2>1, Numbers
      <4>2. Idx(t) \in Slots /\ t \in Nat
        BY <3>1, IdxType
      <4> QED
        BY <4>1, <4>2, Zenon
    <3> QED
      BY <2>2, <3>2, <3>3 DEF Valid
  <2>4. CASE t >= q.rdSeq + SlotCount
    <3>1. t - SlotCount \in q.rdSeq .. p.rdSeq - 1 /\ t - SlotCount \in Nat
      BY <2>1, <2>4, Numbers
    <3>2. Idx(t) = Idx(t - SlotCount)
      <4>1. \A k \in Nat : Idx(k + SlotCount) = Idx(k)
        BY IdxPeriod
      <4>2. (t - SlotCount) + SlotCount = t
        BY <3>1, Numbers
      <4> QED
        BY <3>1, <4>1, <4>2, Zenon
    <3> QED
      BY <2>1, <2>2, <3>1, <3>2 DEF Valid
  <2>5. t \in Int
    BY <2>1, Numbers
  <2> QED
    BY <2>3, <2>4, <2>5, Numbers
<1> QED
  BY <1>1, <1>2

\* q and p differ in what the slots hold at most.
SameWindow(q, p) ==
  /\ p.rdSeq = q.rdSeq /\ p.wrSeq = q.wrSeq
  /\ p.rdMin = q.rdMin /\ p.rdMax = q.rdMax /\ p.wrMin = q.wrMin /\ p.wrMax = q.wrMax
  /\ p.readable = q.readable /\ p.available = q.available
  /\ p.outstanding = q.outstanding
  /\ p.valid = q.valid /\ p.len = q.len

\* What the slots hold decides nothing.
LEMMA SameWindowFacts ==
  ASSUME NEW q, NEW p, SameWindow(q, p)
  PROVE  /\ Windowed(p) <=> Windowed(q)
         /\ NoHoles(p) <=> NoHoles(q)
         /\ TailFree(p) <=> TailFree(q)
         /\ \A s : Valid(p, s) <=> Valid(q, s)
         /\ \A s : cqGetRdErr(p, s) = cqGetRdErr(q, s)
         /\ \A s, n : CommitRefusal(p, s, n) = CommitRefusal(q, s, n)
<1>1. \A s : Valid(p, s) <=> Valid(q, s)
  BY DEF SameWindow, Valid
<1>2. Windowed(p) <=> Windowed(q)
  BY <1>1 DEF SameWindow, Windowed, CursorsAgree, WriteCursorInWindow, CursorsAtRest
<1>3. (NoHoles(p) <=> NoHoles(q)) /\ (TailFree(p) <=> TailFree(q))
  BY <1>1 DEF SameWindow, NoHoles, TailFree
<1>4. \A s : InRange(p, s) = InRange(q, s) /\ cqGetErr(p, s) = cqGetErr(q, s)
  BY DEF SameWindow, InRange, cqGetErr
<1>5. \A s : cqGetRdErr(p, s) = cqGetRdErr(q, s)
  BY <1>1, <1>4 DEF cqGetRdErr
<1>6. \A s, n : CommitRefusal(p, s, n) = CommitRefusal(q, s, n)
  BY <1>1, <1>4 DEF CommitRefusal, SameWindow
<1> QED
  BY <1>1, <1>2, <1>3, <1>5, <1>6

\* cqPush changes contents only.
LEMMA PushEffect ==
  ASSUME NEW C, NEW q \in QueueType(C), NEW s, NEW d, NEW n,
         NEW p, p = cqPush(q, s, d, n)
  PROVE  SameWindow(q, p)
  BY DEF QueueType, cqPush, SameWindow

\* What was pushed can be committed.
LEMMA PushedCommits ==
  ASSUME NEW C, NEW q \in QueueType(C), NEW s \in Nat, NEW n \in Nat,
         cqPushErr(q, s, n) \in {"cqENOERR", "cqETRUNC"}
  PROVE  CommitRefusal(q, s, cqPushLen(q, s, n)) = "cqENOERR"
<1>1. InRange(q, s) /\ ~Valid(q, s)
  BY DEF cqPushErr
<1>2. q.len[Idx(s)] \in Nat
  BY IdxType DEF QueueType
<1>3. ~(cqPushLen(q, s, n) > q.len[Idx(s)])
  BY <1>2 DEF cqPushLen, Lesser
<1> QED
  BY <1>1, <1>3 DEF CommitRefusal
=============================================================================
