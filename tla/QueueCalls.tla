----------------------------- MODULE QueueCalls -----------------------------
(***************************************************************************)
(* One circular queue under the calls its owners make, one action per      *)
(* call, at any sequence number and in any order.                          *)
(***************************************************************************)
EXTENDS CircularQueue

CONSTANTS
  Payloads,   \* what callers store
  Lengths,    \* the byte counts they store or ask for
  MaxSeq,     \* bound: no write at or after this sequence number
  MaxOutstanding  \* bound on cq.outstanding under Spec, where a number can be
              \* written again behind wrSeq and the counter only grows

ASSUME LengthsAssumption == Lengths \subseteq Nat
ASSUME MaxSeqAssumption == MaxSeq \in Nat
ASSUME MaxOutstandingAssumption == MaxOutstanding \in Nat

VARIABLES
  cq,   \* the queue
  ret   \* what the last call returned: its code, the bytes it was asked
        \* to move and the bytes it moved

vars == <<cq, ret>>

Returned(err, asked, moved) == [err |-> err, asked |-> asked, moved |-> moved]

Init == cq = cqNew /\ ret = Returned("cqENOERR", 0, 0)

\* cqPush and, unless it refused, cqCommitSlot with the length it copied: the
\* way etcpOnRxDat, pushSackEthPacket and doEtcpUserTx fill a slot.  A
\* truncated copy is committed like a full one.
Write(s, d, n) ==
  LET e == cqPushErr(cq, s, n)
      k == cqPushLen(cq, s, n)
      q == cqPush(cq, s, d, n)
  IN IF e \in {"cqENOERR", "cqETRUNC"}
     THEN /\ cq' = cqCommitSlot(q, s, k)
          /\ ret' = Returned(IF e = "cqETRUNC" THEN e
                             ELSE cqCommitSlotErr(q, s, k), n, k)
     ELSE /\ cq' = cq
          /\ ret' = Returned(e, n, 0)

\* A reader takes n bytes of what slot s holds; the queue is not changed.
Pull(s, n) ==
  LET e == cqPullErr(cq, s)
  IN /\ cq' = cq
     /\ ret' = IF e = "cqENOERR"
               THEN Returned(e, cq.len[Idx(s)], cqPullLen(cq, s, n))
               ELSE Returned(e, 0, 0)

Release(s) ==
  /\ cq' = cqReleaseSlot(cq, s)
  /\ ret' = Returned(cqReleaseSlotErr(cq, s), 0, 0)

SeqNums == 0 .. MaxSeq - 1

AnyWrite ==
  \E s \in SeqNums, d \in Payloads, n \in Lengths :
    cq.outstanding < MaxOutstanding /\ Write(s, d, n)

AnyPull == \E s \in SeqNums, n \in Lengths : Pull(s, n)

AnyRelease == \E s \in SeqNums : Release(s)

Next == AnyWrite \/ AnyPull \/ AnyRelease

Spec == Init /\ [][Next]_vars

-----------------------------------------------------------------------------
(* Type                                                                    *)

\* The queue is a record of the fields of cq_t, the last result one of
\* cqError_t with two byte counts.
TypeOK ==
  /\ cq \in QueueType({Zeroed} \cup [data : Payloads, bytes : Nat])
  /\ ret \in [ err : {"cqENOERR", "cqENOSLOT", "cqETRUNC", "cqERANGEHI",
                      "cqERANGELO", "cqEWRONGSLOT", "cqEPANIC", "cqENOCHANGE"},
               asked : Nat, moved : Nat ]

-----------------------------------------------------------------------------
(* Properties of every use                                                 *)

\* The two cursors and the four copies of them that the callers read stay in
\* the order CircularQueue.h:24-27 draws, RD <= WR <= WR_Max = RD + Sz, and no
\* cursor is left short of where cqAdvWrSeq and cqAdvRdSeq would take it,
\* whatever calls were made in whatever order.
WindowInv == Windowed(cq)

\* The loops over rdMin .. rdMax - 1 in generateAcks, doEtcpNetTx,
\* doEtcpUserRx and the transmission control functions stop with an error at
\* an out-of-range answer of cqGet: they never get one, although rdMax may be
\* one past wrSeq.
ReadLoopSafe ==
  \A s \in cq.rdMin .. cq.rdMax - 1 : cqGetErr(cq, s) = "cqENOERR"

\* CircularQueue.h:34 of a slot's len: "this is a constant, and should not be
\* altered"; at least no empty slot may offer more bytes than it has.
CapacityKept == \A i \in Slots : ~cq.valid[i] => cq.len[i] = SlotDataSize

\* CircularQueue.h:71: cqETRUNC is the answer when a copy was cut short.
TruncationReported == ret.moved < ret.asked => ret.err = "cqETRUNC"
=============================================================================
