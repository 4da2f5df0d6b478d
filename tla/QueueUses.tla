----------------------------- MODULE QueueUses -----------------------------
(***************************************************************************)
(* The three ways the code uses a circular queue:                          *)
(*   "rx"    the receive window (rxQ of a connection), written at any      *)
(*           number in the window, released from its first number on;      *)
(*   "tx"    the transmit window (txQ of a connection), written at wrSeq   *)
(*           only, released in the order the acknowledgements come;        *)
(*   "fifo"  first in, first out (listenQ, the unit tests), written at     *)
(*           wrSeq, released at rdSeq.                                     *)
(***************************************************************************)
EXTENDS QueueCalls

VARIABLE use   \* which of the three this queue is for; it never changes

usesVars == <<cq, ret, use>>

\* Seeded fault: the number after the next one.
WriteAfterNext(d, n) == Write(cq.wrSeq + 1, d, n)

WriteNext(d, n) == Write(cq.wrSeq, d, n)

\* doEtcpUserRx stops at the first number that holds nothing.
ReleaseNext ==
  /\ cqGetRdErr(cq, cq.rdSeq) = "cqENOERR"
  /\ Release(cq.rdSeq)

\* etcpOnRxDat drops what is below the window before it reaches the queue.
WindowWrite ==
  \E s \in SeqNums, d \in Payloads, n \in Lengths :
    s >= cq.rdMin /\ Write(s, d, n)

InOrderWrite ==
  \E d \in Payloads, n \in Lengths : cq.wrSeq < MaxSeq /\ WriteNext(d, n)

\* Readers look at numbers of the window only.
WindowPull == \E s \in SeqNums, n \in Lengths : s >= cq.rdMin /\ Pull(s, n)

RxNext   == WindowWrite \/ WindowPull \/ ReleaseNext
TxNext   == InOrderWrite \/ WindowPull \/ AnyRelease
FifoNext == InOrderWrite \/ WindowPull \/ ReleaseNext

UsesInit == Init /\ use \in {"rx", "tx", "fifo"}

UsesNext ==
  /\ \/ use = "rx" /\ RxNext
     \/ use = "tx" /\ TxNext
     \/ use = "fifo" /\ FifoNext
  /\ UNCHANGED use

UsesSpec == UsesInit /\ [][UsesNext]_usesVars

-----------------------------------------------------------------------------

\* cqAdvRdSeq:159-161 ("This should never happen. Panic!") and the panics of
\* cqAdvWrSeq and cqCommitSlot do not happen in the three ways the code uses
\* a queue; nor does cqPush's, which a number below the window would cause.
NoPanic == ret.err # "cqEPANIC"

\* Released at rdSeq only, a queue has no hole between its cursors: the reader,
\* who takes numbers one by one from rdSeq, meets none before wrSeq.
Gapless ==
  use # "tx" => \A s \in cq.rdSeq .. cq.wrSeq - 1 : Valid(cq, s)

\* Nor does rdSeq ever jump over a number: each was released by a call of its
\* own, so nothing that arrived is left behind undelivered.
ReadsEveryNumber ==
  [][use # "tx" => cq'.rdSeq \in {cq.rdSeq, cq.rdSeq + 1}]_usesVars

\* Written in order, a queue has nothing at or after wrSeq: the slot the next
\* packet is given, whose number it is stamped with before the commit, is
\* empty, however the acknowledgements left the window behind it.
TailEmpty ==
  use # "rx" => \A s \in cq.wrSeq .. cq.rdSeq + SlotCount - 1 : ~Valid(cq, s)

\* With in-order writes and reads the three counters are the sizes their
\* names promise, although each call changes them by one at most.
CountersExact ==
  use = "fifo" =>
    /\ cq.readable = cq.wrSeq - cq.rdSeq
    /\ cq.available = SlotCount - cq.readable
    /\ cq.outstanding = 0
=============================================================================
