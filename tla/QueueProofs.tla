---------------------------- MODULE QueueProofs ----------------------------
(***************************************************************************)
(* Theorems about one circular queue under its callers, for every number   *)
(* of slots, every slot size, every set of payloads and every bound.       *)
(***************************************************************************)
EXTENDS QueueUses, QueueRefinesWindow, QueueLemmas

Contents == {Zeroed} \cup [data : Payloads, bytes : Nat]

QInv == cq \in QueueType(Contents) /\ Windowed(cq)

RetType ==
  [ err : {"cqENOERR", "cqENOSLOT", "cqETRUNC", "cqERANGEHI",
           "cqERANGELO", "cqEWRONGSLOT", "cqEPANIC", "cqENOCHANGE"},
    asked : Nat, moved : Nat ]

\* The type invariant is that of the queue and that of the last result.
LEMMA TypeSplit == TypeOK <=> cq \in QueueType(Contents) /\ ret \in RetType
  BY DEF TypeOK, Contents, RetType

\* What cqPush stores is a content a slot may have.
LEMMA PrefixType == ASSUME NEW d \in Payloads PROVE \A k \in Nat : Prefix(d, k) \in Contents
  BY DEF Prefix, Contents

\* A queue that cqNew made has its type and the shape of a window.
LEMMA InitInv == Init => TypeOK /\ WindowInv
<1> SUFFICES ASSUME Init PROVE TypeOK /\ WindowInv
  OBVIOUS
<1>1. cq = cqNew /\ ret = [err |-> "cqENOERR", asked |-> 0, moved |-> 0]
  BY DEF Init, Returned
<1>2. ret \in RetType
  BY <1>1 DEF RetType
<1>3. cq \in QueueType(Contents)
  BY <1>1, SlotCountAssumption, SlotDataSizeAssumption DEF cqNew, QueueType, Contents
<1>4. Windowed(cq)
  <2>1. /\ cq.rdSeq = 0 /\ cq.wrSeq = 0 /\ cq.rdMin = 0 /\ cq.rdMax = 0
        /\ cq.wrMin = 0 /\ cq.wrMax = SlotCount
        /\ cq.valid = [i \in Slots |-> FALSE]
    BY <1>1 DEF cqNew
  <2>2. ~Valid(cq, 0)
    BY <2>1, IdxType DEF Valid
  <2> QED
    BY <2>1, <2>2, SlotCountAssumption
    DEF Windowed, CursorsAgree, WriteCursorInWindow, CursorsAtRest
<1> QED
  BY <1>2, <1>3, <1>4, TypeSplit DEF WindowInv

\* The copied length never exceeds what the slot says it has room for.
LEMMA PushLenBound ==
  ASSUME NEW C, NEW q \in QueueType(C), NEW s \in Nat, NEW n \in Nat
  PROVE  cqPushLen(q, s, n) \in Nat /\ cqPushLen(q, s, n) <= q.len[Idx(s)]
<1>1. q.len[Idx(s)] \in Nat
  BY IdxType DEF QueueType
<1> QED
  BY <1>1 DEF cqPushLen, Lesser

\* A write keeps the invariant, and panics only below the window.
LEMMA WriteStep ==
  ASSUME TypeOK, WindowInv, NEW s \in Nat, NEW d \in Payloads, NEW n \in Nat,
         Write(s, d, n)
  PROVE  /\ TypeOK' /\ WindowInv'
         /\ s >= cq.rdSeq => ret'.err # "cqEPANIC"
<1> DEFINE e == cqPushErr(cq, s, n)
<1> DEFINE k == cqPushLen(cq, s, n)
<1> DEFINE q == cqPush(cq, s, d, n)
<1>0. cq \in QueueType(Contents) /\ Windowed(cq)
  BY TypeSplit DEF WindowInv
<1>1. /\ e \in {"cqENOERR", "cqETRUNC", "cqENOSLOT", "cqEPANIC"}
      /\ s >= cq.rdSeq => e # "cqEPANIC"
  BY <1>0 DEF cqPushErr, QueueType
<1>2. k \in Nat /\ k <= cq.len[Idx(s)]
  BY <1>0, PushLenBound
<1>3. q \in QueueType(Contents) /\ Windowed(q) /\ q.len = cq.len
  BY <1>0, PrefixType, PushKeepsWindow
<1>4. CASE e \in {"cqENOERR", "cqETRUNC"}
  <2>1. /\ cq' = cqCommitSlot(q, s, k)
        /\ ret' = Returned(IF e = "cqETRUNC" THEN e ELSE cqCommitSlotErr(q, s, k), n, k)
    BY <1>4 DEF Write
  <2>2. /\ cqCommitSlot(q, s, k) \in QueueType(Contents)
        /\ Windowed(cqCommitSlot(q, s, k))
        /\ cqCommitSlotErr(q, s, k) \in
             {"cqENOERR", "cqENOCHANGE", "cqEWRONGSLOT", "cqERANGELO", "cqERANGEHI"}
    <3> HIDE DEF q, k
    <3> QED
      BY <1>2, <1>3, CommitKeepsWindow
  <2>3. ret' \in RetType /\ ret'.err # "cqEPANIC"
    <3> HIDE DEF q, k, e
    <3> QED
      BY <1>2, <2>1, <2>2 DEF Returned, RetType
  <2>4. cq' \in QueueType(Contents) /\ Windowed(cq')
    BY <2>1, <2>2
  <2> QED
    BY <2>3, <2>4, TypeSplit, TypeSplit' DEF WindowInv, TypeOK, Contents, RetType
<1>5. CASE e \notin {"cqENOERR", "cqETRUNC"}
  <2>1. cq' = cq /\ ret' = Returned(e, n, 0)
    BY <1>5 DEF Write
  <2>2. ret' \in RetType /\ (s >= cq.rdSeq => ret'.err # "cqEPANIC")
    <3> HIDE DEF e
    <3> QED
      BY <1>1, <2>1 DEF Returned, RetType
  <2> QED
    BY <1>0, <2>1, <2>2 DEF WindowInv, TypeOK, Contents, RetType
<1> QED
  BY <1>4, <1>5

\* A read keeps the invariant, and panics only below the window.
LEMMA PullStep ==
  ASSUME TypeOK, WindowInv, NEW s \in Nat, NEW n \in Nat, Pull(s, n)
  PROVE  /\ TypeOK' /\ WindowInv'
         /\ s >= cq.rdSeq => ret'.err # "cqEPANIC"
<1> DEFINE e == cqPullErr(cq, s)
<1>0. cq \in QueueType(Contents) /\ Windowed(cq) /\ cq' = cq
  BY TypeSplit DEF WindowInv, Pull
<1>1. /\ e \in {"cqENOERR", "cqENOSLOT", "cqEPANIC"}
      /\ s >= cq.rdSeq => e # "cqEPANIC"
  BY <1>0 DEF cqPullErr, QueueType
<1>2. cq.len[Idx(s)] \in Nat /\ cqPullLen(cq, s, n) \in Nat
  BY <1>0, IdxType DEF QueueType, cqPullLen, Lesser
<1>3. ret' = IF e = "cqENOERR"
             THEN Returned(e, cq.len[Idx(s)], cqPullLen(cq, s, n))
             ELSE Returned(e, 0, 0)
  BY DEF Pull
<1>4. ret' \in RetType /\ ret'.err = e
  <2> HIDE DEF e
  <2> QED
    BY <1>1, <1>2, <1>3 DEF Returned, RetType
<1> QED
  BY <1>0, <1>1, <1>4 DEF WindowInv, TypeOK, Contents, RetType

\* A release keeps the invariant and never panics.
LEMMA ReleaseStep ==
  ASSUME TypeOK, WindowInv, NEW s \in Nat, Release(s)
  PROVE  TypeOK' /\ WindowInv' /\ ret'.err # "cqEPANIC"
<1>0. cq \in QueueType(Contents) /\ Windowed(cq)
  BY TypeSplit DEF WindowInv
<1>1. cq' = cqReleaseSlot(cq, s) /\ ret' = Returned(cqReleaseSlotErr(cq, s), 0, 0)
  BY DEF Release
<1>2. /\ cq' \in QueueType(Contents) /\ Windowed(cq')
      /\ cqReleaseSlotErr(cq, s) \in
           {"cqENOERR", "cqENOCHANGE", "cqEWRONGSLOT", "cqERANGELO", "cqERANGEHI"}
  BY <1>0, <1>1, ReleaseKeepsWindow
<1>3. ret' \in RetType /\ ret'.err # "cqEPANIC"
  BY <1>1, <1>2 DEF Returned, RetType
<1> QED
  BY <1>2, <1>3 DEF WindowInv, TypeOK, Contents, RetType

\* The invariant survives a stuttering step.
LEMMA UnchangedStep ==
  ASSUME TypeOK, WindowInv, UNCHANGED vars PROVE TypeOK' /\ WindowInv'
  BY DEF TypeOK, WindowInv, vars

-----------------------------------------------------------------------------
(* Every way of using the queue                                            *)

\* A call at any number, and one at or above the window's lower end
Call ==
  \/ \E s \in Nat, d \in Payloads, n \in Nat : Write(s, d, n)
  \/ \E s \in Nat, n \in Nat : Pull(s, n)
  \/ \E s \in Nat : Release(s)

CallInWindow ==
  \/ \E s \in Nat, d \in Payloads, n \in Nat : s >= cq.rdSeq /\ Write(s, d, n)
  \/ \E s \in Nat, n \in Nat : s >= cq.rdSeq /\ Pull(s, n)
  \/ \E s \in Nat : Release(s)

\* Every call keeps the invariant.
LEMMA CallStep ==
  ASSUME TypeOK, WindowInv, Call PROVE TypeOK' /\ WindowInv'
  BY WriteStep, PullStep, ReleaseStep DEF Call

\* Every call that stays out of the numbers below the window keeps the
\* invariant and does not panic.
LEMMA CallInWindowStep ==
  ASSUME TypeOK, WindowInv, CallInWindow
  PROVE  TypeOK' /\ WindowInv' /\ NoPanic'
  BY WriteStep, PullStep, ReleaseStep DEF CallInWindow, NoPanic

\* The steps of Spec are such calls.
LEMMA NextIsCall == ASSUME Next PROVE Call
  BY LengthsAssumption, MaxSeqAssumption
  DEF Next, Call, AnyWrite, AnyPull, AnyRelease, SeqNums

\* The receive window, the transmit window and the plain queue are never
\* called below the window.
LEMMA DisciplinesAreInWindow ==
  ASSUME TypeOK, WindowInv, RxNext \/ TxNext \/ FifoNext
  PROVE  CallInWindow
<1>1. /\ cq.rdSeq \in Nat /\ cq.wrSeq \in Nat /\ cq.rdMin = cq.rdSeq
      /\ cq.wrSeq >= cq.rdSeq
  BY TypeSplit DEF QueueType, WindowInv, Windowed, CursorsAgree, WriteCursorInWindow
<1>2. WindowWrite => CallInWindow
  BY <1>1, LengthsAssumption, MaxSeqAssumption DEF WindowWrite, CallInWindow, SeqNums
<1>3. InOrderWrite => CallInWindow
  BY <1>1, LengthsAssumption DEF InOrderWrite, WriteNext, CallInWindow
<1>4. WindowPull => CallInWindow
  BY <1>1, LengthsAssumption, MaxSeqAssumption DEF WindowPull, CallInWindow, SeqNums
<1>5. AnyRelease => CallInWindow
  BY MaxSeqAssumption DEF AnyRelease, CallInWindow, SeqNums
<1>6. ReleaseNext => CallInWindow
  BY <1>1 DEF ReleaseNext, CallInWindow
<1> QED
  BY <1>2, <1>3, <1>4, <1>5, <1>6 DEF RxNext, TxNext, FifoNext

\* The window keeps its shape, whatever calls are made in whatever order:
\* cqAdvWrSeq and cqAdvRdSeq leave no cursor out of place (CircularQueue.c:
\* 93-193).
THEOREM QueueInvariant == Spec => [](TypeOK /\ WindowInv)
<1>1. Init => TypeOK /\ WindowInv
  BY InitInv
<1>2. TypeOK /\ WindowInv /\ [Next]_vars => (TypeOK /\ WindowInv)'
  BY NextIsCall, CallStep, UnchangedStep
<1> QED
  BY <1>1, <1>2, PTL DEF Spec

\* The loops over rdMin .. rdMax - 1 of the callers meet no number that cqGet
\* refuses.
THEOREM ReadLoopsStayInWindow == Spec => []ReadLoopSafe
<1>1. TypeOK /\ WindowInv => ReadLoopSafe
  <2> SUFFICES ASSUME TypeOK, WindowInv, NEW s \in cq.rdMin .. cq.rdMax - 1
               PROVE  cqGetErr(cq, s) = "cqENOERR"
    BY DEF ReadLoopSafe
  <2>1. cq.rdSeq \in Nat /\ cq.wrSeq \in Nat /\ cq.rdMin \in Nat /\ cq.rdMax \in Nat
    BY TypeSplit DEF QueueType
  <2> QED
    BY <2>1, SlotCountAssumption
    DEF WindowInv, Windowed, CursorsAgree, WriteCursorInWindow, cqGetErr
<1> QED
  BY <1>1, QueueInvariant, PTL

\* None of the three ways the code uses a queue reaches a panic of
\* CircularQueue.c (lines 113, 161, 165, 251, 284 and 318).
THEOREM UsesNeverPanic == UsesSpec => []NoPanic
<1> DEFINE I == TypeOK /\ WindowInv /\ NoPanic
<1>1. UsesInit => I
  BY InitInv DEF UsesInit, Init, Returned, NoPanic
<1>2. I /\ UNCHANGED usesVars => I'
  BY UnchangedStep DEF NoPanic, usesVars, vars
<1>3. I /\ UsesNext => I'
  BY DisciplinesAreInWindow, CallInWindowStep DEF UsesNext
<1>4. I => NoPanic
  OBVIOUS
<1> HIDE DEF I
<1> QED
  BY <1>1, <1>2, <1>3, <1>4, PTL DEF UsesSpec

\* The type invariant alone, as the runs state it.
THEOREM QueueTypes == Spec => []TypeOK
  BY QueueInvariant, PTL

-----------------------------------------------------------------------------
(* What each of the three uses keeps                                       *)

\* A write does nothing, or commits to a slot of the window as it is.
Committed(s, q, k) ==
  /\ q \in QueueType(Contents) /\ k \in Nat
  /\ SameWindow(cq, q) /\ Windowed(q)
  /\ CommitRefusal(q, s, k) = "cqENOERR"
  /\ cq' = cqCommitSlot(q, s, k)

LEMMA WriteCommits ==
  ASSUME TypeOK, WindowInv, NEW s \in Nat, NEW d \in Payloads, NEW n \in Nat,
         Write(s, d, n)
  PROVE  cq' = cq \/ \E q, k : Committed(s, q, k)
<1> DEFINE e == cqPushErr(cq, s, n)
<1> DEFINE k == cqPushLen(cq, s, n)
<1> DEFINE q == cqPush(cq, s, d, n)
<1>0. cq \in QueueType(Contents) /\ Windowed(cq)
  BY TypeSplit DEF WindowInv
<1>1. CASE e \in {"cqENOERR", "cqETRUNC"}
  <2>1. cq' = cqCommitSlot(q, s, k)
    BY <1>1 DEF Write
  <2>2. q \in QueueType(Contents) /\ Windowed(q) /\ k \in Nat
    BY <1>0, PrefixType, PushKeepsWindow, PushLenBound
  <2>3. SameWindow(cq, q)
    BY <1>0, PushEffect
  <2>4. CommitRefusal(cq, s, k) = "cqENOERR"
    BY <1>0, <1>1, PushedCommits
  <2>5. CommitRefusal(q, s, k) = "cqENOERR"
    <3> HIDE DEF q, k
    <3> QED
      BY <2>3, <2>4, SameWindowFacts
  <2>6. Committed(s, q, k)
    <3> HIDE DEF q, k
    <3> QED
      BY <2>1, <2>2, <2>3, <2>5 DEF Committed
  <2> HIDE DEF q, k
  <2> QED
    BY <2>6
<1>2. CASE e \notin {"cqENOERR", "cqETRUNC"}
  BY <1>2 DEF Write
<1> QED
  BY <1>1, <1>2

\* The inductive invariant of the three uses
UseInv ==
  /\ TypeOK /\ WindowInv
  /\ use # "tx" => NoHoles(cq)
  /\ use # "rx" => TailFree(cq)
  /\ CountersExact

\* What a step may do to rdSeq
ReadsOne == use # "tx" => cq'.rdSeq \in {cq.rdSeq, cq.rdSeq + 1}

\* A queue nothing happened to is as it was.
LEMMA UseKept ==
  ASSUME UseInv, TypeOK', WindowInv', cq' = cq, use' = use
  PROVE  UseInv' /\ ReadsOne
<1>1. CountersExact'
  BY DEF UseInv, CountersExact
<1> QED
  BY <1>1 DEF UseInv, ReadsOne

\* A write at any number of the window makes no hole and moves no read cursor.
LEMMA WindowWriteKeeps ==
  ASSUME UseInv, use = "rx", use' = use, NEW s \in Nat, NEW d \in Payloads,
         NEW n \in Nat, Write(s, d, n), TypeOK', WindowInv'
  PROVE  UseInv' /\ ReadsOne
<1>1. CASE cq' = cq
  BY <1>1, UseKept
<1>2. ASSUME NEW q, NEW k, Committed(s, q, k) PROVE UseInv' /\ ReadsOne
  <2>1. NoHoles(q)
    BY <1>2, SameWindowFacts DEF UseInv, Committed
  <2>2. NoHoles(cq')
    <3> DEFINE p == cq'
    <3>1. p = cqCommitSlot(q, s, k)
      BY <1>2 DEF Committed
    <3> HIDE DEF p
    <3>2. NoHoles(p)
      BY <1>2, <2>1, <3>1, CommitKeepsNoHoles DEF Committed
    <3> QED
      BY <3>2 DEF p
  <2>3. AfterCommit(q, s, k, cq')
    BY <1>2, CommitEffect DEF Committed
  <2>4. cq'.rdSeq = cq.rdSeq
    BY <1>2, <2>3 DEF AfterCommit, Committed, SameWindow
  <2>5. CountersExact'
    BY DEF CountersExact
  <2> QED
    BY <2>2, <2>4, <2>5 DEF UseInv, ReadsOne
<1> QED
  BY <1>1, <1>2, WriteCommits DEF UseInv

\* A write at wrSeq moves it by one, leaves nothing after it and makes no
\* hole, and the counters follow.
LEMMA InOrderWriteKeeps ==
  ASSUME UseInv, use \in {"tx", "fifo"}, use' = use, NEW d \in Payloads,
         NEW n \in Nat, Write(cq.wrSeq, d, n), TypeOK', WindowInv'
  PROVE  UseInv' /\ ReadsOne
<1> DEFINE s == cq.wrSeq
<1>0. s \in Nat /\ cq \in QueueType(Contents) /\ Windowed(cq)
  BY TypeSplit DEF UseInv, QueueType, WindowInv
<1>1. CASE cq' = cq
  BY <1>1, UseKept
<1>2. ASSUME NEW q, NEW k, Committed(s, q, k) PROVE UseInv' /\ ReadsOne
  <2>1. q \in QueueType(Contents) /\ Windowed(q) /\ q.wrSeq = s /\ TailFree(q)
    BY <1>2, SameWindowFacts DEF UseInv, Committed, SameWindow
  <2>2. PICK p : p = cq'
    OBVIOUS
  <2>3. p = cqCommitSlot(q, q.wrSeq, k) /\ CommitRefusal(q, q.wrSeq, k) = "cqENOERR"
    BY <1>2, <2>1, <2>2 DEF Committed
  <2>4. TailFree(p) /\ p.wrSeq = s + 1
    BY <1>2, <2>1, <2>3, CommitKeepsTailFree DEF Committed
  <2>5. NoHoles(q) => NoHoles(p)
    BY <1>2, <2>1, <2>3, CommitKeepsNoHoles, <1>0 DEF Committed
  <2>6. AfterCommit(q, s, k, p)
    BY <1>0, <1>2, <2>2, CommitEffect DEF Committed
  <2>7. /\ p.rdSeq = cq.rdSeq /\ p.outstanding = cq.outstanding
        /\ p.readable = cq.readable + 1 /\ p.available = cq.available - 1
    BY <1>2, <2>1, <2>6 DEF AfterCommit, Committed, SameWindow
  <2>8. CountersExact'
    BY <1>0, <2>2, <2>4, <2>7, Numbers, SlotCountAssumption DEF UseInv, CountersExact
  <2>9. use # "tx" => NoHoles(p)
    BY <1>2, <2>5, SameWindowFacts DEF UseInv, Committed
  <2> QED
    BY <2>2, <2>4, <2>7, <2>8, <2>9 DEF UseInv, ReadsOne
<1> QED
  BY <1>0, <1>1, <1>2, WriteCommits DEF UseInv

\* A release at rdSeq moves it by one when there is no hole.
LEMMA ReleaseNextKeeps ==
  ASSUME UseInv, use \in {"rx", "fifo"}, use' = use, ReleaseNext, TypeOK', WindowInv'
  PROVE  UseInv' /\ ReadsOne
<1> DEFINE s == cq.rdSeq
<1>0. s \in Nat /\ cq \in QueueType(Contents) /\ Windowed(cq)
  BY TypeSplit DEF UseInv, QueueType, WindowInv
<1>1. PICK p : p = cq'
  OBVIOUS
<1>2. p = cqReleaseSlot(cq, s) /\ cqGetRdErr(cq, s) = "cqENOERR"
  BY <1>1 DEF ReleaseNext, Release
<1>3. NoHoles(p) /\ p.rdSeq = s + 1
  BY <1>0, <1>2, ReleaseKeepsNoHoles DEF UseInv
<1>4. TailFree(cq) => TailFree(p)
  BY <1>0, <1>2, ReleaseKeepsTailFree
<1>5. AfterRelease(cq, s, p)
  BY <1>0, <1>2, ReleaseEffect
<1>6. /\ p.wrSeq = cq.wrSeq /\ p.outstanding = cq.outstanding
      /\ p.readable = cq.readable - 1 /\ p.available = cq.available + 1
  BY <1>5 DEF AfterRelease
<1>7. CountersExact'
  BY <1>0, <1>1, <1>3, <1>6, Numbers, SlotCountAssumption DEF UseInv, CountersExact
<1> QED
  BY <1>1, <1>3, <1>4, <1>7 DEF UseInv, ReadsOne

\* A release of any number leaves nothing after wrSeq.
LEMMA AnyReleaseKeeps ==
  ASSUME UseInv, use = "tx", use' = use, NEW s \in Nat, Release(s), TypeOK', WindowInv'
  PROVE  UseInv' /\ ReadsOne
<1>0. cq \in QueueType(Contents) /\ Windowed(cq)
  BY TypeSplit DEF UseInv, WindowInv
<1>1. PICK p : p = cq'
  OBVIOUS
<1>2. p = cqReleaseSlot(cq, s)
  BY <1>1 DEF Release
<1>3. TailFree(p)
  BY <1>0, <1>2, ReleaseKeepsTailFree DEF UseInv
<1>4. CountersExact'
  BY DEF CountersExact
<1> QED
  BY <1>1, <1>3, <1>4 DEF UseInv, ReadsOne

\* Every step of the three uses keeps all of it.
LEMMA UseStep == ASSUME UseInv, UsesNext PROVE UseInv' /\ ReadsOne
<1>1. TypeOK' /\ WindowInv' /\ use' = use
  BY DisciplinesAreInWindow, CallInWindowStep DEF UsesNext, UseInv
<1>2. ASSUME WindowPull PROVE UseInv' /\ ReadsOne
  BY <1>1, <1>2, UseKept DEF WindowPull, Pull
<1>3. ASSUME InOrderWrite, use \in {"tx", "fifo"} PROVE UseInv' /\ ReadsOne
  BY <1>1, <1>3, InOrderWriteKeeps, LengthsAssumption DEF InOrderWrite, WriteNext
<1>4. ASSUME ReleaseNext, use \in {"rx", "fifo"} PROVE UseInv' /\ ReadsOne
  BY <1>1, <1>4, ReleaseNextKeeps
<1>5. CASE use = "rx" /\ RxNext
  <2>1. ASSUME WindowWrite PROVE UseInv' /\ ReadsOne
    BY <1>1, <1>5, <2>1, WindowWriteKeeps, LengthsAssumption, MaxSeqAssumption
    DEF WindowWrite, SeqNums
  <2> QED
    BY <1>2, <1>4, <1>5, <2>1 DEF RxNext
<1>6. CASE use = "tx" /\ TxNext
  <2>1. ASSUME AnyRelease PROVE UseInv' /\ ReadsOne
    BY <1>1, <1>6, <2>1, AnyReleaseKeeps, MaxSeqAssumption DEF AnyRelease, SeqNums
  <2> QED
    BY <1>2, <1>3, <1>6, <2>1 DEF TxNext
<1>7. CASE use = "fifo" /\ FifoNext
  BY <1>2, <1>3, <1>4, <1>7 DEF FifoNext
<1> QED
  BY <1>5, <1>6, <1>7 DEF UsesNext

\* It holds of a new queue and in stuttering steps too.
LEMMA UseInvInductive ==
  /\ UsesInit => UseInv
  /\ UseInv /\ [UsesNext]_usesVars => UseInv' /\ ReadsOne
<1>1. ASSUME UsesInit PROVE UseInv
  <2>1. TypeOK /\ WindowInv
    BY <1>1, InitInv DEF UsesInit
  <2>2. /\ cq.rdSeq = 0 /\ cq.wrSeq = 0 /\ cq.readable = 0
        /\ cq.available = SlotCount /\ cq.outstanding = 0
        /\ cq.valid = [i \in Slots |-> FALSE]
    BY <1>1 DEF UsesInit, Init, cqNew
  <2>3. NoHoles(cq) /\ CountersExact
    BY <2>2, SlotCountAssumption DEF NoHoles, CountersExact
  <2>4. TailFree(cq)
    <3> SUFFICES ASSUME NEW t \in cq.wrSeq .. cq.rdSeq + SlotCount - 1
                 PROVE  ~Valid(cq, t)
      BY DEF TailFree
    <3>1. Idx(t) \in Slots
      BY <2>2, IdxType, SlotCountAssumption
    <3> QED
      BY <2>2, <3>1 DEF Valid
  <2> QED
    BY <2>1, <2>3, <2>4 DEF UseInv
<1>2. ASSUME UseInv, UNCHANGED usesVars PROVE UseInv' /\ ReadsOne
  <2>1. TypeOK' /\ WindowInv' /\ cq' = cq /\ use' = use
    BY <1>2, UnchangedStep DEF usesVars, vars, UseInv
  <2> QED
    BY <1>2, <2>1, UseKept
<1> QED
  BY <1>1, <1>2, UseStep

\* A queue released at rdSeq only has no hole between its cursors.
THEOREM UsesLeaveNoGap == UsesSpec => []Gapless
<1>1. UseInv => Gapless
  BY DEF UseInv, NoHoles, Gapless
<1> QED
  BY <1>1, UseInvInductive, PTL DEF UsesSpec

\* Its read cursor never passes over a number.
THEOREM UsesReadEveryNumber == UsesSpec => ReadsEveryNumber
<1>1. ReadsOne <=> (use # "tx" => cq'.rdSeq \in {cq.rdSeq, cq.rdSeq + 1})
  BY DEF ReadsOne
<1> QED
  BY <1>1, UseInvInductive, PTL DEF UsesSpec, ReadsEveryNumber

\* A queue written at wrSeq only has nothing at or after it.
THEOREM UsesLeaveTailEmpty == UsesSpec => []TailEmpty
<1>1. UseInv => TailEmpty
  BY DEF UseInv, TailFree, TailEmpty
<1> QED
  BY <1>1, UseInvInductive, PTL DEF UsesSpec

\* First in, first out, the three counters are sizes.
THEOREM UsesCountExactly == UsesSpec => []CountersExact
<1>1. UseInv => CountersExact
  BY DEF UseInv
<1> QED
  BY <1>1, UseInvInductive, PTL DEF UsesSpec

-----------------------------------------------------------------------------
(* The queue implements the window of sequence numbers                     *)

\* The numbers a queue holds something at, and what it holds there
HeldAt(q) == {t \in q.rdSeq .. q.rdSeq + SlotCount - 1 : Valid(q, t)}

HeldIn(q) == [t \in HeldAt(q) |-> [data |-> q.buff[Idx(t)].data, bytes |-> q.len[Idx(t)]]]

LEMMA HeldNowIs == HeldNow = HeldIn(cq) /\ HeldNow' = HeldIn(cq')
  BY DEF HeldNow, HeldIn, HeldAt

\* An empty slot says it has room for the data size or for the slot size.
EmptyLens(q) == \A i \in Slots : ~q.valid[i] => q.len[i] \in {SlotDataSize, SlotSize}

\* What the slots of p say after one of q was filled, and what that makes of
\* the numbers held
SlotFilled(q, s, d, k, p) ==
  /\ p.rdSeq = q.rdSeq
  /\ p.valid = [q.valid EXCEPT ![Idx(s)] = TRUE]
  /\ p.len = [q.len EXCEPT ![Idx(s)] = k]
  /\ p.buff = [q.buff EXCEPT ![Idx(s)] = Prefix(d, k)]

OneMoreHeld(q, s, d, k, p) ==
  /\ HeldAt(p) = HeldAt(q) \cup {s}
  /\ HeldIn(p) = [t \in HeldAt(q) \cup {s} |->
                    IF t = s THEN [data |-> d, bytes |-> k] ELSE HeldIn(q)[t]]

\* The same for one that was emptied
SlotEmptied(q, s, p) ==
  /\ p.rdSeq \in q.rdSeq .. q.wrSeq
  /\ \A t \in q.rdSeq .. p.rdSeq - 1 : ~Valid(p, t)
  /\ p.valid = [q.valid EXCEPT ![Idx(s)] = FALSE]
  /\ p.len = [q.len EXCEPT ![Idx(s)] = SlotSize]
  /\ p.buff = q.buff

OneLessHeld(q, s, p) ==
  /\ HeldAt(p) = HeldAt(q) \ {s}
  /\ HeldIn(p) = [t \in HeldAt(q) \ {s} |-> HeldIn(q)[t]]

\* Filling a slot adds one number to those held.
LEMMA PutHeld ==
  ASSUME NEW C, NEW q \in QueueType(C), Windowed(q), NEW s \in Nat,
         InRange(q, s), ~Valid(q, s), NEW d, NEW k, NEW p, SlotFilled(q, s, d, k, p)
  PROVE  OneMoreHeld(q, s, d, k, p)
<1> USE DEF SlotFilled
<1> DEFINE W == q.rdSeq .. q.rdSeq + SlotCount - 1
<1>1. s \in W /\ Idx(s) \in Slots
  BY IdxType, Numbers DEF InRange
<1>2. ASSUME NEW t \in W, t # s
      PROVE  t \in Nat /\ Idx(t) \in Slots /\ Idx(t) # Idx(s)
  <2>1. t \in Nat /\ s < t + SlotCount /\ t < s + SlotCount
    BY <1>1, <1>2, Numbers
  <2> QED
    BY <1>2, <2>1, IdxDistinct, IdxType
<1>3. ASSUME NEW t \in W, t # s
      PROVE  /\ p.valid[Idx(t)] = q.valid[Idx(t)]
             /\ p.len[Idx(t)] = q.len[Idx(t)]
             /\ p.buff[Idx(t)] = q.buff[Idx(t)]
  BY <1>2, <1>3, Numbers
<1>4. p.valid[Idx(s)] /\ p.len[Idx(s)] = k /\ p.buff[Idx(s)].data = d
  <2>1. p.buff[Idx(s)] = Prefix(d, k) /\ p.len[Idx(s)] = k /\ p.valid[Idx(s)] = TRUE
    BY <1>1, Numbers
  <2> QED
    BY <2>1 DEF Prefix
<1>5. HeldAt(p) = HeldAt(q) \cup {s}
  <2>1. ASSUME NEW t \in W PROVE t \in HeldAt(p) <=> t \in HeldAt(q) \cup {s}
    BY <1>3, <1>4 DEF HeldAt, Valid
  <2>2. HeldAt(p) \subseteq W /\ HeldAt(q) \subseteq W
    BY DEF HeldAt
  <2> HIDE DEF W
  <2> QED
    BY <1>1, <2>1, <2>2
<1>6. \A t \in HeldAt(q) : t \in W
  BY DEF HeldAt
<1>7. ASSUME NEW t \in HeldAt(p)
      PROVE  HeldIn(p)[t] = IF t = s THEN [data |-> d, bytes |-> k] ELSE HeldIn(q)[t]
  <2>1. HeldIn(p)[t] = [data |-> p.buff[Idx(t)].data, bytes |-> p.len[Idx(t)]]
    BY DEF HeldIn
  <2>2. CASE t = s
    BY <1>4, <2>1, <2>2
  <2>3. CASE t # s
    <3>1. t \in HeldAt(q) /\ t \in W
      BY <1>5, <1>6, <2>3
    <3>2. HeldIn(q)[t] = [data |-> q.buff[Idx(t)].data, bytes |-> q.len[Idx(t)]]
      BY <3>1 DEF HeldIn
    <3>3. p.len[Idx(t)] = q.len[Idx(t)] /\ p.buff[Idx(t)] = q.buff[Idx(t)]
      BY <1>3, <2>3, <3>1
    <3> QED
      BY <2>1, <2>3, <3>2, <3>3
  <2> QED
    BY <2>2, <2>3
<1>8. HeldIn(p) = [t \in HeldAt(p) |-> HeldIn(p)[t]]
  BY DEF HeldIn
<1> QED
  BY <1>5, <1>7, <1>8 DEF OneMoreHeld

\* Emptying a slot takes one number out, wherever the read cursor goes.
LEMMA DropHeld ==
  ASSUME NEW C, NEW q \in QueueType(C), Windowed(q), NEW s \in Nat,
         InRange(q, s), NEW p, SlotEmptied(q, s, p)
  PROVE  OneLessHeld(q, s, p)
<1> USE DEF SlotEmptied
<1> DEFINE W == q.rdSeq .. q.rdSeq + SlotCount - 1
<1>1. s \in W /\ Idx(s) \in Slots
  BY IdxType, Numbers DEF InRange
<1>2. ASSUME NEW t \in W, t # s
      PROVE  t \in Nat /\ Idx(t) \in Slots /\ Idx(t) # Idx(s)
  <2>1. t \in Nat /\ s < t + SlotCount /\ t < s + SlotCount
    BY <1>1, <1>2, Numbers
  <2> QED
    BY <1>2, <2>1, IdxDistinct, IdxType
<1>3. ASSUME NEW t \in W, t # s
      PROVE  /\ p.valid[Idx(t)] = q.valid[Idx(t)]
             /\ p.len[Idx(t)] = q.len[Idx(t)]
             /\ p.buff[Idx(t)] = q.buff[Idx(t)]
  BY <1>2, <1>3, Numbers
<1>4. p.valid[Idx(s)] = FALSE
  BY <1>1, Numbers
<1>5. ASSUME NEW t \in HeldAt(p) PROVE t \in HeldAt(q) \ {s}
  <2>1. Valid(p, t) /\ t \in p.rdSeq .. p.rdSeq + SlotCount - 1
    BY DEF HeldAt
  <2>2. t < q.rdSeq + SlotCount
    <3>1. SUFFICES ASSUME t >= q.rdSeq + SlotCount PROVE FALSE
      BY <2>1, Numbers
    <3>2. t - SlotCount \in q.rdSeq .. p.rdSeq - 1 /\ t - SlotCount \in Nat
      BY <2>1, <3>1, Numbers
    <3>3. Idx(t) = Idx(t - SlotCount)
      <4>1. PICK j \in Nat : j = t - SlotCount
        BY <3>2
      <4>2. t = j + SlotCount
        BY <2>1, <4>1, Numbers
      <4> QED
        BY <4>1, <4>2, IdxPeriod
    <3> QED
      BY <2>1, <3>2, <3>3 DEF Valid
  <2>3. t \in W
    BY <2>1, <2>2, Numbers
  <2>4. t # s
    BY <1>4, <2>1 DEF Valid
  <2>5. Valid(q, t)
    BY <1>3, <2>1, <2>3, <2>4 DEF Valid
  <2> QED
    BY <2>3, <2>4, <2>5 DEF HeldAt
<1>6. ASSUME NEW t \in HeldAt(q) \ {s} PROVE t \in HeldAt(p)
  <2>1. t \in W /\ t # s /\ Valid(q, t)
    BY DEF HeldAt
  <2>2. Valid(p, t)
    BY <1>3, <2>1 DEF Valid
  <2>3. t \in p.rdSeq .. p.rdSeq + SlotCount - 1
    BY <2>1, <2>2, Numbers
  <2> QED
    BY <2>2, <2>3 DEF HeldAt
<1>7. HeldAt(p) = HeldAt(q) \ {s}
  BY <1>5, <1>6
<1>8. ASSUME NEW t \in HeldAt(p) PROVE HeldIn(p)[t] = HeldIn(q)[t]
  <2>1. t \in HeldAt(q) /\ t \in W /\ t # s
    BY <1>7 DEF HeldAt
  <2>2. p.len[Idx(t)] = q.len[Idx(t)] /\ p.buff[Idx(t)] = q.buff[Idx(t)]
    BY <1>3, <2>1
  <2> QED
    BY <2>1, <2>2 DEF HeldIn
<1>9. HeldIn(p) = [t \in HeldAt(p) |-> HeldIn(p)[t]]
  BY DEF HeldIn
<1> QED
  BY <1>7, <1>8, <1>9 DEF OneLessHeld

\* The shape that the refinement needs of the lengths, kept by every step
WindowShape == TypeOK /\ WindowInv /\ EmptyLens(cq)

\* A commit of an item into an empty slot is a Put of the abstract window.
LEMMA CommitIsPut ==
  ASSUME WindowShape, NEW s \in Nat, NEW d \in Payloads, NEW k \in ItemSizes,
         NEW q, Committed(s, q, k),
         q.buff = [cq.buff EXCEPT ![Idx(s)] = Prefix(d, k)]
  PROVE  Window!Next /\ EmptyLens(cq')
<1> DEFINE x == [data |-> d, bytes |-> k]
<1>0. cq \in QueueType(Contents) /\ Windowed(cq)
  BY TypeSplit DEF WindowShape, WindowInv
<1>1. PICK p : p = cq'
  OBVIOUS
<1>2. /\ q \in QueueType(Contents) /\ Windowed(q) /\ SameWindow(cq, q) /\ k \in Nat
      /\ CommitRefusal(q, s, k) = "cqENOERR" /\ p = cqCommitSlot(q, s, k)
  BY <1>1 DEF Committed
<1>3. AfterCommit(q, s, k, p)
  BY <1>2, CommitEffect
<1>4. Windowed(p)
  BY <1>2, CommitKeepsWindow
<1>5. InRange(cq, s) /\ ~Valid(cq, s)
  <2>1. CommitRefusal(cq, s, k) = "cqENOERR"
    BY <1>2, SameWindowFacts
  <2> QED
    BY <1>0, <2>1, Numbers DEF CommitRefusal, cqGetErr, InRange
<1>6. /\ p.rdSeq = cq.rdSeq
      /\ p.valid = [cq.valid EXCEPT ![Idx(s)] = TRUE]
      /\ p.len = [cq.len EXCEPT ![Idx(s)] = k]
      /\ p.buff = [cq.buff EXCEPT ![Idx(s)] = Prefix(d, k)]
      /\ p.wrSeq \in cq.wrSeq .. cq.rdSeq + SlotCount
      /\ \A t \in cq.wrSeq .. p.wrSeq - 1 : Valid(p, t)
  BY <1>2, <1>3 DEF AfterCommit, SameWindow
<1>7. /\ HeldAt(p) = HeldAt(cq) \cup {s}
      /\ HeldIn(p) = [t \in HeldAt(cq) \cup {s} |->
                        IF t = s THEN x ELSE HeldIn(cq)[t]]
  <2>1. SlotFilled(cq, s, d, k, p)
    BY <1>6 DEF SlotFilled
  <2>2. OneMoreHeld(cq, s, d, k, p)
    BY <1>0, <1>5, <2>1, PutHeld
  <2> QED
    BY <2>2 DEF OneMoreHeld
<1>8. DOMAIN HeldNow = HeldAt(cq)
  BY HeldNowIs DEF HeldIn
<1>9. HeldNow' = [t \in Window!Held \cup {s} |-> IF t = s THEN x ELSE HeldNow[t]]
  BY <1>1, <1>7, <1>8, HeldNowIs DEF Window!Held
<1>10. Window!EndOfRun(cq.wrSeq, cq.rdSeq + SlotCount, Window!Held \cup {s}, p.wrSeq)
  <2>1. ASSUME NEW t \in cq.wrSeq .. p.wrSeq - 1 PROVE t \in HeldAt(p)
    BY <1>0, <1>6, Numbers DEF HeldAt
  <2>2. p.wrSeq \in HeldAt(p) => p.wrSeq = cq.rdSeq + SlotCount
    BY <1>0, <1>4, <1>6, Numbers DEF HeldAt, Windowed, CursorsAtRest
  <2>3. Window!Held \cup {s} = HeldAt(p)
    BY <1>7, <1>8 DEF Window!Held
  <2> QED
    BY <1>6, <2>1, <2>2, <2>3 DEF Window!EndOfRun
<1>11. s \in cq.rdSeq .. cq.rdSeq + SlotCount - 1 /\ s \notin Window!Held
  BY <1>0, <1>5, <1>8, Numbers DEF Window!Held, HeldAt, InRange
<1>12. x \in [data : Payloads, bytes : ItemSizes]
  OBVIOUS
<1>13. p.wrSeq \in Nat
  BY <1>0, <1>6, Numbers
<1>14. Window!Put(s, x)
  <2> HIDE DEF x
  <2> QED
    BY <1>1, <1>6, <1>9, <1>10, <1>11, <1>13 DEF Window!Put
<1>15. EmptyLens(p)
  <2> SUFFICES ASSUME NEW i \in Slots, ~p.valid[i]
               PROVE  p.len[i] \in {SlotDataSize, SlotSize}
    BY DEF EmptyLens
  <2>1. i # Idx(s)
    BY <1>0, <1>6, Numbers
  <2>2. p.valid[i] = cq.valid[i] /\ p.len[i] = cq.len[i]
    BY <1>0, <1>6, <2>1, Numbers
  <2> QED
    BY <2>2 DEF WindowShape, EmptyLens
<1> HIDE DEF x
<1> QED
  BY <1>1, <1>11, <1>12, <1>14, <1>15 DEF Window!Next

\* A write is such a commit, or changes nothing.
LEMMA WriteIsPut ==
  ASSUME WindowShape, NEW s \in Nat, NEW d \in Payloads, NEW n \in Lengths, Write(s, d, n)
  PROVE  cq' = cq \/ (Window!Next /\ EmptyLens(cq'))
<1> DEFINE e == cqPushErr(cq, s, n)
<1> DEFINE k == cqPushLen(cq, s, n)
<1> DEFINE q == cqPush(cq, s, d, n)
<1>0. cq \in QueueType(Contents) /\ Windowed(cq) /\ n \in Nat
  BY TypeSplit, LengthsAssumption DEF WindowShape, WindowInv
<1>1. CASE e \in {"cqENOERR", "cqETRUNC"}
  <2>1. cq' = cqCommitSlot(q, s, k)
    BY <1>1 DEF Write
  <2>2. q \in QueueType(Contents) /\ Windowed(q) /\ k \in Nat
    BY <1>0, PrefixType, PushKeepsWindow, PushLenBound
  <2>3. SameWindow(cq, q)
    BY <1>0, PushEffect
  <2>4. CommitRefusal(cq, s, k) = "cqENOERR"
    BY <1>0, <1>1, PushedCommits
  <2>5. CommitRefusal(q, s, k) = "cqENOERR"
    <3> HIDE DEF q, k
    <3> QED
      BY <2>3, <2>4, SameWindowFacts
  <2>6. q.buff = [cq.buff EXCEPT ![Idx(s)] = Prefix(d, k)]
    BY <1>0, <1>1 DEF cqPush, QueueType
  <2>7. k \in ItemSizes
    <3>1. ~Valid(cq, s) /\ Idx(s) \in Slots
      BY <1>1, IdxType DEF cqPushErr
    <3>2. cq.len[Idx(s)] \in {SlotDataSize, SlotSize}
      BY <3>1 DEF WindowShape, EmptyLens, Valid
    <3> QED
      BY <3>2 DEF ItemSizes, cqPushLen, Lesser
  <2>8. Committed(s, q, k)
    <3> HIDE DEF q, k
    <3> QED
      BY <2>1, <2>2, <2>3, <2>5 DEF Committed
  <2> HIDE DEF q, k
  <2> QED
    BY <2>6, <2>7, <2>8, CommitIsPut
<1>2. CASE e \notin {"cqENOERR", "cqETRUNC"}
  BY <1>2 DEF Write
<1> QED
  BY <1>1, <1>2

\* A release that is not refused is a Drop.
LEMMA ReleaseIsDrop ==
  ASSUME WindowShape, NEW s \in Nat, Release(s)
  PROVE  cq' = cq \/ (Window!Next /\ EmptyLens(cq'))
<1>0. cq \in QueueType(Contents) /\ Windowed(cq)
  BY TypeSplit DEF WindowShape, WindowInv
<1>1. PICK p : p = cq'
  OBVIOUS
<1>2. p = cqReleaseSlot(cq, s)
  BY <1>1 DEF Release
<1>3. CASE cqGetRdErr(cq, s) # "cqENOERR"
  BY <1>1, <1>2, <1>3 DEF cqReleaseSlot
<1>4. CASE cqGetRdErr(cq, s) = "cqENOERR"
  <2>1. AfterRelease(cq, s, p) /\ Windowed(p)
    BY <1>0, <1>2, <1>4, ReleaseEffect, ReleaseKeepsWindow
  <2>2. InRange(cq, s) /\ Valid(cq, s)
    BY <1>0, <1>4, Numbers DEF cqGetRdErr, cqGetErr, InRange
  <2>3. /\ p.wrSeq = cq.wrSeq /\ p.buff = cq.buff
        /\ p.valid = [cq.valid EXCEPT ![Idx(s)] = FALSE]
        /\ p.len = [cq.len EXCEPT ![Idx(s)] = SlotSize]
        /\ p.rdSeq \in cq.rdSeq .. cq.wrSeq
        /\ \A t \in cq.rdSeq .. p.rdSeq - 1 : ~Valid(p, t)
    BY <2>1 DEF AfterRelease
  <2>4. /\ HeldAt(p) = HeldAt(cq) \ {s}
        /\ HeldIn(p) = [t \in HeldAt(cq) \ {s} |-> HeldIn(cq)[t]]
    <3>1. SlotEmptied(cq, s, p)
      BY <2>3 DEF SlotEmptied
    <3> QED
      BY <1>0, <2>2, <3>1, DropHeld DEF OneLessHeld
  <2>5. DOMAIN HeldNow = HeldAt(cq)
    BY HeldNowIs DEF HeldIn
  <2>6. HeldNow' = Window!Restrict(HeldNow, Window!Held \ {s})
    BY <1>1, <2>4, <2>5, HeldNowIs DEF Window!Held, Window!Restrict
  <2>7. Window!EndOfRun(cq.rdSeq, cq.wrSeq,
                        (cq.rdSeq .. cq.wrSeq) \ (Window!Held \ {s}), p.rdSeq)
    <3>1. Window!Held \ {s} = HeldAt(p)
      BY <2>4, <2>5 DEF Window!Held
    <3>2. ASSUME NEW t \in cq.rdSeq .. p.rdSeq - 1
          PROVE  t \in cq.rdSeq .. cq.wrSeq /\ t \notin HeldAt(p)
      BY <1>0, <2>3, Numbers DEF HeldAt
    <3>3. p.rdSeq < cq.wrSeq => p.rdSeq \in HeldAt(p)
      BY <1>0, <2>1, <2>3, Numbers DEF HeldAt, Windowed, CursorsAtRest
    <3> QED
      BY <1>0, <2>3, <3>1, <3>2, <3>3, Numbers DEF Window!EndOfRun
  <2>8. s \in Window!Held
    BY <1>0, <2>2, <2>5, Numbers DEF Window!Held, HeldAt, InRange
  <2>9. p.rdSeq \in Nat
    BY <1>0, <2>3, Numbers
  <2>10. Window!Drop(s)
    BY <1>1, <2>3, <2>6, <2>7, <2>8, <2>9 DEF Window!Drop
  <2>11. EmptyLens(p)
    <3> SUFFICES ASSUME NEW i \in Slots, ~p.valid[i]
                 PROVE  p.len[i] \in {SlotDataSize, SlotSize}
      BY DEF EmptyLens
    <3>1. CASE i = Idx(s)
      BY <1>0, <2>3, <3>1, Numbers
    <3>2. CASE i # Idx(s)
      <4>1. p.valid[i] = cq.valid[i] /\ p.len[i] = cq.len[i]
        BY <1>0, <2>3, <3>2, Numbers
      <4> QED
        BY <4>1 DEF WindowShape, EmptyLens
    <3> QED
      BY <3>1, <3>2
  <2> QED
    BY <1>1, <2>8, <2>10, <2>11 DEF Window!Next
<1> QED
  BY <1>3, <1>4

\* Whatever is called in whatever order, the queue is a window of consecutive
\* sequence numbers: a slot stands for one number at a time (CircularQueue.c:
\* 93-193, 201-233, 279-293 and 311-324).
THEOREM QueueImplementsWindow == Spec => ImplementsWindow
<1> USE DEF ImplementsWindow
<1>1. Init => Window!Init /\ WindowShape
  <2> SUFFICES ASSUME Init PROVE Window!Init /\ WindowShape
    OBVIOUS
  <2>1. /\ cq.rdSeq = 0 /\ cq.wrSeq = 0
        /\ cq.valid = [i \in Slots |-> FALSE] /\ cq.len = [i \in Slots |-> SlotDataSize]
    BY DEF Init, cqNew
  <2>2. ASSUME NEW t \in 0 .. SlotCount - 1 PROVE ~Valid(cq, t)
    BY <2>1, IdxType, SlotCountAssumption DEF Valid
  <2>3. HeldAt(cq) = {}
    BY <2>1, <2>2, SlotCountAssumption DEF HeldAt
  <2>4. HeldNow = [t \in {} |-> {}]
    BY <2>3, HeldNowIs DEF HeldIn
  <2>5. EmptyLens(cq)
    BY <2>1 DEF EmptyLens
  <2> QED
    BY <2>1, <2>4, <2>5, InitInv DEF Window!Init, WindowShape
<1>2. WindowShape /\ [Next]_vars => WindowShape' /\ [Window!Next]_Window!vars
  <2> SUFFICES ASSUME WindowShape, [Next]_vars
               PROVE  WindowShape' /\ [Window!Next]_Window!vars
    OBVIOUS
  <2>1. TypeOK' /\ WindowInv'
    BY NextIsCall, CallStep, UnchangedStep DEF WindowShape
  <2>2. cq' = cq => UNCHANGED Window!vars /\ EmptyLens(cq')
    BY DEF Window!vars, HeldNow, Valid, WindowShape
  <2>3. CASE AnyWrite
    BY <2>1, <2>2, <2>3, WriteIsPut, MaxSeqAssumption DEF AnyWrite, SeqNums, WindowShape
  <2>4. CASE AnyPull
    BY <2>1, <2>2, <2>4 DEF AnyPull, Pull, WindowShape
  <2>5. CASE AnyRelease
    BY <2>1, <2>2, <2>5, ReleaseIsDrop, MaxSeqAssumption DEF AnyRelease, SeqNums, WindowShape
  <2>6. CASE UNCHANGED vars
    BY <2>1, <2>2, <2>6 DEF vars, WindowShape
  <2> QED
    BY <2>3, <2>4, <2>5, <2>6 DEF Next
<1> QED
  BY <1>1, <1>2, PTL DEF Spec, Window!Spec
=============================================================================
