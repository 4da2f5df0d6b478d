------------------------- MODULE QueueRefinesWindow -------------------------
(***************************************************************************)
(* The circular queue implements the sequence window, for every order of   *)
(* calls: slots are a function of the sequence number only as long as the  *)
(* window is no longer than the array, and a slot given back is not        *)
(* mistaken for the one that takes its place.                              *)
(***************************************************************************)
EXTENDS QueueCalls

\* What the window holds: the content of the valid slots, by sequence number
HeldNow ==
  [ s \in {t \in cq.rdSeq .. cq.rdSeq + SlotCount - 1 : Valid(cq, t)}
      |-> [data |-> cq.buff[Idx(s)].data, bytes |-> cq.len[Idx(s)]] ]

\* The byte counts a slot can be filled with: what was offered, or what an
\* empty slot says it has room for.
ItemSizes == Lengths \cup {SlotDataSize, SlotSize}

Window == INSTANCE SeqWindow WITH
            Size  <- SlotCount,
            Items <- [data : Payloads, bytes : ItemSizes],
            base  <- cq.rdSeq,
            front <- cq.wrSeq,
            held  <- HeldNow

\* Every call on the circular queue is a Put, a Drop or no change of the
\* abstract window.
ImplementsWindow == Window!Spec
=============================================================================
