------------------------ MODULE FlowRefinesTransfer ------------------------
(***************************************************************************)
(* The connection of Flow, with its queues, acknowledgements and           *)
(* retransmissions, does what Transfer promises.  Packets with noAck are   *)
(* the messages that are not kept.                                         *)
(***************************************************************************)
EXTENDS Flow

KeptNow ==
  {s \in snd.txQ.rdSeq .. snd.txQ.wrSeq - 1 : Valid(snd.txQ, s)} \ NoAckSeqs

Abstract == INSTANCE Transfer WITH
  Window      <- SlotCount,
  Unconfirmed <- NoAckSeqs,
  sent        <- snd.seqSnd,
  kept        <- KeptNow,
  accepted    <- rcv.rxQ.wrSeq,
  handed      <- Len(delivered)

\* Every behaviour of the connection is one of Transfer: the calls of the two
\* sides show to the applications as sends, acceptances, deliveries of one
\* message each, and as the sender's forgetting what was accepted.
ImplementsTransfer == Abstract!Spec
=============================================================================
