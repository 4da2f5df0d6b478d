---------------------------- MODULE MCQueueUses ----------------------------
(* Small instances of the three uses of a circular queue for TLC.          *)
EXTENDS QueueUses
=============================================================================
