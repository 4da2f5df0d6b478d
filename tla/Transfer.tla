------------------------------ MODULE Transfer ------------------------------
(***************************************************************************)
(* What one direction of a connection promises, as the two applications    *)
(* and the memory of the two sides see it: messages are numbered as they   *)
(* are sent, the receiver accepts them without a gap, at most a window     *)
(* ahead of its application, hands over what it accepted one at a time,    *)
(* and the sender forgets a message only when the receiver accepted it.    *)
(***************************************************************************)
EXTENDS Integers

CONSTANTS
  Window,       \* how far acceptance runs ahead of delivery
  Unconfirmed   \* the messages that are sent once and not kept

VARIABLES
  sent,       \* messages sent so far
  kept,       \* the ones the sender could send again
  accepted,   \* the receiver has all numbers below
  handed      \* messages handed to the receiving application

vars == <<sent, kept, accepted, handed>>

Init == sent = 0 /\ kept = {} /\ accepted = 0 /\ handed = 0

\* The data of one call may take several packets.
Send ==
  /\ sent' \in Nat /\ sent' > sent
  /\ kept' = kept \cup ((sent .. sent' - 1) \ Unconfirmed)
  /\ UNCHANGED <<accepted, handed>>

\* A packet that fills a gap lets several in at once.
Accept ==
  /\ accepted' \in accepted + 1 .. sent
  /\ accepted' <= handed + Window
  /\ UNCHANGED <<sent, kept, handed>>

HandOver ==
  /\ handed < accepted
  /\ handed' = handed + 1
  /\ UNCHANGED <<sent, kept, accepted>>

\* One acknowledgement may cover several messages.
Forget ==
  /\ \E S \in SUBSET kept :
       /\ \A s \in S : s < accepted
       /\ kept' = kept \ S
  /\ UNCHANGED <<sent, accepted, handed>>

Next == Send \/ Accept \/ HandOver \/ Forget

Spec == Init /\ [][Next]_vars
=============================================================================
