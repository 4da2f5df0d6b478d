------------------------------- MODULE MCHash -------------------------------
(* Instances of HashCalls for TLC                                          *)
EXTENDS HashCalls, TLC

CONSTANTS a, b, c

\* a and b share a bucket
Pair == (a :> 1) @@ (b :> 1) @@ (c :> 2)
Trio == [k \in {a, b, c} |-> 1]
=============================================================================
