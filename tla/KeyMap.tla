------------------------------- MODULE KeyMap -------------------------------
(***************************************************************************)
(* What a hash table promises (the comments of HashTable.h and             *)
(* HashTable.c): at most one value for each key.  ret is what the last     *)
(* call about a key returned; only calls that return something set it.     *)
(***************************************************************************)
EXTENDS Integers

CONSTANTS Keys, Values, NoValue

VARIABLES map, ret

vars == <<map, ret>>

Init ==
  /\ map = [k \in Keys |-> NoValue]
  /\ ret = [k \in Keys |-> <<"none", NoValue>>]

Returns(k, err, v) == ret' = [ret EXCEPT ![k] = <<err, v>>]

Add(k, v) ==
  \/ map[k] = NoValue /\ map' = [map EXCEPT ![k] = v] /\ Returns(k, "htENOERR", NoValue)
  \/ map[k] = NoValue /\ map' = map /\ Returns(k, "htENOMEM", NoValue)
  \/ map[k] # NoValue /\ map' = map /\ Returns(k, "htEALREADY", NoValue)

Get(k) ==
  /\ Returns(k, IF map[k] = NoValue THEN "htENOTFOUND" ELSE "htENOERR", map[k])
  /\ UNCHANGED map

Remove(k) == map' = [map EXCEPT ![k] = NoValue] /\ UNCHANGED ret

Clear == map' = [k \in Keys |-> NoValue] /\ UNCHANGED ret

Next == Clear \/ \E k \in Keys : Get(k) \/ Remove(k) \/ \E v \in Values : Add(k, v)

Spec == Init /\ [][Next]_vars
=============================================================================
