------------------------------ MODULE SeqWindow ------------------------------
(***************************************************************************)
(* What a circular queue promises: a window of Size consecutive sequence   *)
(* numbers.  Items may be put anywhere in it and dropped in any order.     *)
(* base is the first number that may still be in use, front the first one  *)
(* that nothing has reached yet; both move on by themselves, front over    *)
(* what is held and base over what is not.                                 *)
(***************************************************************************)
EXTENDS Integers, Functions

CONSTANTS Size, Items

VARIABLES base, front, held

vars == <<base, front, held>>

Held == DOMAIN held

\* e is the first number from lo on where a run of numbers in S ends, or hi.
EndOfRun(lo, hi, S, e) ==
  /\ e \in lo .. hi
  /\ lo .. e - 1 \subseteq S
  /\ e \in S => e = hi

Init == base = 0 /\ front = 0 /\ held = [s \in {} |-> {}]

Put(s, x) ==
  /\ s \in base .. base + Size - 1
  /\ s \notin Held
  /\ held' = [t \in Held \cup {s} |-> IF t = s THEN x ELSE held[t]]
  /\ base' = base
  /\ front' \in Nat
  /\ EndOfRun(front, base + Size, Held \cup {s}, front')

Drop(s) ==
  /\ s \in Held
  /\ held' = Restrict(held, Held \ {s})
  /\ front' = front
  /\ base' \in Nat
  /\ EndOfRun(base, front, (base .. front) \ (Held \ {s}), base')

Next ==
  \/ \E s \in base .. base + Size - 1 : \E x \in Items : Put(s, x)
  \/ \E s \in Held : Drop(s)

Spec == Init /\ [][Next]_vars
=============================================================================
