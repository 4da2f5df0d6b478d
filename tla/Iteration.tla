----------------------------- MODULE Iteration -----------------------------
(***************************************************************************)
(* A loop of the code: Step, with what the loop does not change, the state *)
(* before an iteration and the element it is for, is the state after it.   *)
(* A loop that breaks goes on without changing anything.                   *)
(***************************************************************************)
EXTENDS Integers, Sequences

CONSTANT Step(_, _, _)

\* The state before the loop, and after each of its iterations
Run(fixed, start, elems) ==
  LET run[k \in 0 .. Len(elems)] ==
        IF k = 0 THEN start ELSE Step(fixed, run[k - 1], elems[k])
  IN run

After(fixed, start, elems) == Run(fixed, start, elems)[Len(elems)]
=============================================================================
