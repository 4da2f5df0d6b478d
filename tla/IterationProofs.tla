-------------------------- MODULE IterationProofs --------------------------
(***************************************************************************)
(* The states of a loop: there are such, and each follows from the one     *)
(* before.  The theorem holds for every Step, so a module with a loop      *)
(* instantiates this one with its own.                                     *)
(***************************************************************************)
EXTENDS Iteration, WellFoundedInduction, TLAPS

\* A number with a property is not below all of them: one is the least.
LEMMA LeastOf ==
  ASSUME NEW T, T \subseteq Nat, T # {}
  PROVE  \E x \in T : \A y \in T : x <= y
<1>1. PICK x \in T : \A y \in T : ~(<<y, x>> \in OpToRel(<, Nat))
  BY NatLessThanWellFounded, WFMin, Zenon
<1>2. ASSUME NEW y \in T PROVE x <= y
  <2>1. <<y, x>> \in Nat \X Nat
    OBVIOUS
  <2>2. ~(<<y, x>>[1] < <<y, x>>[2])
    BY <1>1, <2>1, Zenon DEF OpToRel
  <2> QED
    BY <2>2, SMT
<1> QED
  BY <1>2

\* g holds the states of a loop over n elements.
IsRun(g, fixed, start, elems, n) ==
  g = [k \in 0 .. n |-> IF k = 0 THEN start ELSE Step(fixed, g[k - 1], elems[k])]

\* A loop over n elements has states: were there a first n without, the loop
\* over one less would lead to one.
LEMMA StatesExist ==
  ASSUME NEW fixed, NEW start, NEW elems, NEW n \in Nat
  PROVE  \E g : IsRun(g, fixed, start, elems, n)
<1> DEFINE Good(m) == \E g : IsRun(g, fixed, start, elems, m)
<1> SUFFICES ASSUME ~Good(n) PROVE FALSE
  OBVIOUS
<1>1. PICK m \in Nat : ~Good(m) /\ \A k \in Nat : ~Good(k) => m <= k
  <2> DEFINE T == {k \in Nat : ~Good(k)}
  <2>1. n \in T
    OBVIOUS
  <2> HIDE DEF Good
  <2> QED
    BY <2>1, LeastOf
<1>2. m # 0
  <2> DEFINE g == [k \in 0 .. 0 |-> start]
  <2>1. g = [k \in 0 .. 0 |-> IF k = 0 THEN start ELSE Step(fixed, g[k - 1], elems[k])]
    OBVIOUS
  <2>2. Good(0)
    <3>1. IsRun(g, fixed, start, elems, 0)
      BY <2>1 DEF IsRun
    <3> HIDE DEF g
    <3> QED
      BY <3>1
  <2> HIDE DEF Good
  <2> QED
    BY <1>1, <2>2
<1>3. PICK g : g = [k \in 0 .. m - 1 |-> IF k = 0 THEN start
                                          ELSE Step(fixed, g[k - 1], elems[k])]
  <2>1. m - 1 \in Nat /\ ~(m <= m - 1)
    BY <1>2
  <2>2. Good(m - 1)
    <3> HIDE DEF Good
    <3> QED
      BY <1>1, <2>1
  <2> QED
    BY <2>2 DEF IsRun
<1> DEFINE h == [k \in 0 .. m |-> IF k = m THEN Step(fixed, g[m - 1], elems[m]) ELSE g[k]]
<1>4. \A k \in 0 .. m : h[k] = IF k = 0 THEN start ELSE Step(fixed, h[k - 1], elems[k])
  <2> SUFFICES ASSUME NEW k \in 0 .. m
               PROVE  h[k] = IF k = 0 THEN start ELSE Step(fixed, h[k - 1], elems[k])
    OBVIOUS
  <2>1. CASE k = m
    <3>1. m - 1 \in 0 .. m /\ m - 1 # m
      BY <1>2
    <3>2. h[m] = Step(fixed, g[m - 1], elems[m]) /\ h[m - 1] = g[m - 1]
      BY <3>1
    <3> HIDE DEF h
    <3> QED
      BY <1>2, <2>1, <3>2
  <2>2. CASE k # m
    <3>1. k \in 0 .. m - 1 /\ (k # 0 => k - 1 \in 0 .. m /\ k - 1 # m)
      BY <2>2
    <3>2. h[k] = g[k] /\ (k # 0 => h[k - 1] = g[k - 1])
      BY <2>2, <3>1
    <3>3. g[k] = IF k = 0 THEN start ELSE Step(fixed, g[k - 1], elems[k])
      BY <1>3, <3>1
    <3> HIDE DEF h
    <3> QED
      BY <3>2, <3>3
  <2> QED
    BY <2>1, <2>2
<1>5. h = [k \in 0 .. m |-> IF k = 0 THEN start ELSE Step(fixed, h[k - 1], elems[k])]
  BY <1>4
<1>6. Good(m)
  <2>1. IsRun(h, fixed, start, elems, m)
    BY <1>5 DEF IsRun
  <2> HIDE DEF h
  <2> QED
    BY <2>1
<1> HIDE DEF Good
<1> QED
  BY <1>1, <1>6

\* The run of a loop starts where it says and takes one step per element.
THEOREM RunSteps ==
  \A fixed, start, elems : Len(elems) \in Nat =>
    /\ Run(fixed, start, elems)[0] = start
    /\ \A k \in 1 .. Len(elems) :
         Run(fixed, start, elems)[k] =
           Step(fixed, Run(fixed, start, elems)[k - 1], elems[k])
<1> SUFFICES ASSUME NEW fixed, NEW start, NEW elems, Len(elems) \in Nat
             PROVE  /\ Run(fixed, start, elems)[0] = start
                    /\ \A k \in 1 .. Len(elems) :
                         Run(fixed, start, elems)[k] =
                           Step(fixed, Run(fixed, start, elems)[k - 1], elems[k])
  OBVIOUS
<1> DEFINE r == Run(fixed, start, elems)
<1> DEFINE n == Len(elems)
<1>1. r = CHOOSE g : IsRun(g, fixed, start, elems, n)
  BY DEF Run, IsRun
<1>2. n \in Nat
  OBVIOUS
<1> HIDE DEF r, n
<1>3. PICK g : IsRun(g, fixed, start, elems, n)
  BY <1>2, StatesExist
<1>4. IsRun(r, fixed, start, elems, n)
  BY <1>1, <1>3, Zenon
<1>5. r = [k \in 0 .. n |-> IF k = 0 THEN start ELSE Step(fixed, r[k - 1], elems[k])]
  BY <1>4 DEF IsRun
<1>6. r[0] = start
  BY <1>2, <1>5
<1>7. \A k \in 1 .. n : r[k] = Step(fixed, r[k - 1], elems[k])
  <2> TAKE k \in 1 .. n
  <2>1. k \in 0 .. n /\ k # 0
    BY <1>2
  <2> QED
    BY <1>5, <2>1
<1> QED
  BY <1>6, <1>7 DEF r, n

\* Induction over the iterations of a loop, as a statement about the set of
\* those after which something holds.
LEMMA CountUp ==
  \A n \in Nat : \A Held :
    0 \in Held /\ (\A k \in 1 .. n : k - 1 \in Held => k \in Held) => n \in Held
<1> SUFFICES ASSUME NEW n \in Nat, NEW Held, 0 \in Held,
                    \A k \in 1 .. n : k - 1 \in Held => k \in Held,
                    n \notin Held
             PROVE  FALSE
  OBVIOUS
<1> DEFINE Missing == {k \in Nat : k \notin Held}
<1>1. PICK m \in Missing : \A k \in Missing : m <= k
  <2>1. n \in Missing /\ Missing \subseteq Nat
    OBVIOUS
  <2> HIDE DEF Missing
  <2> QED
    BY <2>1, LeastOf
<1>2. m \in Nat /\ m # 0 /\ m <= n
  BY <1>1
<1>3. m - 1 \in Held
  BY <1>1, <1>2
<1> QED
  BY <1>1, <1>2, <1>3
=============================================================================
