----------------------------- MODULE HashTable -----------------------------
(***************************************************************************)
(* The hash table of HashTable.c: chains of entries, one per bucket.  As   *)
(* in CircularQueue the library is a set of functions of the table, since  *)
(* a process has many (one of destinations, one of sources for each of     *)
(* them).  htX(t, ...) is the table a call leaves behind, htXErr(t, ...)   *)
(* the code it returns.                                                    *)
(*                                                                         *)
(* An entry is [key, value]; the hash of a key is external (spooky_hash.c) *)
(* and a constant here.                                                    *)
(***************************************************************************)
EXTENDS Integers, Sequences

CONSTANTS
  Keys,     \* htKey_t: an address with its port
  Bucket,   \* getIdx: the bucket of each key
  NoValue   \* what a look-up that fails hands out: NULL

ASSUME HashAssumption == Bucket \in [Keys -> Nat]

Buckets == {Bucket[k] : k \in Keys}

htNew == [b \in Buckets |-> <<>>]

Chain(t, k) == t[Bucket[k]]

\* The positions of a chain whose keys are compared: the head, and then every
\* entry that has a successor.
Compared(c) == IF Len(c) = 1 THEN {1} ELSE 1 .. Len(c) - 1

Matches(c, k) == {i \in Compared(c) : c[i].key = k}

\* The entry a call for k stops at
MatchAt(c, k) ==
  CHOOSE i \in Matches(c, k) : \A j \in Matches(c, k) : i <= j

Finds(t, k) == Matches(Chain(t, k), k) # {}

htGetErr(t, k) == IF Finds(t, k) THEN "htENOERR" ELSE "htENOTFOUND"

htGet(t, k) ==
  IF Finds(t, k) THEN Chain(t, k)[MatchAt(Chain(t, k), k)].value ELSE NoValue

\* Whether there is memory for an entry is an argument.
htAddNewErr(t, k, mem) ==
  IF Finds(t, k) THEN "htEALREADY" ELSE IF mem THEN "htENOERR" ELSE "htENOMEM"

\* Seeded fault: a new entry takes the place of the chain.
htAddNewAlone(t, k, v, mem) ==
  IF htAddNewErr(t, k, mem) # "htENOERR" THEN t
  ELSE [t EXCEPT ![Bucket[k]] = <<[key |-> k, value |-> v]>>]

\* Seeded fault: a key that is there already gets another entry, in front.
htAddNewFirst(t, k, v, mem) ==
  IF ~mem THEN t
  ELSE [t EXCEPT ![Bucket[k]] = <<[key |-> k, value |-> v]>> \o @]

htAddNew(t, k, v, mem) ==
  IF htAddNewErr(t, k, mem) # "htENOERR" THEN t
  ELSE [t EXCEPT ![Bucket[k]] = Append(@, [key |-> k, value |-> v])]

\* Seeded fault: the entries before the one that is removed go with it.
WithoutUpTo(c, i) == SubSeq(c, i + 1, Len(c))

\* prev is never moved on from the head of the chain: the head is linked to
\* the successor of the entry that is removed.
Without(c, i) ==
  IF i = 1 THEN Tail(c) ELSE <<c[1]>> \o SubSeq(c, i + 1, Len(c))

\* Seeded fault: the entry is freed but not unlinked.
htRemKept(t, k) ==
  IF ~Finds(t, k) THEN t
  ELSE [t EXCEPT ![Bucket[k]][MatchAt(Chain(t, k), k)].value = NoValue]

htRem(t, k) ==
  IF ~Finds(t, k) THEN t
  ELSE [t EXCEPT ![Bucket[k]] = Without(@, MatchAt(@, k))]

\* What htDelete passes to its callback, an entry at a time
Payload(t) == UNION {{t[b][i].value : i \in DOMAIN t[b]} : b \in Buckets}
=============================================================================
