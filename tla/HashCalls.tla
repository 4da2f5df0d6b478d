----------------------------- MODULE HashCalls -----------------------------
(***************************************************************************)
(* One hash table and the calls made on it, in any order, until it is      *)
(* deleted.                                                                *)
(***************************************************************************)
EXTENDS HashTable

CONSTANT Payloads   \* the values

ASSUME PayloadsAssumption == NoValue \notin Payloads

VARIABLES
  table,   \* ht_t
  ret,     \* for each key what the last call about it returned, and handed out
  deleted

vars == <<table, ret, deleted>>

Init ==
  /\ table = htNew
  /\ ret = [k \in Keys |-> <<"none", NoValue>>]
  /\ deleted = FALSE

Add(k, v, mem) ==
  /\ table' = htAddNew(table, k, v, mem)
  /\ ret' = [ret EXCEPT ![k] = <<htAddNewErr(table, k, mem), NoValue>>]
  /\ UNCHANGED deleted

Get(k) ==
  /\ ret' = [ret EXCEPT ![k] = <<htGetErr(table, k), htGet(table, k)>>]
  /\ UNCHANGED <<table, deleted>>

Rem(k) == table' = htRem(table, k) /\ UNCHANGED <<ret, deleted>>

Delete == table' = htNew /\ deleted' = TRUE /\ UNCHANGED ret

Next ==
  /\ ~deleted
  /\ \/ \E k \in Keys, v \in Payloads, mem \in BOOLEAN : Add(k, v, mem)
     \/ \E k \in Keys : Get(k) \/ Rem(k)
     \/ Delete

Spec == Init /\ [][Next]_vars

-----------------------------------------------------------------------------

\* What may hang in bucket b
Entries(b) == [key : {k \in Keys : Bucket[k] = b}, value : Payloads]

Results == {"none", "htENOERR", "htENOTFOUND", "htEALREADY", "htENOMEM"}

\* Entries hang in the bucket of their key.
TypeOK ==
  /\ table = [b \in Buckets |-> table[b]]
  /\ \A b \in Buckets : table[b] \in Seq(Entries(b))
  /\ ret \in [Keys -> Results \X (Payloads \cup {NoValue})]
  /\ deleted \in BOOLEAN

\* A key that a look-up finds is found, with its value, until it is removed
\* itself: calls about other keys, also those in its bucket, do not lose it
\* (the relinking of HashTable.c:132 and 218).
FoundStays ==
  [][\A k \in Keys : Finds(table, k) =>
       \/ Finds(table', k) /\ htGet(table', k) = htGet(table, k)
       \/ Rem(k) \/ Delete]_vars

\* HashTable.c:80: "Put a new key/value into the HT, return an error if it
\* already exists": a key has one entry at most.
OneEntryPerKey ==
  \A b \in Buckets : \A i, j \in DOMAIN table[b] :
    table[b][i].key = table[b][j].key => i = j

\* Keys that share their bucket with no other
Lone == {k \in Keys : \A l \in Keys : Bucket[l] = Bucket[k] => l = k}

\* They have one entry at most.
LoneAlone == \A k \in Lone : Len(Chain(table, k)) <= 1

\* The table as a map
MapOf(t) == [k \in Lone |-> IF Chain(t, k) = <<>> THEN NoValue ELSE Chain(t, k)[1].value]

RetOf(r) == [k \in Lone |-> r[k]]

\* For the keys that share no bucket the table is a map.
AsMap == INSTANCE KeyMap WITH
  Keys   <- Lone,
  Values <- Payloads,
  map    <- MapOf(table),
  ret    <- RetOf(ret)

ImplementsMap == AsMap!Spec
=============================================================================
