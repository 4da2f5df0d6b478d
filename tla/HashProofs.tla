----------------------------- MODULE HashProofs -----------------------------
(***************************************************************************)
(* Theorems about a hash table under any calls, for every set of keys and  *)
(* every hash: its chains are well formed, and for the keys that share no  *)
(* bucket it is a map.                                                     *)
(***************************************************************************)
EXTENDS HashCalls, SequenceTheorems, WellFoundedInduction, TLAPS

Chained(t) ==
  /\ t = [b \in Buckets |-> t[b]]
  /\ \A b \in Buckets : t[b] \in Seq(Entries(b))

\* A non-empty set of positions has a first one.
LEMMA FirstPosition ==
  ASSUME NEW T, T \subseteq Nat, T # {}
  PROVE  \E x \in T : \A y \in T : x <= y
<1>1. PICK x \in T : \A y \in T : ~(<<y, x>> \in OpToRel(<, Nat))
  BY NatLessThanWellFounded, WFMin, Zenon
<1>2. ASSUME NEW y \in T PROVE x <= y
  <2>1. <<y, x>> \in Nat \X Nat
    OBVIOUS
  <2>2. ~(<<y, x>>[1] < <<y, x>>[2])
    BY <1>1, <2>1, Zenon DEF OpToRel
  <2> QED
    BY <2>2, SMT
<1> QED
  BY <1>2

\* A call that finds its key stops at an entry of the chain.
LEMMA MatchInChain ==
  ASSUME NEW S, NEW c \in Seq(S), NEW k, Matches(c, k) # {}
  PROVE  MatchAt(c, k) \in 1 .. Len(c) /\ MatchAt(c, k) \in Matches(c, k)
<1>1. Len(c) \in Nat
  BY LenProperties
<1>2. Matches(c, k) \subseteq 1 .. Len(c)
  BY <1>1 DEF Matches, Compared
<1>3. \E i \in Matches(c, k) : \A j \in Matches(c, k) : i <= j
  BY <1>2, FirstPosition
<1>4. MatchAt(c, k) \in Matches(c, k)
  BY <1>3 DEF MatchAt
<1> QED
  BY <1>2, <1>4

\* Taking an entry out of a chain leaves a chain.
LEMMA WithoutIsChain ==
  ASSUME NEW S, NEW c \in Seq(S), NEW i \in 1 .. Len(c)
  PROVE  Without(c, i) \in Seq(S) /\ (Len(c) = 1 => Without(c, i) = <<>>)
<1>1. PICK n \in Nat : n = Len(c)
  BY LenProperties
<1>0. c # <<>> /\ i \in 1 .. n
  BY <1>1, EmptySeq
<1>2. CASE i = 1
  <2>1. Tail(c) \in Seq(S) /\ Len(Tail(c)) = n - 1
    BY <1>0, <1>1, HeadTailProperties
  <2>2. n = 1 => Tail(c) = <<>>
    <3>1. n = 1 => Len(Tail(c)) = 0
      BY <2>1
    <3> QED
      BY <2>1, <3>1, EmptySeq
  <2> QED
    BY <1>1, <1>2, <2>1, <2>2 DEF Without
<1>3. CASE i # 1
  <2>1. c[1] \in S
    BY <1>0, <1>1, ElementOfSeq
  <2>2. <<c[1]>> \in Seq(S)
    BY <2>1
  <2>3. \A j \in i + 1 .. n : c[j] \in S
    BY <1>0, <1>1, ElementOfSeq
  <2>4. SubSeq(c, i + 1, Len(c)) \in Seq(S)
    BY <1>0, <1>1, <2>3, SubSeqProperties
  <2>5. <<c[1]>> \o SubSeq(c, i + 1, Len(c)) \in Seq(S)
    BY <2>2, <2>4, ConcatProperties
  <2>6. n # 1
    BY <1>0, <1>3
  <2> QED
    BY <1>1, <1>3, <2>5, <2>6 DEF Without
<1> QED
  BY <1>2, <1>3

\* An addition keeps the chains well formed and touches that of its key only.
LEMMA AddChained ==
  ASSUME NEW t, Chained(t), NEW k \in Keys, NEW v \in Payloads, NEW mem
  PROVE  /\ Chained(htAddNew(t, k, v, mem))
         /\ \A b \in Buckets \ {Bucket[k]} : htAddNew(t, k, v, mem)[b] = t[b]
<1> DEFINE e == [key |-> k, value |-> v]
<1>1. Bucket[k] \in Buckets
  BY DEF Buckets
<1>2. e \in Entries(Bucket[k])
  BY DEF Entries
<1>3. CASE htAddNewErr(t, k, mem) # "htENOERR"
  BY <1>3 DEF htAddNew
<1>4. CASE htAddNewErr(t, k, mem) = "htENOERR"
  <2>1. htAddNew(t, k, v, mem) = [t EXCEPT ![Bucket[k]] = Append(@, e)]
    BY <1>4 DEF htAddNew
  <2>2. t[Bucket[k]] \in Seq(Entries(Bucket[k]))
    BY <1>1 DEF Chained
  <2>3. Append(t[Bucket[k]], e) \in Seq(Entries(Bucket[k]))
    BY <1>2, <2>2, AppendProperties
  <2> HIDE DEF e
  <2> QED
    BY <1>1, <2>1, <2>3 DEF Chained
<1> QED
  BY <1>3, <1>4

\* So does a removal.
LEMMA RemChained ==
  ASSUME NEW t, Chained(t), NEW k \in Keys
  PROVE  /\ Chained(htRem(t, k))
         /\ \A b \in Buckets \ {Bucket[k]} : htRem(t, k)[b] = t[b]
<1>1. Bucket[k] \in Buckets
  BY DEF Buckets
<1>2. CASE ~Finds(t, k)
  BY <1>2 DEF htRem
<1>3. CASE Finds(t, k)
  <2> DEFINE c == t[Bucket[k]]
  <2>1. htRem(t, k) = [t EXCEPT ![Bucket[k]] = Without(c, MatchAt(c, k))]
    BY <1>1, <1>3 DEF htRem, Chained
  <2>2. c \in Seq(Entries(Bucket[k]))
    BY <1>1 DEF Chained
  <2>3. Matches(c, k) # {}
    BY <1>3 DEF Finds, Chain
  <2>4. Without(c, MatchAt(c, k)) \in Seq(Entries(Bucket[k]))
    <3> HIDE DEF c
    <3> QED
      BY <2>2, <2>3, MatchInChain, WithoutIsChain
  <2> HIDE DEF c
  <2> QED
    BY <1>1, <2>1, <2>4 DEF Chained
<1> QED
  BY <1>2, <1>3

\* A sequence no longer than one is empty or has one element.
LEMMA OneAtMost ==
  ASSUME NEW S, NEW c \in Seq(S), Len(c) <= 1
  PROVE  c = <<>> \/ Len(c) = 1
<1>1. PICK n \in Nat : n = Len(c)
  BY LenProperties
<1>2. n = 0 \/ n = 1
  BY <1>1
<1> QED
  BY <1>1, <1>2, EmptySeq

\* The chain of a key that shares no bucket holds nothing but that key.
LEMMA LoneEntries ==
  ASSUME NEW t, Chained(t), NEW k \in Lone, Len(Chain(t, k)) <= 1
  PROVE  /\ Chain(t, k) = <<>> \/ Len(Chain(t, k)) = 1
         /\ Chain(t, k) # <<>> =>
              Chain(t, k)[1].key = k /\ Chain(t, k)[1].value \in Payloads
         /\ Finds(t, k) <=> Chain(t, k) # <<>>
         /\ Finds(t, k) => MatchAt(Chain(t, k), k) = 1
<1> DEFINE c == Chain(t, k)
<1>1. k \in Keys /\ Bucket[k] \in Buckets
  BY DEF Lone, Buckets
<1>2. c \in Seq(Entries(Bucket[k]))
  BY <1>1 DEF Chained, Chain
<1>3. c = <<>> \/ Len(c) = 1
  BY <1>2, OneAtMost
<1>4. c # <<>> => c[1] \in Entries(Bucket[k])
  <2> HIDE DEF c
  <2> QED
    BY <1>2, <1>3, ElementOfSeq
<1>5. c # <<>> => c[1].key = k /\ c[1].value \in Payloads
  BY <1>1, <1>4 DEF Entries, Lone
<1>6. c # <<>> => Matches(c, k) = {1}
  <2>1. c # <<>> => Compared(c) = {1}
    BY <1>3 DEF Compared
  <2> QED
    BY <1>5, <2>1 DEF Matches
<1>7. c = <<>> => Matches(c, k) = {}
  <2>1. Len(<<>>) = 0
    OBVIOUS
  <2>2. c = <<>> => Compared(c) = {}
    BY <2>1 DEF Compared
  <2> HIDE DEF c
  <2> QED
    BY <2>2 DEF Matches
<1>8. c # <<>> => MatchAt(c, k) = 1
  <2> SUFFICES ASSUME c # <<>> PROVE MatchAt(c, k) = 1
    OBVIOUS
  <2>1. MatchAt(c, k) \in Matches(c, k)
    <3> HIDE DEF c
    <3> QED
      BY <1>2, <1>6, MatchInChain
  <2> QED
    BY <1>6, <2>1
<1> QED
  BY <1>3, <1>5, <1>6, <1>7, <1>8 DEF Finds

-----------------------------------------------------------------------------
(* The invariant                                                           *)

HInv == TypeOK /\ LoneAlone

\* What an addition and a removal do to the chain of a lone key
LEMMA LoneAdd ==
  ASSUME NEW t, Chained(t), NEW k \in Lone, Len(Chain(t, k)) <= 1,
         NEW v \in Payloads, NEW mem
  PROVE  /\ Len(Chain(htAddNew(t, k, v, mem), k)) <= 1
         /\ htAddNewErr(t, k, mem) = "htENOERR" =>
              /\ Chain(t, k) = <<>>
              /\ Chain(htAddNew(t, k, v, mem), k) = <<[key |-> k, value |-> v]>>
<1>1. k \in Keys /\ Bucket[k] \in Buckets
  BY DEF Lone, Buckets
<1>2. CASE htAddNewErr(t, k, mem) # "htENOERR"
  BY <1>2 DEF htAddNew
<1>3. CASE htAddNewErr(t, k, mem) = "htENOERR"
  <2>1. Chain(t, k) = <<>>
    BY <1>3, LoneEntries DEF htAddNewErr
  <2>2. htAddNew(t, k, v, mem) = [t EXCEPT ![Bucket[k]] = Append(@, [key |-> k, value |-> v])]
    BY <1>3 DEF htAddNew
  <2>3. Chain(htAddNew(t, k, v, mem), k) = Append(<<>>, [key |-> k, value |-> v])
    BY <1>1, <2>1, <2>2 DEF Chain, Chained
  <2>4. Append(<<>>, [key |-> k, value |-> v]) = <<[key |-> k, value |-> v]>>
    OBVIOUS
  <2> QED
    BY <2>1, <2>3, <2>4
<1> QED
  BY <1>2, <1>3

\* A removal leaves a lone key's chain empty.
LEMMA LoneRem ==
  ASSUME NEW t, Chained(t), NEW k \in Lone, Len(Chain(t, k)) <= 1
  PROVE  Chain(htRem(t, k), k) = <<>>
<1> DEFINE c == Chain(t, k)
<1>1. k \in Keys /\ Bucket[k] \in Buckets
  BY DEF Lone, Buckets
<1>2. CASE ~Finds(t, k)
  BY <1>2, LoneEntries DEF htRem
<1>3. CASE Finds(t, k)
  <2>1. MatchAt(c, k) = 1 /\ Len(c) = 1
    BY <1>3, LoneEntries
  <2>2. c \in Seq(Entries(Bucket[k]))
    BY <1>1 DEF Chained, Chain
  <2>3. Without(c, 1) = <<>>
    <3> HIDE DEF c
    <3> QED
      BY <2>1, <2>2, WithoutIsChain
  <2>4. htRem(t, k) = [t EXCEPT ![Bucket[k]] = Without(c, MatchAt(c, k))]
    BY <1>1, <1>3 DEF htRem, Chained, Chain
  <2> HIDE DEF c
  <2> QED
    BY <1>1, <2>1, <2>3, <2>4 DEF Chain, Chained
<1> QED
  BY <1>2, <1>3

\* A lone key's bucket is its own.
LEMMA OwnBucket ==
  ASSUME NEW k \in Lone, NEW l \in Keys, l # k
  PROVE  Bucket[k] \in Buckets \ {Bucket[l]}
  BY DEF Lone, Buckets

\* The codes of the calls, and what a look-up hands out
LEMMA ResultTypes ==
  ASSUME NEW t, Chained(t), NEW k \in Keys, NEW mem
  PROVE  /\ htAddNewErr(t, k, mem) \in Results
         /\ htGetErr(t, k) \in Results
         /\ htGet(t, k) \in Payloads \cup {NoValue}
<1> DEFINE c == Chain(t, k)
<1>1. c \in Seq(Entries(Bucket[k]))
  BY DEF Chained, Chain, Buckets
<1>2. Finds(t, k) => c[MatchAt(c, k)] \in Entries(Bucket[k])
  <2> SUFFICES ASSUME Finds(t, k) PROVE c[MatchAt(c, k)] \in Entries(Bucket[k])
    OBVIOUS
  <2>1. Matches(c, k) # {}
    BY DEF Finds
  <2> HIDE DEF c
  <2> QED
    BY <1>1, <2>1, MatchInChain, ElementOfSeq
<1> QED
  BY <1>2 DEF htAddNewErr, htGetErr, htGet, Results, Entries

\* The type invariant, in parts.
LEMMA TypeParts == TypeOK <=> /\ Chained(table)
                              /\ ret \in [Keys -> Results \X (Payloads \cup {NoValue})]
                              /\ deleted \in BOOLEAN
  BY DEF TypeOK, Chained

\* An empty table has empty chains.
LEMMA NewChained == Chained(htNew) /\ \A k \in Keys : Chain(htNew, k) = <<>>
<1>1. \A b \in Buckets : htNew[b] = <<>> /\ <<>> \in Seq(Entries(b))
  BY EmptySeq DEF htNew
<1> QED
  BY <1>1 DEF Chained, Chain, Buckets, htNew

\* A new table keeps the invariant.
LEMMA HInit == Init => HInv
<1> SUFFICES ASSUME Init PROVE HInv
  OBVIOUS
<1>1. Chained(table) /\ \A k \in Keys : Chain(table, k) = <<>>
  BY NewChained DEF Init
<1>2. Len(<<>>) = 0
  OBVIOUS
<1>3. LoneAlone
  <2>1. \A k \in Lone : Chain(table, k) = <<>>
    BY <1>1 DEF Lone
  <2>2. \A k \in Lone : Len(Chain(table, k)) = 0
    BY <1>2, <2>1
  <2> QED
    BY <2>2 DEF LoneAlone
<1>4. ret \in [Keys -> Results \X (Payloads \cup {NoValue})]
  BY DEF Init, Results
<1> QED
  BY <1>1, <1>3, <1>4, TypeParts DEF HInv, Init

-----------------------------------------------------------------------------
(* Each call keeps the invariant and is a call of the map, or none          *)

\* A call about key l leaves the chains of the other lone keys alone.
LEMMA OthersKept ==
  ASSUME NEW t, NEW u, NEW l \in Keys, \A b \in Buckets \ {Bucket[l]} : u[b] = t[b]
  PROVE  \A k \in Lone \ {l} : Chain(u, k) = Chain(t, k)
<1> SUFFICES ASSUME NEW k \in Lone \ {l} PROVE Chain(u, k) = Chain(t, k)
  OBVIOUS
<1>1. Bucket[k] \in Buckets \ {Bucket[l]}
  BY OwnBucket
<1> QED
  BY <1>1 DEF Chain

First(c) == IF c = <<>> THEN NoValue ELSE c[1].value

\* So that the map changes at l, or not at all.
LEMMA MapChange ==
  ASSUME NEW t, NEW u, NEW l \in Keys, \A b \in Buckets \ {Bucket[l]} : u[b] = t[b]
  PROVE  /\ l \in Lone => MapOf(u) = [MapOf(t) EXCEPT ![l] = First(Chain(u, l))]
         /\ l \notin Lone => MapOf(u) = MapOf(t)
<1>1. \A k \in Lone \ {l} : Chain(u, k) = Chain(t, k)
  BY OthersKept
<1>2. MapOf(u) = [k \in Lone |-> First(Chain(u, k))]
  BY DEF MapOf, First
<1>3. MapOf(t) = [k \in Lone |-> First(Chain(t, k))]
  BY DEF MapOf, First
<1> QED
  BY <1>1, <1>2, <1>3

\* The map has a value for a lone key exactly when the key is found.
LEMMA FoundIsMapped ==
  ASSUME NEW t, Chained(t), NEW k \in Lone, Len(Chain(t, k)) <= 1
  PROVE  /\ MapOf(t)[k] = htGet(t, k)
         /\ Finds(t, k) <=> MapOf(t)[k] # NoValue
<1>1. MapOf(t)[k] = First(Chain(t, k))
  BY DEF MapOf, First
<1> QED
  BY <1>1, LoneEntries, PayloadsAssumption DEF htGet, First

Kept == UNCHANGED <<MapOf(table), RetOf(ret)>>

\* htAddNew of a lone key is an addition to the map.
LEMMA AddStep ==
  ASSUME HInv, NEW k \in Keys, NEW v \in Payloads, NEW mem \in BOOLEAN, Add(k, v, mem)
  PROVE  HInv' /\ (AsMap!Next \/ Kept)
<1> DEFINE e == htAddNewErr(table, k, mem)
<1>1. Chained(table) /\ LoneAlone /\ ret \in [Keys -> Results \X (Payloads \cup {NoValue})]
  BY TypeParts DEF HInv
<1>2. /\ table' = htAddNew(table, k, v, mem)
      /\ ret' = [ret EXCEPT ![k] = <<e, NoValue>>]
      /\ deleted' = deleted
  BY DEF Add
<1>3. Chained(table') /\ \A b \in Buckets \ {Bucket[k]} : table'[b] = table[b]
  BY <1>1, <1>2, AddChained
<1>4. <<e, NoValue>> \in Results \X (Payloads \cup {NoValue})
  BY <1>1, ResultTypes
<1> DEFINE x == <<e, NoValue>>
<1>9. /\ ret' \in [Keys -> Results \X (Payloads \cup {NoValue})]
      /\ k \in Lone => RetOf(ret') = [RetOf(ret) EXCEPT ![k] = x]
      /\ k \notin Lone => RetOf(ret') = RetOf(ret)
  <2>1. x \in Results \X (Payloads \cup {NoValue}) /\ ret' = [ret EXCEPT ![k] = x]
    BY <1>2, <1>4
  <2> HIDE DEF x
  <2> QED
    BY <1>1, <2>1 DEF RetOf, Lone
<1>5. TypeOK'
  BY <1>2, <1>3, <1>9 DEF HInv, TypeOK, Chained
<1>6. LoneAlone'
  <2> SUFFICES ASSUME NEW l \in Lone PROVE Len(Chain(table', l)) <= 1
    BY DEF LoneAlone
  <2>1. Len(Chain(table, l)) <= 1
    BY <1>1 DEF LoneAlone
  <2>2. CASE l = k
    BY <1>1, <1>2, <2>1, <2>2, LoneAdd
  <2>3. CASE l # k
    BY <1>3, <2>1, <2>3, OthersKept
  <2> QED
    BY <2>2, <2>3
<1>7. CASE k \in Lone
  <2>1. Len(Chain(table, k)) <= 1
    BY <1>1, <1>7 DEF LoneAlone
  <2>2. MapOf(table') = [MapOf(table) EXCEPT ![k] = First(Chain(table', k))]
    BY <1>3, <1>7, MapChange
  <2>3. RetOf(ret') = [RetOf(ret) EXCEPT ![k] = <<e, NoValue>>]
    BY <1>7, <1>9
  <2>4. Finds(table, k) <=> MapOf(table)[k] # NoValue
    BY <1>1, <1>7, <2>1, FoundIsMapped
  <2>5. CASE e = "htENOERR"
    <3>1. Chain(table', k) = <<[key |-> k, value |-> v]>> /\ ~Finds(table, k)
      BY <1>1, <1>2, <1>7, <2>1, <2>5, LoneAdd DEF htAddNewErr
    <3>2. First(Chain(table', k)) = v
      BY <3>1 DEF First
    <3>3. AsMap!Add(k, v)
      BY <2>2, <2>3, <2>4, <2>5, <3>1, <3>2 DEF AsMap!Add, AsMap!Returns
    <3> QED
      BY <1>5, <1>6, <1>7, <3>3 DEF AsMap!Next, HInv
  <2>6. CASE e # "htENOERR"
    <3>1. table' = table
      BY <1>2, <2>6 DEF htAddNew
    <3>2. \/ e = "htEALREADY" /\ Finds(table, k)
          \/ e = "htENOMEM" /\ ~Finds(table, k)
      BY <2>6 DEF htAddNewErr
    <3>3. AsMap!Add(k, v)
      BY <2>3, <2>4, <3>1, <3>2 DEF AsMap!Add, AsMap!Returns
    <3> QED
      BY <1>5, <1>6, <1>7, <3>3 DEF AsMap!Next, HInv
  <2> QED
    BY <2>5, <2>6
<1>8. CASE k \notin Lone
  <2>1. MapOf(table') = MapOf(table) /\ RetOf(ret') = RetOf(ret)
    BY <1>3, <1>8, <1>9, MapChange
  <2> QED
    BY <1>5, <1>6, <2>1 DEF Kept, HInv
<1> QED
  BY <1>7, <1>8

\* htGet of a lone key is a look-up in the map.
LEMMA GetStep ==
  ASSUME HInv, NEW k \in Keys, Get(k)
  PROVE  HInv' /\ (AsMap!Next \/ Kept)
<1> DEFINE x == <<htGetErr(table, k), htGet(table, k)>>
<1>1. Chained(table) /\ LoneAlone /\ ret \in [Keys -> Results \X (Payloads \cup {NoValue})]
  BY TypeParts DEF HInv
<1>2. ret' = [ret EXCEPT ![k] = x] /\ table' = table /\ deleted' = deleted
  BY DEF Get
<1>3. x \in Results \X (Payloads \cup {NoValue})
  BY <1>1, ResultTypes
<1>9. /\ ret' \in [Keys -> Results \X (Payloads \cup {NoValue})]
      /\ k \in Lone => RetOf(ret') = [RetOf(ret) EXCEPT ![k] = x]
      /\ k \notin Lone => RetOf(ret') = RetOf(ret)
  <2> HIDE DEF x
  <2> QED
    BY <1>1, <1>2, <1>3 DEF RetOf, Lone
<1>4. HInv'
  BY <1>1, <1>2, <1>9 DEF HInv, TypeOK, LoneAlone
<1>5. CASE k \in Lone
  <2>1. Len(Chain(table, k)) <= 1
    BY <1>1, <1>5 DEF LoneAlone
  <2>2. RetOf(ret') = [RetOf(ret) EXCEPT ![k] = x]
    BY <1>5, <1>9
  <2>3. htGet(table, k) = MapOf(table)[k] /\ (Finds(table, k) <=> MapOf(table)[k] # NoValue)
    BY <1>1, <1>5, <2>1, FoundIsMapped
  <2>4. x = <<IF MapOf(table)[k] = NoValue THEN "htENOTFOUND" ELSE "htENOERR", MapOf(table)[k]>>
    BY <2>3 DEF htGetErr
  <2>5. AsMap!Get(k)
    BY <1>2, <2>2, <2>4 DEF AsMap!Get, AsMap!Returns
  <2> QED
    BY <1>4, <1>5, <2>5 DEF AsMap!Next
<1>6. CASE k \notin Lone
  BY <1>2, <1>4, <1>6, <1>9 DEF Kept
<1> QED
  BY <1>5, <1>6

\* htRem of a lone key is a removal from the map.
LEMMA RemStep ==
  ASSUME HInv, NEW k \in Keys, Rem(k)
  PROVE  HInv' /\ (AsMap!Next \/ Kept)
<1>1. Chained(table) /\ LoneAlone
  BY TypeParts DEF HInv
<1>2. table' = htRem(table, k) /\ ret' = ret /\ deleted' = deleted
  BY DEF Rem
<1>3. Chained(table') /\ \A b \in Buckets \ {Bucket[k]} : table'[b] = table[b]
  BY <1>1, <1>2, RemChained
<1>4. TypeOK'
  BY <1>2, <1>3 DEF HInv, TypeOK, Chained
<1>5. \A l \in Lone : Len(Chain(table, l)) <= 1
  BY <1>1 DEF LoneAlone
<1>6. k \in Lone => Chain(table', k) = <<>>
  BY <1>1, <1>2, <1>5, LoneRem
<1>7. LoneAlone'
  <2>1. Len(<<>>) = 0
    OBVIOUS
  <2>2. \A l \in Lone : Chain(table', l) = Chain(table, l) \/ Chain(table', l) = <<>>
    BY <1>3, <1>6, OthersKept
  <2>3. \A l \in Lone : Len(Chain(table', l)) <= 1
    BY <1>5, <2>1, <2>2
  <2> QED
    BY <2>3 DEF LoneAlone
<1>8. CASE k \in Lone
  <2>1. MapOf(table') = [MapOf(table) EXCEPT ![k] = NoValue]
    BY <1>3, <1>6, <1>8, MapChange DEF First
  <2>2. AsMap!Remove(k)
    BY <1>2, <2>1 DEF AsMap!Remove
  <2> QED
    BY <1>4, <1>7, <1>8, <2>2 DEF AsMap!Next, HInv
<1>9. CASE k \notin Lone
  BY <1>2, <1>3, <1>4, <1>7, <1>9, MapChange DEF Kept, HInv
<1> QED
  BY <1>8, <1>9

\* htDelete clears the map.
LEMMA DeleteStep ==
  ASSUME HInv, Delete
  PROVE  HInv' /\ (AsMap!Next \/ Kept)
<1>1. table' = htNew /\ ret' = ret /\ deleted' = TRUE
  BY DEF Delete
<1>2. Chained(table') /\ \A k \in Lone : Chain(table', k) = <<>>
  BY <1>1, NewChained DEF Lone
<1>3. TypeOK'
  BY <1>1, <1>2 DEF HInv, TypeOK, Chained
<1>4. LoneAlone'
  <2>1. Len(<<>>) = 0
    OBVIOUS
  <2> QED
    BY <1>2, <2>1 DEF LoneAlone
<1>5. MapOf(table') = [k \in Lone |-> NoValue]
  BY <1>2 DEF MapOf
<1>6. AsMap!Clear
  BY <1>1, <1>5 DEF AsMap!Clear
<1> QED
  BY <1>3, <1>4, <1>6 DEF AsMap!Next, HInv

\* Every step keeps the invariant and is one of the map, or none of it.
LEMMA Step == HInv /\ [Next]_vars => HInv' /\ [AsMap!Next]_(AsMap!vars)
<1>1. CASE UNCHANGED vars
  BY <1>1 DEF vars, HInv, TypeOK, LoneAlone, AsMap!vars
<1>2. ASSUME HInv, Next PROVE HInv' /\ (AsMap!Next \/ Kept)
  BY <1>2, AddStep, GetStep, RemStep, DeleteStep DEF Next
<1> QED
  BY <1>1, <1>2 DEF Kept, AsMap!vars

-----------------------------------------------------------------------------
(* What is found stays, with two keys to a bucket at most                  *)

Paired ==
  \A k, l, m \in Keys :
    Bucket[k] = Bucket[l] /\ Bucket[l] = Bucket[m] => k = l \/ l = m \/ k = m

\* A match before all others is the one a call stops at.
LEMMA StopsAtFirst ==
  ASSUME NEW S, NEW c \in Seq(S), NEW k, NEW m \in Matches(c, k),
         \A j \in Matches(c, k) : m <= j
  PROVE  MatchAt(c, k) = m
<1>1. PICK n \in Nat : n = Len(c)
  BY LenProperties
<1>2. Matches(c, k) \subseteq 1 .. n \cup {1}
  BY <1>1 DEF Matches, Compared
<1>3. \A j \in Matches(c, k) : MatchAt(c, k) \in Matches(c, k) /\ MatchAt(c, k) <= j
  BY DEF MatchAt
<1>4. MatchAt(c, k) \in Matches(c, k) /\ MatchAt(c, k) <= m /\ m <= MatchAt(c, k)
  BY <1>3
<1>5. MatchAt(c, k) \in Int /\ m \in Int
  BY <1>2, <1>4
<1> QED
  BY <1>4, <1>5

\* The head of a chain is compared, however long the chain.
LEMMA HeadIsFound ==
  ASSUME NEW S, NEW c \in Seq(S), c # <<>>, NEW k, c[1].key = k
  PROVE  Matches(c, k) # {} /\ MatchAt(c, k) = 1
<1>1. PICK n \in Nat : n = Len(c)
  BY LenProperties
<1>2. n # 0
  BY <1>1, EmptySeq
<1>3. Compared(c) = IF n = 1 THEN {1} ELSE 1 .. n - 1
  BY <1>1 DEF Compared
<1>4. 1 \in Compared(c) /\ \A j \in Compared(c) : 1 <= j
  BY <1>2, <1>3
<1>5. 1 \in Matches(c, k) /\ \A j \in Matches(c, k) : 1 <= j
  BY <1>4 DEF Matches
<1> QED
  BY <1>5, StopsAtFirst

\* An entry at the end of the chain hides none before it.
LEMMA AppendKeepsMatch ==
  ASSUME NEW S, NEW c \in Seq(S), NEW e \in S, NEW k, Matches(c, k) # {}
  PROVE  /\ Matches(Append(c, e), k) # {}
         /\ Append(c, e)[MatchAt(Append(c, e), k)] = c[MatchAt(c, k)]
<1> DEFINE d == Append(c, e)
           m == MatchAt(c, k)
<1>1. PICK n \in Nat : n = Len(c)
  BY LenProperties
<1>2. d \in Seq(S) /\ Len(d) = n + 1 /\ \A i \in 1 .. n : d[i] = c[i]
  BY <1>1, AppendProperties
<1>3. m \in 1 .. n /\ m \in Matches(c, k)
  BY <1>1, MatchInChain
<1>4. \A j \in Matches(c, k) : m <= j
  <2>1. Matches(c, k) \subseteq 1 .. n
    <3>1. n # 0
      BY <1>3
    <3> QED
      BY <1>1, <3>1 DEF Matches, Compared
  <2>2. \E i \in Matches(c, k) : \A j \in Matches(c, k) : i <= j
    BY <2>1, FirstPosition
  <2> QED
    BY <2>2 DEF MatchAt
<1> HIDE DEF d, m
<1>5. Compared(c) = IF n = 1 THEN {1} ELSE 1 .. n - 1
  BY <1>1 DEF Compared
<1>6. Compared(d) = 1 .. n
  BY <1>2, <1>3 DEF Compared
<1>7. m \in Matches(d, k)
  BY <1>2, <1>3, <1>6 DEF Matches
<1>8. ASSUME NEW j \in Matches(d, k) PROVE m <= j
  <2>1. j \in 1 .. n /\ c[j].key = k
    BY <1>2, <1>6 DEF Matches
  <2>2. CASE j \in Compared(c)
    BY <1>4, <2>1, <2>2 DEF Matches
  <2>3. CASE j \notin Compared(c)
    BY <1>3, <1>5, <2>1, <2>3
  <2> QED
    BY <2>2, <2>3
<1>9. MatchAt(d, k) = m
  BY <1>2, <1>7, <1>8, StopsAtFirst
<1> QED
  BY <1>2, <1>3, <1>7, <1>9 DEF d, m

\* Nor does the removal of the other key of the chain.
LEMMA WithoutKeepsMatch ==
  ASSUME NEW S, NEW c \in Seq(S), NEW k, NEW l, k # l,
         \A i \in 1 .. Len(c) : c[i].key \in {k, l},
         Matches(c, k) # {}, Matches(c, l) # {}
  PROVE  LET d == Without(c, MatchAt(c, l)) IN
         Matches(d, k) # {} /\ d[MatchAt(d, k)] = c[MatchAt(c, k)]
<1> DEFINE j == MatchAt(c, l)
           m == MatchAt(c, k)
           d == Without(c, j)
<1>1. PICK n \in Nat : n = Len(c)
  BY LenProperties
<1>2. /\ m \in 1 .. n /\ m \in Matches(c, k)
      /\ j \in 1 .. n /\ j \in Matches(c, l)
  BY <1>1, MatchInChain
<1>3. c # <<>> /\ d \in Seq(S)
  <2>1. d \in Seq(S)
    <3> HIDE DEF j
    <3> QED
      BY <1>1, <1>2, WithoutIsChain
  <2> QED
    BY <2>1 DEF Matches, Compared
<1>4. CASE c[1].key = k
  <2>1. m = 1
    BY <1>3, <1>4, HeadIsFound
  <2>2. j # 1
    BY <1>2, <1>4 DEF Matches
  <2>3. d = <<c[1]>> \o SubSeq(c, j + 1, Len(c))
    BY <2>2 DEF Without
  <2> HIDE DEF j, d
  <2>4. c[1] \in S /\ \A i \in j + 1 .. n : c[i] \in S
    BY <1>1, <1>2, ElementOfSeq
  <2>5. SubSeq(c, j + 1, Len(c)) \in Seq(S)
    BY <1>1, <1>2, <2>4, SubSeqProperties
  <2>6. <<c[1]>> \in Seq(S) /\ Len(<<c[1]>>) = 1
    BY <2>4
  <2>7. d[1] = c[1] /\ d # <<>>
    <3> DEFINE x == <<c[1]>>
               y == SubSeq(c, j + 1, Len(c))
    <3>1. x[1] = c[1]
      OBVIOUS
    <3> HIDE DEF x, y
    <3>2. Len(x \o y) = Len(x) + Len(y) /\ \A i \in 1 .. Len(x) : (x \o y)[i] = x[i]
      BY <2>5, <2>6, ConcatProperties DEF x, y
    <3>3. Len(x) = 1
      BY <2>6 DEF x
    <3>4. PICK p \in Nat : p = Len(y)
      BY <2>5, LenProperties DEF y
    <3>5. d = x \o y
      BY <2>3 DEF x, y
    <3>6. Len(d) = 1 + p /\ d[1] = x[1]
      BY <3>2, <3>3, <3>4, <3>5
    <3>7. Len(d) # 0
      BY <3>6
    <3> QED
      BY <3>1, <3>6, <3>7, EmptySeq
  <2>8. Matches(d, k) # {} /\ MatchAt(d, k) = 1
    BY <1>3, <1>4, <2>7, HeadIsFound
  <2> QED
    BY <2>1, <2>7, <2>8 DEF d, j
<1>5. CASE c[1].key = l
  <2>1. j = 1
    BY <1>3, <1>5, HeadIsFound
  <2>2. d = Tail(c)
    BY <2>1 DEF Without
  <2> HIDE DEF j, d
  <2>3. Len(d) = n - 1 /\ \A i \in 1 .. n - 1 : d[i] = c[i + 1]
    BY <1>1, <1>3, <2>2, HeadTailProperties
  <2>4. m # 1
    BY <1>2, <1>5 DEF Matches
  <2>5. Compared(c) = IF n = 1 THEN {1} ELSE 1 .. n - 1
    BY <1>1 DEF Compared
  <2>6. m \in 2 .. n - 1
    BY <1>2, <2>4, <2>5 DEF Matches
  <2>7. \A i \in Matches(c, k) : m <= i
    <3>1. Matches(c, k) \subseteq 1 .. n
      BY <2>5, <2>6 DEF Matches
    <3>2. \E i \in Matches(c, k) : \A h \in Matches(c, k) : i <= h
      BY <3>1, FirstPosition
    <3> QED
      BY <3>2 DEF MatchAt
  <2> HIDE DEF m
  <2>8. Compared(d) = 1 .. n - 2
    BY <2>3, <2>6 DEF Compared
  <2>9. m - 1 \in Matches(d, k) /\ d[m - 1] = c[m]
    BY <1>2, <2>3, <2>6, <2>8 DEF Matches
  <2>10. ASSUME NEW i \in Matches(d, k) PROVE m - 1 <= i
    <3>1. i \in 1 .. n - 2 /\ c[i + 1].key = k
      BY <2>3, <2>8 DEF Matches
    <3>2. i + 1 \in Matches(c, k)
      BY <2>5, <3>1 DEF Matches
    <3> QED
      BY <2>6, <2>7, <3>1, <3>2
  <2>11. MatchAt(d, k) = m - 1
    BY <1>3, <2>9, <2>10, StopsAtFirst
  <2> QED
    BY <2>9, <2>11 DEF d, j, m
<1> QED
  BY <1>1, <1>2, <1>4, <1>5

Same(t, u, k) == Finds(u, k) /\ htGet(u, k) = htGet(t, k)

\* A chain that did not change finds what it found.
LEMMA SameChain ==
  ASSUME NEW t, NEW u, NEW k, Finds(t, k), Chain(u, k) = Chain(t, k)
  PROVE  Same(t, u, k)
  BY DEF Same, Finds, htGet

\* What is found is found after an addition.
LEMMA AddKeeps ==
  ASSUME NEW t, Chained(t), NEW k \in Keys, NEW l \in Keys, NEW v \in Payloads, NEW mem,
         Finds(t, k)
  PROVE  Same(t, htAddNew(t, l, v, mem), k)
<1> DEFINE e == [key |-> l, value |-> v]
           u == htAddNew(t, l, v, mem)
<1>1. Bucket[k] \in Buckets /\ Bucket[l] \in Buckets
  BY DEF Buckets
<1>2. CASE Chain(u, k) = Chain(t, k)
  BY <1>2, SameChain
<1>3. CASE Chain(u, k) # Chain(t, k)
  <2>1. Bucket[l] = Bucket[k] /\ u = [t EXCEPT ![Bucket[l]] = Append(@, e)]
    BY <1>1, <1>3, AddChained DEF Chain, htAddNew
  <2>2. Chain(u, k) = Append(Chain(t, k), e)
    BY <1>1, <2>1 DEF Chain, Chained
  <2>3. Chain(t, k) \in Seq(Entries(Bucket[k])) /\ e \in Entries(Bucket[k])
    BY <1>1, <2>1 DEF Chained, Chain, Entries
  <2>4. Matches(Chain(t, k), k) # {}
    BY DEF Finds
  <2>5. /\ Matches(Append(Chain(t, k), e), k) # {}
        /\ Append(Chain(t, k), e)[MatchAt(Append(Chain(t, k), e), k)]
             = Chain(t, k)[MatchAt(Chain(t, k), k)]
    <3> HIDE DEF e
    <3> QED
      BY <2>3, <2>4, AppendKeepsMatch
  <2> HIDE DEF e, u
  <2>6. Same(t, u, k)
    BY <2>2, <2>5 DEF Same, Finds, htGet
  <2> QED
    BY <2>6 DEF u
<1> QED
  BY <1>2, <1>3

\* What is found is found after the removal of another key.
LEMMA RemKeeps ==
  ASSUME Paired, NEW t, Chained(t), NEW k \in Keys, NEW l \in Keys, k # l, Finds(t, k)
  PROVE  Same(t, htRem(t, l), k)
<1> DEFINE u == htRem(t, l)
           c == Chain(t, k)
<1>1. Bucket[k] \in Buckets /\ Bucket[l] \in Buckets
  BY DEF Buckets
<1>2. CASE Chain(u, k) = c
  BY <1>2, SameChain
<1>3. CASE Chain(u, k) # c
  <2>1. /\ Bucket[l] = Bucket[k] /\ Finds(t, l)
        /\ u = [t EXCEPT ![Bucket[l]] = Without(@, MatchAt(@, l))]
    BY <1>1, <1>3, RemChained DEF Chain, htRem
  <2>2. Chain(u, k) = Without(c, MatchAt(c, l)) /\ Chain(t, l) = c
    BY <1>1, <2>1 DEF Chain, Chained
  <2>3. c \in Seq(Entries(Bucket[k]))
    BY <1>1 DEF Chained, Chain
  <2>4. \A i \in 1 .. Len(c) : c[i].key \in {k, l}
    <3>1. \A x \in Entries(Bucket[k]) : x.key \in {k, l}
      BY <2>1 DEF Entries, Paired
    <3> HIDE DEF c
    <3> QED
      BY <2>3, <3>1, ElementOfSeq
  <2>5. Matches(c, k) # {} /\ Matches(c, l) # {}
    BY <2>1, <2>2 DEF Finds
  <2>6. LET d == Without(c, MatchAt(c, l)) IN
        Matches(d, k) # {} /\ d[MatchAt(d, k)] = c[MatchAt(c, k)]
    <3> HIDE DEF c
    <3> QED
      BY <2>3, <2>4, <2>5, WithoutKeepsMatch
  <2> QED
    BY <2>2, <2>5, <2>6 DEF Same, Finds, htGet
<1> QED
  BY <1>2, <1>3

-----------------------------------------------------------------------------
(* The theorems                                                            *)

\* TypeOK, whatever the calls: every entry hangs in the bucket of its key
\* (getIdx, HashTable.c:73), also when chains are relinked.
THEOREM HashTypes == Spec => []TypeOK
<1>1. Spec => []HInv
  BY HInit, Step, PTL DEF Spec
<1>2. HInv => TypeOK
  BY DEF HInv
<1> QED
  BY <1>1, <1>2, PTL

\* ImplementsMap: for the keys that share a bucket with no other the table is
\* a map, which is what its callers take it for (HashTable.c:80, 142, 186).
THEOREM HashIsMap == Spec => ImplementsMap
<1>1. Init => AsMap!Init
  <2> SUFFICES ASSUME Init PROVE AsMap!Init
    OBVIOUS
  <2>1. \A k \in Lone : Chain(table, k) = <<>>
    BY NewChained DEF Init, Lone
  <2>2. MapOf(table) = [k \in Lone |-> NoValue]
    BY <2>1 DEF MapOf
  <2>3. RetOf(ret) = [k \in Lone |-> <<"none", NoValue>>]
    BY DEF Init, Lone, RetOf
  <2> QED
    BY <2>2, <2>3 DEF AsMap!Init
<1> QED
  BY <1>1, HInit, Step, PTL DEF Spec, ImplementsMap, AsMap!Spec

\* FoundStays: in a table with two keys to a bucket at most, what a look-up
\* finds it finds until it is removed (HashTable.c:132, 218).
THEOREM FoundIsKept ==
  ASSUME Paired
  PROVE  Spec => FoundStays
<1>1. ASSUME HInv, [Next]_vars, NEW k \in Keys, Finds(table, k)
      PROVE  \/ Finds(table', k) /\ htGet(table', k) = htGet(table, k)
             \/ Rem(k) \/ Delete
  <2>1. Chained(table)
    BY <1>1, TypeParts DEF HInv
  <2>2. CASE UNCHANGED table
    BY <1>1, <2>2
  <2>3. ASSUME NEW l \in Keys, NEW v \in Payloads, NEW mem \in BOOLEAN, Add(l, v, mem)
        PROVE  Same(table, table', k)
    BY <1>1, <2>1, <2>3, AddKeeps DEF Add
  <2>4. ASSUME NEW l \in Keys, l # k, Rem(l)
        PROVE  Same(table, table', k)
    BY <1>1, <2>1, <2>4, RemKeeps DEF Rem
  <2> QED
    BY <1>1, <2>2, <2>3, <2>4 DEF Next, Get, vars, Same
<1>2. HInv /\ [Next]_vars =>
        [\A k \in Keys : Finds(table, k) =>
           \/ Finds(table', k) /\ htGet(table', k) = htGet(table, k)
           \/ Rem(k) \/ Delete]_vars
  BY <1>1
<1> QED
  BY <1>2, HInit, Step, PTL DEF Spec, FoundStays
=============================================================================
