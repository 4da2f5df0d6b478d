---------------------------- MODULE SocketsProofs ----------------------------
(***************************************************************************)
(* The sockets of a process, for any number of them, of addresses and of   *)
(* peers: tables, connections, sockets and listening queues agree.         *)
(***************************************************************************)
EXTENDS Sockets, FiniteSetTheorems, SequenceTheorems, WellFoundedInduction, TLAPS

QL == INSTANCE QueueLemmas WITH
        SlotCount <- Backlog, SlotDataSize <- PointerSize, Zeroed <- None

-----------------------------------------------------------------------------
(* The conditions of the theorems                                          *)

\* No two addresses share a bucket.
NoCollisions ==
  \A a, b \in Addrs :
    DstBucket[a] = DstBucket[b] \/ SrcBucket[a] = SrcBucket[b] => a = b

\* The addresses of the process, and those of the others
OwnAddrs  == {f.src : f \in Connects} \cup {f.dst : f \in Flows}
PeerAddrs == {f.dst : f \in Connects} \cup {f.src : f \in Flows}

\* They differ, and who refuses a return path is not connected to.
TwoSides ==
  /\ OwnAddrs \cap PeerAddrs = {}
  /\ \A f \in Flows : NoRet[f] => Reverse(f) \notin Connects

\* Addresses fit 32 bits, a return path never fails for want of memory, and
\* etcpClose is the last call.
Usual ==
  /\ NoCollisions /\ TwoSides
  /\ \A a \in Addrs : Low32[a] = a
  /\ ReturnFails \subseteq {"none"}
  /\ CloseIsLast

\* etcpListen is called once for a socket.
ListensOnce == MaxListens \in {0, 1}

-----------------------------------------------------------------------------
(* Tables: those of destinations and those of sources differ in the        *)
(* buckets B of the addresses only                                         *)

Chains == Seq([key : Addrs, value : Nat])

Tables(B) == [{B[k] : k \in Addrs} -> Chains]

Empty(B) == [b \in {B[k] : k \in Addrs} |-> <<>>]

Finds(B, t, k) == Dst!Matches(t[B[k]], k) # {}

Get(B, t, k) ==
  IF Finds(B, t, k) THEN t[B[k]][Dst!MatchAt(t[B[k]], k)].value ELSE None

Add(B, t, k, v, mem) ==
  IF Finds(B, t, k) \/ ~mem THEN t
  ELSE [t EXCEPT ![B[k]] = Append(@, [key |-> k, value |-> v])]

Values(t) == UNION {{t[b][i].value : i \in DOMAIN t[b]} : b \in DOMAIN t}

\* Chains of one entry at most
Plain(t, B) ==
  \A b \in DOMAIN t : t[b] = <<>> \/ (Len(t[b]) = 1 /\ B[t[b][1].key] = b)

-----------------------------------------------------------------------------
(* The heap                                                                *)

FlowIds  == [src : Addrs, dst : Addrs]
Pointers == {None} \cup Nat

MapSet  == [table : Tables(SrcBucket), listenQ : {None} \cup QL!QueueType(Pointers), frees : Nat]
ConnSet == [flow : FlowIds, frees : Nat]
SockSet == [type : {"UK", "LA", "SR"}, la : Pointers, send : Pointers, recv : Pointers,
            frees : Nat]

Heaps ==
  [dstMap : Tables(DstBucket), maps : Seq(MapSet), conns : Seq(ConnSet),
   socks : Seq(SockSet)]

\* Every pointer is to an object that was made.
PointersHold(h) ==
  /\ Values(h.dstMap) \subseteq DOMAIN h.maps
  /\ \A m \in DOMAIN h.maps : Values(h.maps[m].table) \subseteq DOMAIN h.conns
  /\ \A x \in DOMAIN h.socks :
       /\ h.socks[x].la \in DOMAIN h.maps \cup {None}
       /\ h.socks[x].type = "LA" => h.socks[x].la # None
       /\ h.socks[x].send \in DOMAIN h.conns \cup {None}
       /\ h.socks[x].recv \in DOMAIN h.conns \cup {None}

-----------------------------------------------------------------------------
(* The queues                                                              *)

Item(q, s) == q.buff[QL!Idx(s)]

Items(q) == {Item(q, s) : s \in q.rdSeq .. q.wrSeq - 1}

\* A queue of sockets, each made after the one before it
InLine(q) ==
  /\ q \in QL!QueueType(Pointers)
  /\ QL!Windowed(q) /\ QL!NoHoles(q) /\ QL!TailFree(q)
  /\ \A j \in QL!Slots : q.len[j] >= PointerSize
  /\ Items(q) \subseteq Nat
  /\ \A s, t \in q.rdSeq .. q.wrSeq - 1 : s < t => Item(q, s) < Item(q, t)

\* The sockets that wait in the queue of sources m
Queued(h, m) == IF h.maps[m].listenQ = None THEN {} ELSE Items(h.maps[m].listenQ)

\* A socket that waits is there, does not wait elsewhere, and the application
\* does not have it.
QueuesHold(h, H) ==
  /\ H \subseteq {x \in DOMAIN h.socks : h.socks[x].frees = 0}
  /\ \A m \in DOMAIN h.maps :
       /\ h.maps[m].listenQ # None => InLine(h.maps[m].listenQ)
       /\ \A x \in Queued(h, m) :
            x \in DOMAIN h.socks /\ h.socks[x].frees = 0 /\ x \notin H
  /\ \A m, n \in DOMAIN h.maps : m # n => Queued(h, m) \cap Queued(h, n) = {}

-----------------------------------------------------------------------------
(* What agrees before etcpClose, under the conditions                      *)

TablesPlain(h) ==
  /\ Plain(h.dstMap, DstBucket)
  /\ \A m \in DOMAIN h.maps : Plain(h.maps[m].table, SrcBucket)

\* No two destinations have the same sources.
OwnSources(h) ==
  \A a, b \in Addrs : Sources(h, a) # None /\ Sources(h, a) = Sources(h, b) => a = b

FreesCounted(h) ==
  /\ \A m \in DOMAIN h.maps : h.maps[m].frees = 0
  /\ \A c \in DOMAIN h.conns : h.conns[c].frees \in {0, 1}
  /\ \A x \in DOMAIN h.socks : h.socks[x].frees \in {0, 1}

\* What is found is there and of the flow it was looked for.
FoundAgrees(h) ==
  /\ \A f \in FlowIds :
       DatConn(h, f) # None => h.conns[DatConn(h, f)] = [flow |-> f, frees |-> 0]
  /\ \A m \in DOMAIN h.maps : \A c \in Values(h.maps[m].table) : h.conns[c].frees = 0

\* What is there is found.
LiveFound(h) ==
  \A c \in DOMAIN h.conns : h.conns[c].frees = 0 => DatConn(h, h.conns[c].flow) = c

Live(h) == {x \in DOMAIN h.socks : h.socks[x].frees = 0}

Ends(s) == {s.send, s.recv} \ {None}

\* The ends of a socket are there: it sends what comes from here and receives
\* what comes from elsewhere.
EndsAgree(h) ==
  \A x \in Live(h) :
    /\ h.socks[x].type = "UK" => Ends(h.socks[x]) = {}
    /\ \A c \in Ends(h.socks[x]) : h.conns[c].frees = 0
    /\ h.socks[x].send # None => h.conns[h.socks[x].send].flow.src \in OwnAddrs
    /\ h.socks[x].recv # None => h.conns[h.socks[x].recv].flow.src \in PeerAddrs

OneOwner(h) ==
  /\ \A c \in DOMAIN h.conns :
       h.conns[c].frees = 0 => \E x \in Live(h) : c \in Ends(h.socks[x])
  /\ \A x, y \in Live(h) : x # y => Ends(h.socks[x]) \cap Ends(h.socks[y]) = {}

\* A return path that was refused is there only if what it is for is.
ReturnsFollow(h) ==
  \A f \in Flows : NoRet[f] /\ DatConn(h, Reverse(f)) # None => DatConn(h, f) # None

Agree(h) ==
  /\ TablesPlain(h) /\ OwnSources(h) /\ FreesCounted(h)
  /\ FoundAgrees(h) /\ LiveFound(h) /\ EndsAgree(h) /\ OneOwner(h)
  /\ ReturnsFollow(h)

\* Every socket that is there is held, or waits.
AllHomed(h, H) ==
  \A x \in Live(h) : x \in H \/ \E m \in DOMAIN h.maps : x \in Queued(h, m)

\* The sources that have a queue were listened on.
ListensKnown(h, l) ==
  /\ l \in Seq(Nat)
  /\ \A m \in DOMAIN h.maps : h.maps[m].listenQ # None => \E i \in DOMAIN l : l[i] = m

SocketsInv ==
  /\ heap \in Heaps /\ PointersHold(heap) /\ QueuesHold(heap, held)
  /\ closes \in Nat
  /\ ListensKnown(heap, listens)
  /\ Usual => FreedOnce /\ (closes = 0 => Agree(heap))
  /\ ListensOnce => (closes = 0 => AllHomed(heap, held))

-----------------------------------------------------------------------------
(* Tables                                                                  *)

LEMMA BacklogFacts == Backlog \in Nat \ {0} /\ PointerSize \in Nat
  BY BacklogAssumption DEF PointerSize

LEMMA BucketFacts ==
  /\ DstBucket \in [Addrs -> Nat] /\ SrcBucket \in [Addrs -> Nat] /\ None \notin Nat
  BY BucketsAssumption, NoneAssumption

\* The tables of the process are such tables.
LEMMA DstTable ==
  /\ Dst!htNew = Empty(DstBucket)
  /\ \A t, k : Dst!htGet(t, k) = Get(DstBucket, t, k)
  /\ \A t, k, v, mem : Dst!htAddNew(t, k, v, mem) = Add(DstBucket, t, k, v, mem)
  /\ \A t, k, mem : Dst!htAddNewErr(t, k, mem) =
       IF Finds(DstBucket, t, k) THEN "htEALREADY"
       ELSE IF mem THEN "htENOERR" ELSE "htENOMEM"
<1>1. Dst!htNew = Empty(DstBucket)
  BY DEF Dst!htNew, Dst!Buckets, Empty
<1>2. \A t, k : Dst!Finds(t, k) = Finds(DstBucket, t, k)
  BY DEF Dst!Finds, Dst!Chain, Finds
<1>3. \A t, k : Dst!htGet(t, k) = Get(DstBucket, t, k)
  BY <1>2 DEF Dst!htGet, Get, Dst!Chain
<1>4. \A t, k, v, mem : Dst!htAddNew(t, k, v, mem) = Add(DstBucket, t, k, v, mem)
  BY <1>2 DEF Dst!htAddNew, Dst!htAddNewErr, Add
<1>5. \A t, k, mem : Dst!htAddNewErr(t, k, mem) =
        IF Finds(DstBucket, t, k) THEN "htEALREADY"
        ELSE IF mem THEN "htENOERR" ELSE "htENOMEM"
  BY <1>2 DEF Dst!htAddNewErr
<1> QED
  BY <1>1, <1>3, <1>4, <1>5

LEMMA SrcTable ==
  /\ Src!htNew = Empty(SrcBucket)
  /\ \A t, k : Src!htGet(t, k) = Get(SrcBucket, t, k)
  /\ \A t, k, v, mem : Src!htAddNew(t, k, v, mem) = Add(SrcBucket, t, k, v, mem)
  /\ \A t, k, mem : Src!htAddNewErr(t, k, mem) =
       IF Finds(SrcBucket, t, k) THEN "htEALREADY"
       ELSE IF mem THEN "htENOERR" ELSE "htENOMEM"
  /\ \A t \in Tables(SrcBucket) : Src!Payload(t) = Values(t)
<1>1. Src!htNew = Empty(SrcBucket)
  BY DEF Src!htNew, Src!Buckets, Empty
<1>0. \A c, k : Src!Matches(c, k) = Dst!Matches(c, k)
  BY DEF Src!Matches, Src!Compared, Dst!Matches, Dst!Compared
<1>2. \A t, k : Src!Finds(t, k) = Finds(SrcBucket, t, k)
  BY <1>0 DEF Src!Finds, Src!Chain, Finds
<1>3. \A t, k : Src!htGet(t, k) = Get(SrcBucket, t, k)
  <2>1. \A c, k : Src!MatchAt(c, k) = Dst!MatchAt(c, k)
    BY <1>0 DEF Src!MatchAt, Dst!MatchAt
  <2> QED
    BY <1>2, <2>1 DEF Src!htGet, Get, Src!Chain
<1>4. \A t, k, v, mem : Src!htAddNew(t, k, v, mem) = Add(SrcBucket, t, k, v, mem)
  BY <1>2 DEF Src!htAddNew, Src!htAddNewErr, Add
<1>5. \A t, k, mem : Src!htAddNewErr(t, k, mem) =
        IF Finds(SrcBucket, t, k) THEN "htEALREADY"
        ELSE IF mem THEN "htENOERR" ELSE "htENOMEM"
  BY <1>2 DEF Src!htAddNewErr
<1>6. \A t \in Tables(SrcBucket) : Src!Payload(t) = Values(t)
  BY DEF Src!Payload, Values, Tables, Src!Buckets
<1> QED
  BY <1>1, <1>3, <1>4, <1>5, <1>6

\* What a look-up hands out is a value of the table.
LEMMA GetValue ==
  ASSUME NEW B \in [Addrs -> Nat], NEW t \in Tables(B), NEW k \in Addrs
  PROVE  /\ Values(t) \subseteq Nat
         /\ Get(B, t, k) \in Values(t) \cup {None}
         /\ Finds(B, t, k) <=> Get(B, t, k) # None
<1> DEFINE c == t[B[k]]
<1>1. B[k] \in DOMAIN t /\ c \in Seq([key : Addrs, value : Nat])
  BY DEF Tables, Chains
<1>2. Values(t) \subseteq Nat
  <2>1. \A b \in DOMAIN t : t[b] \in Seq([key : Addrs, value : Nat])
    BY DEF Tables, Chains
  <2>2. ASSUME NEW b \in DOMAIN t, NEW i \in DOMAIN t[b] PROVE t[b][i].value \in Nat
    <3>0. t[b] \in Seq([key : Addrs, value : Nat])
      BY <2>1
    <3>1. t[b] \in Seq([key : Addrs, value : Nat]) /\ i \in 1 .. Len(t[b])
      BY <3>0, LenProperties
    <3>2. t[b][i] \in [key : Addrs, value : Nat]
      BY <3>1, ElementOfSeq
    <3> QED
      BY <3>2
  <2> QED
    BY <2>2 DEF Values
<1>3. ASSUME Finds(B, t, k) PROVE Get(B, t, k) \in Values(t)
  <2> DEFINE M == Dst!Matches(c, k)
  <2>1. M # {} /\ M \subseteq DOMAIN c /\ M \subseteq Nat
    <3>1. M # {}
      BY <1>3 DEF Finds
    <3>2. PICK n \in Nat : n = Len(c) /\ DOMAIN c = 1 .. n
      BY <1>1
    <3>3. Dst!Compared(c) \subseteq 1 .. n
      BY <3>2 DEF Dst!Compared
    <3> QED
      BY <3>1, <3>2, <3>3 DEF Dst!Matches
  <2>2. \E i \in M : \A j \in M : i <= j
    <3> HIDE DEF M
    <3> QED
      BY <2>1, QL!LeastNatural, BacklogFacts
  <2>3. Dst!MatchAt(c, k) \in M
    BY <2>2 DEF Dst!MatchAt
  <2>4. Get(B, t, k) = c[Dst!MatchAt(c, k)].value
    BY <1>3 DEF Get
  <2> QED
    BY <1>1, <2>1, <2>3, <2>4 DEF Values
<1>4. ~Finds(B, t, k) => Get(B, t, k) = None
  BY DEF Get
<1> QED
  BY <1>2, <1>3, <1>4, BucketFacts

\* An entry more leaves a table, with one value more.
LEMMA AddTable ==
  ASSUME NEW B \in [Addrs -> Nat], NEW t \in Tables(B), NEW k \in Addrs,
         NEW v \in Nat, NEW mem
  PROVE  /\ Add(B, t, k, v, mem) \in Tables(B)
         /\ Values(Add(B, t, k, v, mem)) \subseteq Values(t) \cup {v}
<1> DEFINE u == Add(B, t, k, v, mem)
           e == [key |-> k, value |-> v]
<1>1. CASE u = t
  BY <1>1
<1>2. CASE u = [t EXCEPT ![B[k]] = Append(t[B[k]], e)]
  <2>0. e \in [key : Addrs, value : Nat]
    OBVIOUS
  <2>1. /\ \A b \in DOMAIN t : t[b] \in Seq([key : Addrs, value : Nat])
        /\ DOMAIN t = {B[l] : l \in Addrs} /\ t = [b \in DOMAIN t |-> t[b]]
    BY DEF Tables, Chains
  <2>2. /\ DOMAIN u = DOMAIN t /\ u = [b \in DOMAIN u |-> u[b]]
        /\ \A b \in DOMAIN t : u[b] = IF b = B[k] THEN Append(t[b], e) ELSE t[b]
    BY <1>2, <2>1
  <2>3. \A b \in DOMAIN u : u[b] \in Seq([key : Addrs, value : Nat])
    <3> TAKE b \in DOMAIN u
    <3>1. t[b] \in Seq([key : Addrs, value : Nat]) /\ b \in DOMAIN t
      BY <2>1, <2>2
    <3>2. Append(t[b], e) \in Seq([key : Addrs, value : Nat])
      BY <2>0, <3>1, AppendProperties
    <3>3. u[b] = IF b = B[k] THEN Append(t[b], e) ELSE t[b]
      BY <2>2, <3>1
    <3> HIDE DEF u
    <3> QED
      BY <3>1, <3>2, <3>3
  <2>4. \A b \in DOMAIN u : \A i \in DOMAIN u[b] : u[b][i].value \in Values(t) \cup {v}
    <3> TAKE b \in DOMAIN u
    <3>1. CASE b # B[k]
      BY <2>2, <3>1 DEF Values
    <3>2. CASE b = B[k]
      <4>1. PICK c \in Seq([key : Addrs, value : Nat]) : c = t[b]
        BY <2>1, <2>2
      <4>2. \A i \in DOMAIN Append(c, e) : Append(c, e)[i] = e \/ (i \in DOMAIN c /\ Append(c, e)[i] = c[i])
        BY <2>0
      <4>3. \A i \in DOMAIN c : c[i].value \in Values(t)
        BY <2>2, <4>1 DEF Values
      <4>4. u[b] = Append(c, e)
        BY <2>2, <3>2, <4>1
      <4> HIDE DEF u
      <4>5. ASSUME NEW i \in DOMAIN u[b] PROVE u[b][i].value \in Values(t) \cup {v}
        <5>1. Append(c, e)[i] = e \/ (i \in DOMAIN c /\ Append(c, e)[i] = c[i])
          BY <4>2, <4>4, <4>5
        <5>2. e.value = v
          OBVIOUS
        <5>3. CASE Append(c, e)[i] = e
          BY <4>4, <5>2, <5>3
        <5>4. CASE i \in DOMAIN c /\ Append(c, e)[i] = c[i]
          BY <4>3, <4>4, <5>4
        <5> QED
          BY <5>1, <5>3, <5>4
      <4> QED
        BY <4>5
    <3> QED
      BY <3>1, <3>2
  <2> HIDE DEF u
  <2>5. u \in Tables(B)
    BY <2>1, <2>2, <2>3 DEF Tables, Chains
  <2>6. Values(u) \subseteq Values(t) \cup {v}
    BY <2>4 DEF Values
  <2> QED
    BY <2>5, <2>6 DEF u
<1> QED
  BY <1>1, <1>2 DEF Add

\* B tells the addresses apart.
Apart(B) == \A a, b \in Addrs : B[a] = B[b] => a = b

\* A table without collisions is a function: what is added is found, the rest
\* is found as before.
LEMMA PlainGet ==
  ASSUME NEW B \in [Addrs -> Nat], NEW t \in Tables(B), Plain(t, B), NEW k \in Addrs,
         Apart(B)
  PROVE  /\ Finds(B, t, k) <=> t[B[k]] # <<>>
         /\ Get(B, t, k) = IF t[B[k]] = <<>> THEN None ELSE t[B[k]][1].value
<1> DEFINE c == t[B[k]]
<1>1. B[k] \in DOMAIN t /\ c \in Seq([key : Addrs, value : Nat])
  BY DEF Tables, Chains
<1>2. CASE c = <<>>
  <2>1. Len(c) = 0
    BY <1>1, <1>2, EmptySeq
  <2>2. Dst!Compared(c) = {}
    BY <2>1 DEF Dst!Compared
  <2>3. ~Finds(B, t, k)
    BY <2>2 DEF Finds, Dst!Matches
  <2> QED
    BY <1>2, <2>3 DEF Get
<1>3. CASE c # <<>>
  <2>0. \A b \in DOMAIN t : t[b] = <<>> \/ (Len(t[b]) = 1 /\ B[t[b][1].key] = b)
    BY DEF Plain
  <2>1. Len(c) = 1 /\ B[c[1].key] = B[k]
    BY <1>1, <1>3, <2>0
  <2>2. c[1] \in [key : Addrs, value : Nat]
    <3>1. 1 \in 1 .. Len(c)
      BY <2>1
    <3> QED
      BY <1>1, <3>1, ElementOfSeq
  <2>3. c[1].key = k
    BY <2>1, <2>2 DEF Apart
  <2>4. Dst!Matches(c, k) = {1}
    BY <2>1, <2>3 DEF Dst!Matches, Dst!Compared
  <2>5. Dst!MatchAt(c, k) = 1
    BY <2>4 DEF Dst!MatchAt
  <2>6. Finds(B, t, k)
    BY <2>4 DEF Finds
  <2> QED
    BY <1>3, <2>5, <2>6 DEF Get
<1> QED
  BY <1>2, <1>3

\* Table p is table t with value v for key k.
WithEntry(B, t, k, v, p) ==
  /\ Plain(p, B)
  /\ \A l \in Addrs : Get(B, p, l) = IF l = k THEN v ELSE Get(B, t, l)

LEMMA PlainAdd ==
  ASSUME NEW B \in [Addrs -> Nat], NEW t \in Tables(B), Plain(t, B), NEW k \in Addrs,
         Apart(B),
         NEW v \in Nat, NEW p, p = Add(B, t, k, v, TRUE), ~Finds(B, t, k)
  PROVE  WithEntry(B, t, k, v, p)
<1> DEFINE e == [key |-> k, value |-> v]
<1>1. t[B[k]] = <<>>
  BY PlainGet
<1>2. DOMAIN t = {B[l] : l \in Addrs} /\ t = [b \in DOMAIN t |-> t[b]]
  BY DEF Tables
<1>3. p = [t EXCEPT ![B[k]] = <<e>>]
  <2>1. Append(<<>>, e) = <<e>>
    OBVIOUS
  <2> QED
    BY <1>1, <2>1 DEF Add
<1>4. /\ DOMAIN p = DOMAIN t
      /\ \A b \in DOMAIN t : p[b] = IF b = B[k] THEN <<e>> ELSE t[b]
  BY <1>2, <1>3
<1>5. <<e>> # <<>> /\ Len(<<e>>) = 1 /\ <<e>>[1] = e /\ e.key = k /\ e.value = v
  OBVIOUS
<1>6. p \in Tables(B)
  <2>1. Add(B, t, k, v, TRUE) \in Tables(B)
    BY AddTable
  <2> QED
    BY <2>1
<1>7. Plain(p, B)
  <2> SUFFICES ASSUME NEW b \in DOMAIN p
               PROVE  p[b] = <<>> \/ (Len(p[b]) = 1 /\ B[p[b][1].key] = b)
    BY DEF Plain
  <2>1. CASE b = B[k]
    BY <1>4, <1>5, <2>1
  <2>2. CASE b # B[k]
    BY <1>4, <2>2 DEF Plain
  <2> QED
    BY <2>1, <2>2
<1>8. ASSUME NEW l \in Addrs PROVE Get(B, p, l) = IF l = k THEN v ELSE Get(B, t, l)
  <2>1. Get(B, p, l) = IF p[B[l]] = <<>> THEN None ELSE p[B[l]][1].value
    BY <1>6, <1>7, PlainGet
  <2>2. Get(B, t, l) = IF t[B[l]] = <<>> THEN None ELSE t[B[l]][1].value
    BY PlainGet
  <2>3. B[l] \in DOMAIN t
    BY <1>2
  <2>4. CASE l = k
    BY <1>4, <1>5, <2>1, <2>3, <2>4
  <2>5. CASE l # k
    BY <1>4, <2>1, <2>2, <2>3, <2>5 DEF Apart
  <2> QED
    BY <2>4, <2>5
<1> QED
  BY <1>7, <1>8 DEF WithEntry

\* A new table has nothing in it.
LEMMA NewTable ==
  ASSUME NEW B \in [Addrs -> Nat]
  PROVE  /\ Empty(B) \in Tables(B) /\ Values(Empty(B)) = {} /\ Plain(Empty(B), B)
         /\ \A k \in Addrs : Get(B, Empty(B), k) = None
<1>0. <<>> \in Chains
  BY DEF Chains
<1>1. Empty(B) \in Tables(B)
  <2> DEFINE D == {B[k] : k \in Addrs}
  <2>1. [b \in D |-> <<>>] \in [D -> Chains]
    <3> HIDE DEF D
    <3> QED
      BY <1>0
  <2> QED
    BY <2>1 DEF Empty, Tables
<1>2. Values(Empty(B)) = {}
  <2>1. \A b \in DOMAIN Empty(B) : DOMAIN Empty(B)[b] = {}
    BY DEF Empty
  <2> QED
    BY <2>1 DEF Values
<1>3. Plain(Empty(B), B)
  BY DEF Empty, Plain
<1>4. \A k \in Addrs : Get(B, Empty(B), k) = None
  BY <1>1, <1>2, GetValue
<1> QED
  BY <1>1, <1>2, <1>3, <1>4

-----------------------------------------------------------------------------
(* Sequences of objects                                                    *)

\* An object more
LEMMA Longer ==
  ASSUME NEW S, NEW s \in Seq(S), NEW e \in S, NEW p, p = Append(s, e)
  PROVE  /\ p \in Seq(S)
         /\ Len(s) \in Nat /\ Len(s) + 1 \notin DOMAIN s
         /\ DOMAIN p = DOMAIN s \cup {Len(s) + 1}
         /\ p[Len(s) + 1] = e
         /\ \A i \in DOMAIN s : p[i] = s[i] /\ s[i] \in S
<1>1. p \in Seq(S) /\ Len(p) = Len(s) + 1
      /\ (\A i \in 1 .. Len(s) : p[i] = s[i]) /\ p[Len(s) + 1] = e
  BY AppendProperties
<1>2. Len(s) \in Nat /\ DOMAIN s = 1 .. Len(s)
  BY LenProperties
<1>3. DOMAIN p = 1 .. Len(p)
  BY <1>1, LenProperties
<1>4. \A i \in DOMAIN s : s[i] \in S
  BY <1>2, ElementOfSeq
<1> QED
  BY <1>1, <1>2, <1>3, <1>4

\* Another object in the place of one
LEMMA Changed ==
  ASSUME NEW S, NEW s \in Seq(S), NEW i \in DOMAIN s, NEW e \in S,
         NEW p, p = [s EXCEPT ![i] = e]
  PROVE  /\ p \in Seq(S) /\ DOMAIN p = DOMAIN s /\ Len(p) = Len(s)
         /\ p[i] = e
         /\ \A j \in DOMAIN s : j # i => p[j] = s[j]
         /\ \A j \in DOMAIN s : s[j] \in S
<1>1. Len(s) \in Nat /\ DOMAIN s = 1 .. Len(s)
  BY LenProperties
<1>2. i \in 1 .. Len(s)
  BY <1>1
<1>3. /\ p \in Seq(S) /\ Len(p) = Len(s)
      /\ \A j \in 1 .. Len(s) : p[j] = IF j = i THEN e ELSE s[j]
  BY <1>2, ExceptSeq
<1>4. DOMAIN p = 1 .. Len(s)
  BY <1>3, LenProperties
<1>5. \A j \in DOMAIN s : s[j] \in S
  BY <1>1, ElementOfSeq
<1> QED
  BY <1>1, <1>2, <1>3, <1>4, <1>5

-----------------------------------------------------------------------------
(* The parts of a heap, and what is found in it                            *)

LEMMA HeapFields ==
  ASSUME NEW h \in Heaps
  PROVE  /\ h.dstMap \in Tables(DstBucket) /\ h.maps \in Seq(MapSet)
         /\ h.conns \in Seq(ConnSet) /\ h.socks \in Seq(SockSet)
         /\ Len(h.maps) \in Nat /\ Len(h.conns) \in Nat /\ Len(h.socks) \in Nat
         /\ DOMAIN h.maps = 1 .. Len(h.maps) /\ DOMAIN h.conns = 1 .. Len(h.conns)
         /\ DOMAIN h.socks = 1 .. Len(h.socks)
         /\ \A m \in DOMAIN h.maps : h.maps[m] \in MapSet
         /\ \A c \in DOMAIN h.conns : h.conns[c] \in ConnSet
         /\ \A x \in DOMAIN h.socks : h.socks[x] \in SockSet
<1>1. /\ h.dstMap \in Tables(DstBucket) /\ h.maps \in Seq(MapSet)
      /\ h.conns \in Seq(ConnSet) /\ h.socks \in Seq(SockSet)
  BY DEF Heaps
<1>2. Len(h.maps) \in Nat /\ DOMAIN h.maps = 1 .. Len(h.maps)
  BY <1>1, LenProperties
<1>3. Len(h.conns) \in Nat /\ DOMAIN h.conns = 1 .. Len(h.conns)
  BY <1>1, LenProperties
<1>4. Len(h.socks) \in Nat /\ DOMAIN h.socks = 1 .. Len(h.socks)
  BY <1>1, LenProperties
<1>5. \A m \in DOMAIN h.maps : h.maps[m] \in MapSet
  BY <1>1, <1>2, ElementOfSeq
<1>6. \A c \in DOMAIN h.conns : h.conns[c] \in ConnSet
  BY <1>1, <1>3, ElementOfSeq
<1>7. \A x \in DOMAIN h.socks : h.socks[x] \in SockSet
  BY <1>1, <1>4, ElementOfSeq
<1> QED
  BY <1>1, <1>2, <1>3, <1>4, <1>5, <1>6, <1>7

LEMMA MapFields ==
  ASSUME NEW m \in MapSet
  PROVE  /\ m.table \in Tables(SrcBucket) /\ m.frees \in Nat
         /\ m.listenQ \in {None} \cup QL!QueueType(Pointers)
  BY DEF MapSet

\* What is found was made.
LEMMA Look ==
  ASSUME NEW h \in Heaps, PointersHold(h)
  PROVE  /\ \A a \in Addrs : /\ Sources(h, a) \in DOMAIN h.maps \cup {None}
                             /\ Sources(h, a) = Get(DstBucket, h.dstMap, a)
         /\ \A f \in FlowIds :
              /\ f.src \in Addrs /\ f.dst \in Addrs
              /\ DatConn(h, f) =
                   IF Sources(h, f.dst) = None THEN None
                   ELSE Get(SrcBucket, h.maps[Sources(h, f.dst)].table, f.src)
              /\ DatConn(h, f) \in DOMAIN h.conns \cup {None}
         /\ \A m \in DOMAIN h.maps : \A a \in Addrs :
              Get(SrcBucket, h.maps[m].table, a) \in DOMAIN h.conns \cup {None}
<1>1. \A a \in Addrs : Sources(h, a) = Get(DstBucket, h.dstMap, a)
  BY DstTable DEF Sources
<1>2. \A a \in Addrs : Sources(h, a) \in DOMAIN h.maps \cup {None}
  BY <1>1, GetValue, HeapFields, BucketFacts DEF PointersHold
<1>3. \A f \in FlowIds :
        /\ f.src \in Addrs /\ f.dst \in Addrs
        /\ DatConn(h, f) = IF Sources(h, f.dst) = None THEN None
                           ELSE Get(SrcBucket, h.maps[Sources(h, f.dst)].table, f.src)
  BY SrcTable DEF DatConn, ConnOf, FlowIds
<1>4. ASSUME NEW m \in DOMAIN h.maps, NEW a \in Addrs
      PROVE  Get(SrcBucket, h.maps[m].table, a) \in DOMAIN h.conns \cup {None}
  <2>1. h.maps[m].table \in Tables(SrcBucket)
    BY HeapFields, MapFields
  <2>2. Values(h.maps[m].table) \subseteq DOMAIN h.conns
    BY DEF PointersHold
  <2> QED
    BY <2>1, <2>2, GetValue, BucketFacts
<1>5. \A f \in FlowIds : DatConn(h, f) \in DOMAIN h.conns \cup {None}
  BY <1>2, <1>3, <1>4
<1> QED
  BY <1>1, <1>2, <1>3, <1>4, <1>5

\* The sources and their connections are found as before.
LooksSame(h, p) ==
  /\ \A a \in Addrs : Sources(p, a) = Sources(h, a)
  /\ \A f \in FlowIds : DatConn(p, f) = DatConn(h, f)

LEMMA LooksStay ==
  ASSUME NEW h \in Heaps, PointersHold(h), NEW p, p.dstMap = h.dstMap,
         \A m \in DOMAIN h.maps : p.maps[m].table = h.maps[m].table
  PROVE  LooksSame(h, p)
<1>1. \A a \in Addrs : Sources(p, a) = Sources(h, a)
  BY DEF Sources
<1>2. ASSUME NEW f \in FlowIds PROVE DatConn(p, f) = DatConn(h, f)
  <2>1. f.dst \in Addrs /\ Sources(h, f.dst) \in DOMAIN h.maps \cup {None}
    BY Look
  <2> QED
    BY <1>1, <2>1 DEF DatConn, ConnOf
<1> QED
  BY <1>1, <1>2 DEF LooksSame

-----------------------------------------------------------------------------
(* The parts of the calls                                                  *)

\* New sources, and their entry for destination dst if entered
SourcesMade(h, p, dst, entered) ==
  /\ p \in Heaps
  /\ p.conns = h.conns /\ p.socks = h.socks
  /\ p.dstMap = IF entered THEN Add(DstBucket, h.dstMap, dst, Len(h.maps) + 1, TRUE)
                ELSE h.dstMap
  /\ Len(h.maps) + 1 \in Nat /\ Len(h.maps) + 1 \notin DOMAIN h.maps
  /\ DOMAIN p.maps = DOMAIN h.maps \cup {Len(h.maps) + 1}
  /\ p.maps[Len(h.maps) + 1] = [table |-> Empty(SrcBucket), listenQ |-> None, frees |-> 0]
  /\ \A m \in DOMAIN h.maps : p.maps[m] = h.maps[m]

LEMMA MakesSources ==
  ASSUME NEW h \in Heaps, NEW dst \in Addrs, NEW entered \in BOOLEAN, NEW p,
         p = [h EXCEPT !.maps = Append(@, srcsMapNew),
                       !.dstMap = Dst!htAddNew(@, dst, Len(h.maps) + 1, entered)],
         entered => Sources(h, dst) = None
  PROVE  SourcesMade(h, p, dst, entered)
<1> DEFINE e == srcsMapNew
           s == Append(h.maps, e)
           t == Add(DstBucket, h.dstMap, dst, Len(h.maps) + 1, entered)
<1>1. h.dstMap \in Tables(DstBucket) /\ h.maps \in Seq(MapSet) /\ Len(h.maps) + 1 \in Nat
  BY HeapFields
<1>2. e = [table |-> Empty(SrcBucket), listenQ |-> None, frees |-> 0]
  BY SrcTable DEF srcsMapNew
<1>3. e \in MapSet
  BY <1>2, NewTable, BucketFacts DEF MapSet
<1>4. t \in Tables(DstBucket)
  BY <1>1, AddTable, BucketFacts
<1>5. Dst!htAddNew(h.dstMap, dst, Len(h.maps) + 1, entered) = t
  BY DstTable
<1>6. s \in Seq(MapSet) /\ Len(h.maps) + 1 \notin DOMAIN h.maps
      /\ DOMAIN s = DOMAIN h.maps \cup {Len(h.maps) + 1} /\ s[Len(h.maps) + 1] = e
      /\ \A m \in DOMAIN h.maps : s[m] = h.maps[m]
  <2> HIDE DEF e
  <2> QED
    BY <1>1, <1>3, Longer
<1>7. ~entered => t = h.dstMap
  BY DEF Add
<1> HIDE DEF s, t
<1>8. p = [h EXCEPT !.maps = s, !.dstMap = t]
  BY <1>5 DEF s
<1>9. p \in Heaps /\ p.maps = s /\ p.dstMap = t /\ p.conns = h.conns /\ p.socks = h.socks
  BY <1>4, <1>6, <1>8 DEF Heaps
<1>10. p.dstMap = IF entered THEN Add(DstBucket, h.dstMap, dst, Len(h.maps) + 1, TRUE)
                  ELSE h.dstMap
  BY <1>7, <1>9 DEF t
<1> QED
  BY <1>1, <1>2, <1>6, <1>9, <1>10 DEF SourcesMade

\* Connections that are freed stay what they are.
LEMMA FreesConns ==
  ASSUME NEW h \in Heaps, NEW K, NEW p, p = ConnsFreed(h, K)
  PROVE  /\ p \in Heaps /\ p.dstMap = h.dstMap /\ p.maps = h.maps /\ p.socks = h.socks
         /\ DOMAIN p.conns = DOMAIN h.conns
         /\ \A c \in DOMAIN h.conns :
              /\ p.conns[c].flow = h.conns[c].flow
              /\ p.conns[c].frees = IF c \in K THEN h.conns[c].frees + 1
                                    ELSE h.conns[c].frees
              /\ c \notin K => p.conns[c] = h.conns[c]
<1> DEFINE E == [c \in DOMAIN h.conns |->
                  IF c \in K THEN [h.conns[c] EXCEPT !.frees = @ + 1] ELSE h.conns[c]]
<1>1. p = [h EXCEPT !.conns = E]
  BY DEF ConnsFreed
<1>2. /\ h.conns \in Seq(ConnSet) /\ Len(h.conns) \in Nat
      /\ DOMAIN h.conns = 1 .. Len(h.conns)
      /\ \A c \in DOMAIN h.conns : h.conns[c] \in ConnSet
  BY HeapFields
<1>3. /\ DOMAIN E = DOMAIN h.conns
      /\ \A c \in DOMAIN h.conns : E[c] =
           IF c \in K THEN [h.conns[c] EXCEPT !.frees = @ + 1] ELSE h.conns[c]
  OBVIOUS
<1>4. \A c \in DOMAIN h.conns :
        /\ E[c] \in ConnSet /\ E[c].flow = h.conns[c].flow
        /\ E[c].frees = IF c \in K THEN h.conns[c].frees + 1 ELSE h.conns[c].frees
        /\ c \notin K => E[c] = h.conns[c]
  <2> SUFFICES ASSUME NEW c \in DOMAIN h.conns
               PROVE  /\ E[c] \in ConnSet /\ E[c].flow = h.conns[c].flow
                      /\ E[c].frees = IF c \in K THEN h.conns[c].frees + 1
                                      ELSE h.conns[c].frees
                      /\ c \notin K => E[c] = h.conns[c]
    OBVIOUS
  <2>1. PICK d \in ConnSet : d = h.conns[c]
    BY <1>2
  <2>2. E[c] = IF c \in K THEN [d EXCEPT !.frees = @ + 1] ELSE d
    BY <1>3, <2>1
  <2>3. [d EXCEPT !.frees = @ + 1] \in ConnSet
        /\ [d EXCEPT !.frees = @ + 1].flow = d.flow
        /\ [d EXCEPT !.frees = @ + 1].frees = d.frees + 1
    BY DEF ConnSet
  <2> HIDE DEF E
  <2> QED
    BY <2>1, <2>2, <2>3
<1>5. E \in [1 .. Len(h.conns) -> ConnSet]
  BY <1>2, <1>4
<1> HIDE DEF E
<1>6. E \in Seq(ConnSet)
  BY <1>2, <1>5
<1>7. p \in Heaps /\ p.dstMap = h.dstMap /\ p.maps = h.maps /\ p.socks = h.socks
      /\ p.conns = E
  BY <1>1, <1>6 DEF Heaps
<1> QED
  BY <1>3, <1>4, <1>7

\* A new connection for flow f: if ok found in sources m and the end of
\* socket x, otherwise freed again
ConnMade(h, p, m, x, f, isSender, ok) ==
  /\ p \in Heaps /\ p.dstMap = h.dstMap
  /\ DOMAIN p.maps = DOMAIN h.maps
  /\ \A n \in DOMAIN h.maps : /\ p.maps[n].listenQ = h.maps[n].listenQ
                              /\ p.maps[n].frees = h.maps[n].frees
                              /\ n # m \/ ~ok => p.maps[n].table = h.maps[n].table
  /\ ok => p.maps[m].table = Add(SrcBucket, h.maps[m].table, f.src, Len(h.conns) + 1, TRUE)
  /\ Len(h.conns) + 1 \in Nat /\ Len(h.conns) + 1 \notin DOMAIN h.conns
  /\ DOMAIN p.conns = DOMAIN h.conns \cup {Len(h.conns) + 1}
  /\ p.conns[Len(h.conns) + 1].flow = [src |-> Low32[f.src], dst |-> f.dst]
  /\ p.conns[Len(h.conns) + 1].frees = IF ok THEN 0 ELSE 1
  /\ \A c \in DOMAIN h.conns : p.conns[c] = h.conns[c]
  /\ DOMAIN p.socks = DOMAIN h.socks
  /\ \A y \in DOMAIN h.socks :
       /\ p.socks[y].type = h.socks[y].type /\ p.socks[y].la = h.socks[y].la
       /\ p.socks[y].frees = h.socks[y].frees
       /\ p.socks[y].send = IF ok /\ isSender /\ y = x THEN Len(h.conns) + 1
                            ELSE h.socks[y].send
       /\ p.socks[y].recv = IF ok /\ ~isSender /\ y = x THEN Len(h.conns) + 1
                            ELSE h.socks[y].recv

LEMMA MakesConn ==
  ASSUME NEW h \in Heaps, NEW m \in DOMAIN h.maps, NEW x \in DOMAIN h.socks,
         NEW f \in FlowIds, NEW isSender \in BOOLEAN, NEW fail, NEW r,
         r = Mapped(h, m, x, f, isSender, fail), NEW ok \in BOOLEAN,
         ok <=> ~Finds(SrcBucket, h.maps[m].table, f.src) /\ fail # "src"
  PROVE  /\ r.err = IF ok THEN "etcpENOERR" ELSE "etcpEALREADY"
         /\ ConnMade(h, r.heap, m, x, f, isSender, ok)
<1> DEFINE c == Len(h.conns) + 1
           T == Add(SrcBucket, h.maps[m].table, f.src, c, fail # "src")
           e == [h.maps[m] EXCEPT !.table = T]
           M == [h.maps EXCEPT ![m] = e]
           n == etcpConnNew(f)
           C == Append(h.conns, n)
           g == [h EXCEPT !.conns = C, !.maps = M]
<1>1. /\ h.maps \in Seq(MapSet) /\ h.conns \in Seq(ConnSet) /\ h.socks \in Seq(SockSet)
      /\ h.maps[m] \in MapSet /\ h.socks[x] \in SockSet
      /\ h.maps[m].table \in Tables(SrcBucket) /\ c \in Nat
  BY HeapFields, MapFields
<1>2. f.src \in Addrs /\ f.dst \in Addrs
  BY DEF FlowIds
<1>3. T \in Tables(SrcBucket)
  <2>1. CASE fail = "src"
    <3>1. T = h.maps[m].table
      BY <2>1, Zenon DEF Add
    <3> QED
      BY <1>1, <3>1
  <2>2. CASE fail # "src"
    <3>1. PICK t \in Tables(SrcBucket) : t = h.maps[m].table
      BY <1>1
    <3>2. Add(SrcBucket, t, f.src, c, TRUE) \in Tables(SrcBucket)
      BY <1>1, <1>2, AddTable, BucketFacts
    <3>3. T = Add(SrcBucket, t, f.src, c, TRUE)
      BY <2>2, <3>1 DEF Add
    <3> QED
      BY <3>2, <3>3
  <2> QED
    BY <2>1, <2>2
<1>4. /\ e \in MapSet /\ e.table = T
      /\ e.listenQ = h.maps[m].listenQ /\ e.frees = h.maps[m].frees
  <2> HIDE DEF T
  <2> QED
    BY <1>1, <1>3 DEF MapSet
<1>5. M \in Seq(MapSet) /\ DOMAIN M = DOMAIN h.maps /\ M[m] = e
      /\ \A i \in DOMAIN h.maps : i # m => M[i] = h.maps[i]
  <2> HIDE DEF e
  <2> QED
    BY <1>1, <1>4, Changed
<1>6. /\ n \in ConnSet /\ n.flow = [src |-> Low32[f.src], dst |-> f.dst] /\ n.frees = 0
  BY <1>2, Low32Assumption DEF etcpConnNew, ConnSet, FlowIds
<1>7. C \in Seq(ConnSet) /\ c \notin DOMAIN h.conns
      /\ DOMAIN C = DOMAIN h.conns \cup {c} /\ C[c] = n
      /\ \A i \in DOMAIN h.conns : C[i] = h.conns[i]
  <2> HIDE DEF n
  <2> QED
    BY <1>1, <1>6, Longer
<1>8. g \in Heaps /\ g.dstMap = h.dstMap /\ g.maps = M /\ g.conns = C /\ g.socks = h.socks
  <2> HIDE DEF M, C
  <2> QED
    BY <1>5, <1>7 DEF Heaps
<1>9. r = IF ok THEN Result(InSocket(g, x, c, isSender), "etcpENOERR")
          ELSE Result(ConnsFreed(g, {c}), "etcpEALREADY")
  <2>1. Src!htAddNew(h.maps[m].table, SrcKey(f), c, fail # "src") = T
    BY SrcTable DEF SrcKey
  <2>2. Src!htAddNewErr(h.maps[m].table, SrcKey(f), fail # "src") = "htENOERR" <=> ok
    BY SrcTable DEF SrcKey
  <2>3. g = [h EXCEPT !.conns = Append(@, etcpConnNew(f)),
                      !.maps[m].table = Src!htAddNew(@, SrcKey(f), c, fail # "src")]
    BY <2>1
  <2>4. {c} \ {None} = {c}
    BY <1>1, NoneAssumption
  <2> HIDE DEF g
  <2>5. Mapped(h, m, x, f, isSender, fail) =
          IF Src!htAddNewErr(h.maps[m].table, SrcKey(f), fail # "src") = "htENOERR"
            THEN Result(InSocket(g, x, c, isSender), "etcpENOERR")
            ELSE Result(Unmapped(g, x, c, isSender), "etcpEALREADY")
    BY <2>3 DEF Mapped
  <2>6. Unmapped(g, x, c, isSender) = ConnsFreed(g, {c})
    BY <2>4 DEF Unmapped, etcpConnDelete
  <2> HIDE DEF c
  <2> QED
    BY <2>2, <2>5, <2>6
<1>10. \A i \in DOMAIN h.maps : /\ M[i].listenQ = h.maps[i].listenQ
                                /\ M[i].frees = h.maps[i].frees
                                /\ i # m => M[i].table = h.maps[i].table
  BY <1>4, <1>5
<1>11. ok => M[m].table = Add(SrcBucket, h.maps[m].table, f.src, c, TRUE)
  BY <1>4, <1>5
<1>12. ~ok => M[m].table = h.maps[m].table
  BY <1>4, <1>5 DEF Add
<1> HIDE DEF g, M, C, e, T, n, c
<1>13. CASE ok
  <2> DEFINE s == IF isSender THEN [h.socks[x] EXCEPT !.send = c]
                  ELSE [h.socks[x] EXCEPT !.recv = c]
             S == [h.socks EXCEPT ![x] = s]
             p == [g EXCEPT !.socks = S]
  <2>1. /\ s \in SockSet /\ s.type = h.socks[x].type /\ s.la = h.socks[x].la
        /\ s.frees = h.socks[x].frees
        /\ s.send = (IF isSender THEN c ELSE h.socks[x].send)
        /\ s.recv = (IF ~isSender THEN c ELSE h.socks[x].recv)
    BY <1>1 DEF SockSet, Pointers
  <2>2. S \in Seq(SockSet) /\ DOMAIN S = DOMAIN h.socks /\ S[x] = s
        /\ \A y \in DOMAIN h.socks : y # x => S[y] = h.socks[y]
    <3> HIDE DEF s
    <3> QED
      BY <1>1, <2>1, Changed
  <2>3. InSocket(g, x, c, isSender) = p
    BY <1>8 DEF InSocket
  <2> HIDE DEF s, S
  <2>4. /\ p \in Heaps /\ p.dstMap = h.dstMap /\ p.maps = M /\ p.conns = C
        /\ p.socks = S
    BY <1>8, <2>2 DEF Heaps
  <2>5. r.err = "etcpENOERR" /\ r.heap = p
    BY <1>9, <1>13, <2>3 DEF Result
  <2> HIDE DEF p
  <2>6. \A y \in DOMAIN h.socks :
          /\ p.socks[y].type = h.socks[y].type /\ p.socks[y].la = h.socks[y].la
          /\ p.socks[y].frees = h.socks[y].frees
          /\ p.socks[y].send = IF ok /\ isSender /\ y = x THEN c ELSE h.socks[y].send
          /\ p.socks[y].recv = IF ok /\ ~isSender /\ y = x THEN c ELSE h.socks[y].recv
    BY <1>13, <2>1, <2>2, <2>4
  <2>7. ConnMade(h, p, m, x, f, isSender, ok)
    BY <1>1, <1>5, <1>6, <1>7, <1>10, <1>11, <1>13, <2>2, <2>4, <2>6 DEF ConnMade, c
  <2> QED
    BY <1>13, <2>5, <2>7
<1>14. CASE ~ok
  <2> DEFINE p == ConnsFreed(g, {c})
  <2>1. r.err = "etcpEALREADY" /\ r.heap = p
    BY <1>9, <1>14 DEF Result
  <2>2. /\ p \in Heaps /\ p.dstMap = h.dstMap /\ p.maps = M /\ p.socks = h.socks
        /\ DOMAIN p.conns = DOMAIN C
        /\ \A i \in DOMAIN C :
             /\ p.conns[i].flow = C[i].flow
             /\ p.conns[i].frees = IF i = c THEN C[i].frees + 1 ELSE C[i].frees
             /\ i # c => p.conns[i] = C[i]
    <3>1. /\ p \in Heaps /\ p.dstMap = g.dstMap /\ p.maps = g.maps /\ p.socks = g.socks
          /\ DOMAIN p.conns = DOMAIN g.conns
          /\ \A i \in DOMAIN g.conns :
               /\ p.conns[i].flow = g.conns[i].flow
               /\ p.conns[i].frees = IF i \in {c} THEN g.conns[i].frees + 1
                                     ELSE g.conns[i].frees
               /\ i \notin {c} => p.conns[i] = g.conns[i]
      <4>1. g \in Heaps
        BY <1>8
      <4> QED
        BY <4>1, FreesConns
    <3> HIDE DEF p
    <3> QED
      BY <1>8, <3>1
  <2> HIDE DEF p
  <2>3. p.conns[c].flow = n.flow /\ p.conns[c].frees = 1
    <3>1. c \in DOMAIN C /\ C[c] = n
      BY <1>7
    <3>2. p.conns[c].flow = C[c].flow /\ p.conns[c].frees = C[c].frees + 1
      BY <2>2, <3>1
    <3> QED
      BY <1>6, <3>1, <3>2
  <2>4. \A i \in DOMAIN h.conns : p.conns[i] = h.conns[i]
    BY <1>7, <2>2
  <2>6. \A i \in DOMAIN h.maps : p.maps[i].table = h.maps[i].table
    BY <1>10, <1>12, <1>14, <2>2
  <2>7. ConnMade(h, p, m, x, f, isSender, ok)
    BY <1>1, <1>5, <1>6, <1>7, <1>10, <1>14, <2>2, <2>3, <2>4, <2>6 DEF ConnMade, c
  <2> QED
    BY <1>14, <2>1, <2>7
<1> QED
  BY <1>13, <1>14

\* Heap w with the sources m of destination dst, new ones if there were none
Widened(h, w, dst, m) ==
  \/ w = h /\ m = Sources(h, dst) /\ m # None
  \/ Sources(h, dst) = None /\ SourcesMade(h, w, dst, TRUE) /\ m = Len(h.maps) + 1

\* Connections for f can be made in sources m.
Free(w, m, f, fail) == ~Finds(SrcBucket, w.maps[m].table, f.src) /\ fail # "src"

LEMMA WidenedFacts ==
  ASSUME NEW h \in Heaps, PointersHold(h), NEW w, NEW dst \in Addrs, NEW m,
         Widened(h, w, dst, m)
  PROVE  w \in Heaps /\ m \in DOMAIN w.maps /\ DOMAIN w.socks = DOMAIN h.socks
<1>1. CASE w = h /\ m = Sources(h, dst) /\ m # None
  BY <1>1, Look
<1>2. CASE SourcesMade(h, w, dst, TRUE) /\ m = Len(h.maps) + 1
  BY <1>2 DEF SourcesMade
<1> QED
  BY <1>1, <1>2 DEF Widened

\* What addConnMapping leaves behind: at worst new sources and a connection
\* that is freed
Added(h, r, x, f, isSender, fail) ==
  \/ r.heap = h /\ r.err # "etcpENOERR" /\ fail # "none"
  \/ \E w, m :
       /\ Widened(h, w, f.dst, m)
       /\ \/ r.heap = w /\ r.err # "etcpENOERR" /\ fail # "none"
          \/ /\ Free(w, m, f, fail) /\ r.err = "etcpENOERR"
             /\ ConnMade(w, r.heap, m, x, f, isSender, TRUE)
          \/ /\ ~Free(w, m, f, fail) /\ r.err # "etcpENOERR"
             /\ ConnMade(w, r.heap, m, x, f, isSender, FALSE)

LEMMA AddCases ==
  ASSUME NEW h \in Heaps, PointersHold(h), NEW x \in DOMAIN h.socks, NEW f \in FlowIds,
         NEW isSender \in BOOLEAN, NEW fail, NEW r,
         r = addConnMapping(h, x, f, isSender, fail)
  PROVE  Added(h, r, x, f, isSender, fail)
<1> DEFINE w == WithSources(h, f.dst)
           m == SourcesOrNew(h, f.dst)
<1>0. f.dst \in Addrs
  BY DEF FlowIds
<1>1. Widened(h, w, f.dst, m)
  <2>1. CASE Sources(h, f.dst) # None
    BY <2>1 DEF Widened, WithSources, SourcesOrNew
  <2>2. CASE Sources(h, f.dst) = None
    <3>1. w = [h EXCEPT !.maps = Append(@, srcsMapNew),
                        !.dstMap = Dst!htAddNew(@, f.dst, Len(h.maps) + 1, TRUE)]
      BY <2>2 DEF WithSources
    <3> HIDE DEF w
    <3>2. SourcesMade(h, w, f.dst, TRUE)
      BY <1>0, <2>2, <3>1, MakesSources
    <3>3. m = Len(h.maps) + 1
      BY <2>2 DEF SourcesOrNew
    <3> QED
      BY <2>2, <3>2, <3>3 DEF Widened
  <2> QED
    BY <2>1, <2>2
<1>2. CASE Sources(h, f.dst) = None /\ fail \in {"map", "dst"}
  BY <1>2 DEF addConnMapping, Result, Added
<1>3. CASE ~(Sources(h, f.dst) = None /\ fail \in {"map", "dst"}) /\ fail = "conn"
  <2>1. r.heap = w /\ r.err # "etcpENOERR"
    BY <1>3 DEF addConnMapping, Result
  <2> HIDE DEF w, m
  <2> QED
    BY <1>1, <1>3, <2>1 DEF Added
<1>4. CASE ~(Sources(h, f.dst) = None /\ fail \in {"map", "dst"}) /\ fail # "conn"
  <2>1. r = Mapped(w, m, x, f, isSender, fail)
    BY <1>4 DEF addConnMapping
  <2> HIDE DEF w, m
  <2>2. w \in Heaps /\ m \in DOMAIN w.maps /\ x \in DOMAIN w.socks
    BY <1>0, <1>1, WidenedFacts
  <2>3. PICK ok \in BOOLEAN : ok <=> ~Finds(SrcBucket, w.maps[m].table, f.src) /\ fail # "src"
    OBVIOUS
  <2>4. /\ r.err = IF ok THEN "etcpENOERR" ELSE "etcpEALREADY"
        /\ ConnMade(w, r.heap, m, x, f, isSender, ok)
    BY <2>1, <2>2, <2>3, MakesConn
  <2>5. ok <=> Free(w, m, f, fail)
    BY <2>3 DEF Free
  <2>6. CASE ok = TRUE
    <3>1. r.err = "etcpENOERR" /\ ConnMade(w, r.heap, m, x, f, isSender, TRUE)
      BY <2>4, <2>6
    <3> QED
      BY <1>1, <2>5, <2>6, <3>1 DEF Added
  <2>7. CASE ok = FALSE
    <3>1. r.err # "etcpENOERR" /\ ConnMade(w, r.heap, m, x, f, isSender, FALSE)
      BY <2>4, <2>7
    <3> QED
      BY <1>1, <2>5, <2>7, <3>1 DEF Added
  <2> QED
    BY <2>6, <2>7
<1> QED
  BY <1>2, <1>3, <1>4

-----------------------------------------------------------------------------
(* Whatever happens: what was made stays, and every pointer is to something*)
(* that was made                                                           *)

\* Heap p has all that h has, its queues and its sockets, and may have more.
Grows(h, p) ==
  /\ p \in Heaps /\ PointersHold(p)
  /\ DOMAIN h.maps \subseteq DOMAIN p.maps /\ DOMAIN h.conns \subseteq DOMAIN p.conns
  /\ \A m \in DOMAIN h.maps : p.maps[m].listenQ = h.maps[m].listenQ
  /\ \A m \in DOMAIN p.maps \ DOMAIN h.maps : p.maps[m].listenQ = None
  /\ DOMAIN p.socks = DOMAIN h.socks
  /\ \A x \in DOMAIN h.socks :
       /\ p.socks[x].type = h.socks[x].type /\ p.socks[x].la = h.socks[x].la
       /\ p.socks[x].frees = h.socks[x].frees

LEMMA GrowsOn ==
  ASSUME NEW h, NEW g, NEW p, Grows(h, g), Grows(g, p)
  PROVE  Grows(h, p)
<1>1. \A m \in DOMAIN h.maps : p.maps[m].listenQ = h.maps[m].listenQ
  BY DEF Grows
<1>2. \A m \in DOMAIN p.maps \ DOMAIN h.maps : p.maps[m].listenQ = None
  BY DEF Grows
<1> QED
  BY <1>1, <1>2 DEF Grows

LEMMA SourcesGrow ==
  ASSUME NEW h \in Heaps, PointersHold(h), NEW p, NEW dst \in Addrs,
         NEW entered \in BOOLEAN, SourcesMade(h, p, dst, entered)
  PROVE  Grows(h, p)
<1> DEFINE n == Len(h.maps) + 1
<1>1. /\ n \in Nat /\ DOMAIN p.maps = DOMAIN h.maps \cup {n}
      /\ p.maps[n] = [table |-> Empty(SrcBucket), listenQ |-> None, frees |-> 0]
      /\ \A m \in DOMAIN h.maps : p.maps[m] = h.maps[m]
      /\ n \notin DOMAIN h.maps /\ p.conns = h.conns /\ p.socks = h.socks /\ p \in Heaps
  BY DEF SourcesMade
<1>2. Values(p.dstMap) \subseteq DOMAIN p.maps
  <2>1. Values(h.dstMap) \subseteq DOMAIN h.maps /\ h.dstMap \in Tables(DstBucket)
    BY HeapFields DEF PointersHold
  <2>2. CASE entered
    <3>1. p.dstMap = Add(DstBucket, h.dstMap, dst, n, TRUE)
      BY <2>2 DEF SourcesMade
    <3>2. Values(Add(DstBucket, h.dstMap, dst, n, TRUE)) \subseteq Values(h.dstMap) \cup {n}
      BY <1>1, <2>1, AddTable, BucketFacts
    <3> QED
      BY <1>1, <2>1, <3>1, <3>2
  <2>3. CASE ~entered
    BY <1>1, <2>1, <2>3 DEF SourcesMade
  <2> QED
    BY <2>2, <2>3
<1>3. \A m \in DOMAIN p.maps : Values(p.maps[m].table) \subseteq DOMAIN p.conns
  <2> SUFFICES ASSUME NEW m \in DOMAIN p.maps
               PROVE  Values(p.maps[m].table) \subseteq DOMAIN p.conns
    OBVIOUS
  <2>1. CASE m \in DOMAIN h.maps
    BY <1>1, <2>1 DEF PointersHold
  <2>2. CASE m = n
    <3>1. p.maps[m].table = Empty(SrcBucket)
      BY <1>1, <2>2
    <3>2. Values(Empty(SrcBucket)) = {}
      BY NewTable, BucketFacts
    <3> QED
      BY <3>1, <3>2
  <2> QED
    BY <1>1, <2>1, <2>2
<1>4. PointersHold(p)
  BY <1>1, <1>2, <1>3 DEF PointersHold
<1> QED
  BY <1>1, <1>4 DEF Grows

LEMMA ConnGrows ==
  ASSUME NEW h \in Heaps, PointersHold(h), NEW p, NEW m \in DOMAIN h.maps,
         NEW x \in DOMAIN h.socks, NEW f \in FlowIds, NEW isSender \in BOOLEAN,
         NEW ok \in BOOLEAN, ConnMade(h, p, m, x, f, isSender, ok)
  PROVE  Grows(h, p)
<1> DEFINE c == Len(h.conns) + 1
<1>1. /\ p \in Heaps /\ p.dstMap = h.dstMap /\ DOMAIN p.maps = DOMAIN h.maps
      /\ c \in Nat /\ DOMAIN p.conns = DOMAIN h.conns \cup {c}
      /\ DOMAIN p.socks = DOMAIN h.socks
  BY DEF ConnMade
<1>2. \A n \in DOMAIN p.maps : Values(p.maps[n].table) \subseteq DOMAIN p.conns
  <2> SUFFICES ASSUME NEW n \in DOMAIN p.maps
               PROVE  Values(p.maps[n].table) \subseteq DOMAIN p.conns
    OBVIOUS
  <2>1. Values(h.maps[n].table) \subseteq DOMAIN h.conns
        /\ h.maps[n].table \in Tables(SrcBucket)
    BY <1>1, HeapFields, MapFields DEF PointersHold
  <2>2. CASE n = m /\ ok
    <3>1. p.maps[n].table = Add(SrcBucket, h.maps[n].table, f.src, c, TRUE)
      BY <2>2 DEF ConnMade
    <3>2. f.src \in Addrs
      BY DEF FlowIds
    <3>3. PICK t \in Tables(SrcBucket) : t = h.maps[n].table
      BY <2>1
    <3>4. Values(Add(SrcBucket, t, f.src, c, TRUE)) \subseteq Values(t) \cup {c}
      <4>1. c \in Nat
        BY <1>1
      <4> HIDE DEF c
      <4> QED
        BY <3>2, <4>1, AddTable, BucketFacts
    <3> QED
      BY <1>1, <2>1, <3>1, <3>3, <3>4
  <2>3. CASE n # m \/ ~ok
    <3>1. p.maps[n].table = h.maps[n].table
      BY <1>1, <2>3 DEF ConnMade
    <3> QED
      BY <1>1, <2>1, <3>1
  <2> QED
    BY <2>2, <2>3
<1>3. \A y \in DOMAIN p.socks :
        /\ p.socks[y].la \in DOMAIN p.maps \cup {None}
        /\ p.socks[y].type = "LA" => p.socks[y].la # None
        /\ p.socks[y].send \in DOMAIN p.conns \cup {None}
        /\ p.socks[y].recv \in DOMAIN p.conns \cup {None}
  BY <1>1 DEF ConnMade, PointersHold
<1>4. PointersHold(p)
  BY <1>1, <1>2, <1>3 DEF PointersHold
<1> QED
  BY <1>1, <1>4 DEF ConnMade, Grows

LEMMA AddGrows ==
  ASSUME NEW h \in Heaps, PointersHold(h), NEW x \in DOMAIN h.socks, NEW f \in FlowIds,
         NEW isSender \in BOOLEAN, NEW fail, NEW r,
         r = addConnMapping(h, x, f, isSender, fail)
  PROVE  Grows(h, r.heap)
<1>0. Grows(h, h) /\ f.dst \in Addrs
  BY DEF Grows, FlowIds
<1>1. ASSUME NEW w, NEW m, Widened(h, w, f.dst, m) PROVE Grows(h, w)
  <2>1. CASE w = h
    BY <1>0, <2>1
  <2>2. CASE SourcesMade(h, w, f.dst, TRUE)
    BY <1>0, <2>2, SourcesGrow
  <2> QED
    BY <1>1, <2>1, <2>2 DEF Widened
<1>2. CASE r.heap = h
  BY <1>0, <1>2
<1>3. ASSUME NEW w, NEW m, Widened(h, w, f.dst, m),
             \/ r.heap = w
             \/ \E ok \in BOOLEAN : ConnMade(w, r.heap, m, x, f, isSender, ok)
      PROVE  Grows(h, r.heap)
  <2>1. Grows(h, w)
    BY <1>1, <1>3
  <2>2. CASE r.heap = w
    BY <2>1, <2>2
  <2>3. ASSUME NEW ok \in BOOLEAN, ConnMade(w, r.heap, m, x, f, isSender, ok)
        PROVE  Grows(h, r.heap)
    <3>1. w \in Heaps /\ m \in DOMAIN w.maps /\ x \in DOMAIN w.socks /\ PointersHold(w)
      BY <1>0, <1>3, <2>1, WidenedFacts DEF Grows
    <3>2. Grows(w, r.heap)
      BY <2>3, <3>1, ConnGrows
    <3> QED
      BY <2>1, <3>2, GrowsOn
  <2> QED
    BY <1>3, <2>2, <2>3
<1>4. \/ r.heap = h
      \/ \E w, m : /\ Widened(h, w, f.dst, m)
                   /\ \/ r.heap = w
                      \/ \E ok \in BOOLEAN : ConnMade(w, r.heap, m, x, f, isSender, ok)
  <2>1. Added(h, r, x, f, isSender, fail)
    BY AddCases
  <2> QED
    BY <2>1 DEF Added
<1> QED
  BY <1>2, <1>3, <1>4

-----------------------------------------------------------------------------
(* Sockets and queues                                                      *)

\* A new socket
SockMade(h, p, type) ==
  /\ p \in Heaps /\ p.dstMap = h.dstMap /\ p.maps = h.maps /\ p.conns = h.conns
  /\ Len(h.socks) + 1 \in Nat /\ Len(h.socks) + 1 \notin DOMAIN h.socks
  /\ DOMAIN p.socks = DOMAIN h.socks \cup {Len(h.socks) + 1}
  /\ p.socks[Len(h.socks) + 1] =
       [type |-> type, la |-> None, send |-> None, recv |-> None, frees |-> 0]
  /\ \A x \in DOMAIN h.socks : p.socks[x] = h.socks[x]

LEMMA MakesSock ==
  ASSUME NEW h \in Heaps, NEW type \in {"UK", "SR"}, NEW s,
         s = [type |-> type, la |-> None, send |-> None, recv |-> None, frees |-> 0],
         NEW p, p = [h EXCEPT !.socks = Append(@, s)]
  PROVE  SockMade(h, p, type)
<1> DEFINE S == Append(h.socks, s)
<1>1. h.socks \in Seq(SockSet) /\ Len(h.socks) + 1 \in Nat
  BY HeapFields
<1>2. s \in SockSet
  BY DEF SockSet, Pointers
<1>3. S \in Seq(SockSet) /\ Len(h.socks) + 1 \notin DOMAIN h.socks
      /\ DOMAIN S = DOMAIN h.socks \cup {Len(h.socks) + 1} /\ S[Len(h.socks) + 1] = s
      /\ \A x \in DOMAIN h.socks : S[x] = h.socks[x]
  BY <1>1, <1>2, Longer
<1> HIDE DEF S
<1>4. p = [h EXCEPT !.socks = S]
  BY DEF S
<1>5. p \in Heaps /\ p.dstMap = h.dstMap /\ p.maps = h.maps /\ p.conns = h.conns /\ p.socks = S
  BY <1>3, <1>4 DEF Heaps
<1> QED
  BY <1>1, <1>3, <1>5 DEF SockMade

\* Socket x with a type and sources
SockTyped(h, p, x, type, la) ==
  /\ p \in Heaps /\ p.dstMap = h.dstMap /\ p.maps = h.maps /\ p.conns = h.conns
  /\ DOMAIN p.socks = DOMAIN h.socks
  /\ \A y \in DOMAIN h.socks : /\ p.socks[y].send = h.socks[y].send
                               /\ p.socks[y].recv = h.socks[y].recv
                               /\ p.socks[y].frees = h.socks[y].frees
                               /\ y # x => p.socks[y] = h.socks[y]
  /\ p.socks[x].type = type /\ p.socks[x].la = la

LEMMA TypesSock ==
  ASSUME NEW h \in Heaps, NEW x \in DOMAIN h.socks, NEW type \in {"SR", "LA"},
         NEW la \in Pointers, NEW p,
         p = [h EXCEPT !.socks[x].type = type, !.socks[x].la = la]
  PROVE  SockTyped(h, p, x, type, la)
<1> DEFINE s == [h.socks[x] EXCEPT !.type = type, !.la = la]
           S == [h.socks EXCEPT ![x] = s]
<1>1. h.socks \in Seq(SockSet) /\ h.socks[x] \in SockSet
  BY HeapFields
<1>2. /\ s \in SockSet /\ s.type = type /\ s.la = la /\ s.send = h.socks[x].send
      /\ s.recv = h.socks[x].recv /\ s.frees = h.socks[x].frees
  BY <1>1 DEF SockSet
<1>3. S \in Seq(SockSet) /\ DOMAIN S = DOMAIN h.socks /\ S[x] = s
      /\ \A y \in DOMAIN h.socks : y # x => S[y] = h.socks[y]
  <2> HIDE DEF s
  <2> QED
    BY <1>1, <1>2, Changed
<1>4. p = [h EXCEPT !.socks = S]
  BY <1>1 DEF Heaps
<1> HIDE DEF s, S
<1>5. p \in Heaps /\ p.dstMap = h.dstMap /\ p.maps = h.maps /\ p.conns = h.conns /\ p.socks = S
  BY <1>3, <1>4 DEF Heaps
<1>6. \A y \in DOMAIN h.socks : /\ S[y].send = h.socks[y].send
                               /\ S[y].recv = h.socks[y].recv
                               /\ S[y].frees = h.socks[y].frees
                               /\ y # x => S[y] = h.socks[y]
  BY <1>2, <1>3
<1> QED
  BY <1>2, <1>3, <1>5, <1>6 DEF SockTyped

\* Queue q for sources m
QueueSet(h, p, m, q) ==
  /\ p \in Heaps /\ p.dstMap = h.dstMap /\ p.conns = h.conns /\ p.socks = h.socks
  /\ DOMAIN p.maps = DOMAIN h.maps
  /\ \A n \in DOMAIN h.maps : /\ p.maps[n].table = h.maps[n].table
                              /\ p.maps[n].frees = h.maps[n].frees
                              /\ n # m => p.maps[n].listenQ = h.maps[n].listenQ
  /\ p.maps[m].listenQ = q

LEMMA SetsQueue ==
  ASSUME NEW h \in Heaps, NEW m \in DOMAIN h.maps,
         NEW q \in {None} \cup QL!QueueType(Pointers), NEW p,
         p = [h EXCEPT !.maps[m].listenQ = q]
  PROVE  QueueSet(h, p, m, q)
<1> DEFINE e == [h.maps[m] EXCEPT !.listenQ = q]
           M == [h.maps EXCEPT ![m] = e]
<1>1. h.maps \in Seq(MapSet) /\ h.maps[m] \in MapSet
  BY HeapFields
<1>2. e \in MapSet /\ e.table = h.maps[m].table /\ e.frees = h.maps[m].frees /\ e.listenQ = q
  BY <1>1 DEF MapSet
<1>3. M \in Seq(MapSet) /\ DOMAIN M = DOMAIN h.maps /\ M[m] = e
      /\ \A n \in DOMAIN h.maps : n # m => M[n] = h.maps[n]
  <2> HIDE DEF e
  <2> QED
    BY <1>1, <1>2, Changed
<1>4. p = [h EXCEPT !.maps = M]
  OBVIOUS
<1> HIDE DEF e, M
<1>5. p \in Heaps /\ p.dstMap = h.dstMap /\ p.maps = M /\ p.conns = h.conns /\ p.socks = h.socks
  BY <1>3, <1>4 DEF Heaps
<1>6. \A n \in DOMAIN h.maps : /\ M[n].table = h.maps[n].table
                              /\ M[n].frees = h.maps[n].frees
                              /\ n # m => M[n].listenQ = h.maps[n].listenQ
  BY <1>2, <1>3
<1> QED
  BY <1>2, <1>3, <1>5, <1>6 DEF QueueSet

LEMMA TypesOnly ==
  ASSUME NEW h \in Heaps, NEW x \in DOMAIN h.socks, NEW type \in {"SR", "LA"}, NEW p,
         p = [h EXCEPT !.socks[x].type = type]
  PROVE  SockTyped(h, p, x, type, h.socks[x].la)
<1> DEFINE s == [h.socks[x] EXCEPT !.type = type]
           S == [h.socks EXCEPT ![x] = s]
<1>1. h.socks \in Seq(SockSet) /\ h.socks[x] \in SockSet
  BY HeapFields
<1>2. /\ s \in SockSet /\ s.type = type /\ s.la = h.socks[x].la
      /\ s.send = h.socks[x].send /\ s.recv = h.socks[x].recv
      /\ s.frees = h.socks[x].frees
  BY <1>1 DEF SockSet
<1>3. S \in Seq(SockSet) /\ DOMAIN S = DOMAIN h.socks /\ S[x] = s
      /\ \A y \in DOMAIN h.socks : y # x => S[y] = h.socks[y]
  <2> HIDE DEF s
  <2> QED
    BY <1>1, <1>2, Changed
<1>4. p = [h EXCEPT !.socks = S]
  OBVIOUS
<1> HIDE DEF s, S
<1>5. p \in Heaps /\ p.dstMap = h.dstMap /\ p.maps = h.maps /\ p.conns = h.conns /\ p.socks = S
  BY <1>3, <1>4 DEF Heaps
<1>6. \A y \in DOMAIN h.socks : /\ S[y].send = h.socks[y].send
                               /\ S[y].recv = h.socks[y].recv
                               /\ S[y].frees = h.socks[y].frees
                               /\ y # x => S[y] = h.socks[y]
  BY <1>2, <1>3
<1> QED
  BY <1>2, <1>3, <1>5, <1>6 DEF SockTyped

\* How often the deletion of socket s frees connection c
FreesOf(h, s, c) ==
  IF s.type = "SR" THEN (IF c = s.send THEN 1 ELSE 0) + (IF c = s.recv THEN 1 ELSE 0)
  ELSE IF s.type = "LA" /\ c \in Values(h.maps[s.la].table) THEN 1 ELSE 0

\* Socket x deleted
SockDeleted(h, p, x) ==
  /\ p \in Heaps /\ p.dstMap = h.dstMap
  /\ DOMAIN p.maps = DOMAIN h.maps
  /\ \A m \in DOMAIN h.maps :
       /\ p.maps[m].table = h.maps[m].table /\ p.maps[m].listenQ = h.maps[m].listenQ
       /\ p.maps[m].frees = IF h.socks[x].type = "LA" /\ m = h.socks[x].la
                            THEN h.maps[m].frees + 1 ELSE h.maps[m].frees
  /\ DOMAIN p.conns = DOMAIN h.conns
  /\ \A c \in DOMAIN h.conns :
       p.conns[c].frees = h.conns[c].frees + FreesOf(h, h.socks[x], c)
  /\ h.socks[x].type = "SR" /\ Ends(h.socks[x]) = {} => p.conns = h.conns
  /\ DOMAIN p.socks = DOMAIN h.socks
  /\ \A y \in DOMAIN h.socks : /\ p.socks[y].type = h.socks[y].type
                               /\ p.socks[y].la = h.socks[y].la
                               /\ p.socks[y].send = h.socks[y].send
                               /\ p.socks[y].recv = h.socks[y].recv
                               /\ y # x => p.socks[y].frees = h.socks[y].frees
  /\ p.socks[x].frees = h.socks[x].frees + 1

\* The sources and the connections of a socket are freed, then the socket.
LEMMA FreesSock ==
  ASSUME NEW g \in Heaps, NEW x \in DOMAIN g.socks, NEW p,
         p = [g EXCEPT !.socks[x].frees = @ + 1]
  PROVE  /\ p \in Heaps /\ p.dstMap = g.dstMap /\ p.maps = g.maps /\ p.conns = g.conns
         /\ DOMAIN p.socks = DOMAIN g.socks
         /\ \A y \in DOMAIN g.socks : /\ p.socks[y].type = g.socks[y].type
                                      /\ p.socks[y].la = g.socks[y].la
                                      /\ p.socks[y].send = g.socks[y].send
                                      /\ p.socks[y].recv = g.socks[y].recv
                                      /\ y # x => p.socks[y].frees = g.socks[y].frees
         /\ p.socks[x].frees = g.socks[x].frees + 1
<1> DEFINE s == [g.socks[x] EXCEPT !.frees = @ + 1]
           S == [g.socks EXCEPT ![x] = s]
<1>1. g.socks \in Seq(SockSet) /\ g.socks[x] \in SockSet
  BY HeapFields
<1>2. /\ s \in SockSet /\ s.type = g.socks[x].type /\ s.la = g.socks[x].la
      /\ s.send = g.socks[x].send /\ s.recv = g.socks[x].recv
      /\ s.frees = g.socks[x].frees + 1
  <2>1. PICK t \in SockSet : t = g.socks[x]
    BY <1>1
  <2>2. t.frees + 1 \in Nat
    BY DEF SockSet
  <2>3. s = [t EXCEPT !.frees = t.frees + 1]
    BY <2>1
  <2> HIDE DEF s
  <2> QED
    BY <2>1, <2>2, <2>3 DEF SockSet
<1>3. S \in Seq(SockSet) /\ DOMAIN S = DOMAIN g.socks /\ S[x] = s
      /\ \A y \in DOMAIN g.socks : y # x => S[y] = g.socks[y]
  <2> HIDE DEF s
  <2> QED
    BY <1>1, <1>2, Changed
<1>4. p = [g EXCEPT !.socks = S]
  OBVIOUS
<1> HIDE DEF s, S
<1>5. p \in Heaps /\ p.dstMap = g.dstMap /\ p.maps = g.maps /\ p.conns = g.conns /\ p.socks = S
  BY <1>3, <1>4 DEF Heaps
<1> QED
  BY <1>2, <1>3, <1>5

LEMMA FreesMap ==
  ASSUME NEW g \in Heaps, NEW m \in DOMAIN g.maps, NEW p,
         p = [g EXCEPT !.maps[m].frees = @ + 1]
  PROVE  /\ p \in Heaps /\ p.dstMap = g.dstMap /\ p.socks = g.socks /\ p.conns = g.conns
         /\ DOMAIN p.maps = DOMAIN g.maps
         /\ \A n \in DOMAIN g.maps :
              /\ p.maps[n].table = g.maps[n].table /\ p.maps[n].listenQ = g.maps[n].listenQ
              /\ p.maps[n].frees = IF n = m THEN g.maps[n].frees + 1 ELSE g.maps[n].frees
<1> DEFINE e == [g.maps[m] EXCEPT !.frees = @ + 1]
           M == [g.maps EXCEPT ![m] = e]
<1>1. g.maps \in Seq(MapSet) /\ g.maps[m] \in MapSet
  BY HeapFields
<1>2. /\ e \in MapSet /\ e.table = g.maps[m].table /\ e.listenQ = g.maps[m].listenQ
      /\ e.frees = g.maps[m].frees + 1
  BY <1>1 DEF MapSet
<1>3. M \in Seq(MapSet) /\ DOMAIN M = DOMAIN g.maps /\ M[m] = e
      /\ \A n \in DOMAIN g.maps : n # m => M[n] = g.maps[n]
  <2> HIDE DEF e
  <2> QED
    BY <1>1, <1>2, Changed
<1>4. p = [g EXCEPT !.maps = M]
  OBVIOUS
<1> HIDE DEF e, M
<1>5. p \in Heaps /\ p.dstMap = g.dstMap /\ p.socks = g.socks /\ p.conns = g.conns /\ p.maps = M
  BY <1>3, <1>4 DEF Heaps
<1>6. \A n \in DOMAIN g.maps :
        /\ M[n].table = g.maps[n].table /\ M[n].listenQ = g.maps[n].listenQ
        /\ M[n].frees = IF n = m THEN g.maps[n].frees + 1 ELSE g.maps[n].frees
  BY <1>2, <1>3
<1> QED
  BY <1>3, <1>5, <1>6

LEMMA DeletesSock ==
  ASSUME NEW h \in Heaps, PointersHold(h), NEW x \in DOMAIN h.socks, NEW p,
         p = etcpSockeDelete(h, x)
  PROVE  SockDeleted(h, p, x) /\ PointersHold(p)
<1> DEFINE s == h.socks[x]
<1>0. /\ s \in SockSet /\ s.type \in {"UK", "LA", "SR"}
      /\ s.send \in DOMAIN h.conns \cup {None} /\ s.recv \in DOMAIN h.conns \cup {None}
      /\ s.type = "LA" => s.la \in DOMAIN h.maps
      /\ \A c \in DOMAIN h.conns : h.conns[c].frees \in Nat
      /\ None \notin DOMAIN h.conns
  <2>1. /\ \A c \in DOMAIN h.conns : h.conns[c].frees \in Nat
        /\ None \notin DOMAIN h.conns
    BY HeapFields, NoneAssumption DEF ConnSet
  <2>2. s \in SockSet /\ s.type \in {"UK", "LA", "SR"}
    BY HeapFields DEF SockSet
  <2> QED
    BY <2>1, <2>2 DEF PointersHold
<1>1. PICK g : g = CASE s.type = "SR" -> etcpConnDelete(etcpConnDelete(h, s.send), s.recv)
                     [] s.type = "LA" -> srcsMapDelete(h, s.la)
                     [] s.type = "UK" -> h
  OBVIOUS
<1>2. p = [g EXCEPT !.socks[x].frees = @ + 1]
  BY <1>1 DEF etcpSockeDelete
<1>3. /\ g \in Heaps /\ g.dstMap = h.dstMap /\ g.socks = h.socks
      /\ DOMAIN g.maps = DOMAIN h.maps
      /\ \A m \in DOMAIN h.maps :
           /\ g.maps[m].table = h.maps[m].table /\ g.maps[m].listenQ = h.maps[m].listenQ
           /\ g.maps[m].frees = IF s.type = "LA" /\ m = s.la THEN h.maps[m].frees + 1
                                ELSE h.maps[m].frees
      /\ DOMAIN g.conns = DOMAIN h.conns
      /\ \A c \in DOMAIN h.conns : g.conns[c].frees = h.conns[c].frees + FreesOf(h, s, c)
      /\ s.type = "SR" /\ Ends(s) = {} => g.conns = h.conns
  <2>1. CASE s.type = "SR"
    <3>1. PICK e : e = ConnsFreed(h, {s.send} \ {None})
      OBVIOUS
    <3>2. g = ConnsFreed(e, {s.recv} \ {None})
      BY <1>1, <2>1, <3>1 DEF etcpConnDelete
    <3>3. /\ e \in Heaps /\ e.dstMap = h.dstMap /\ e.maps = h.maps /\ e.socks = h.socks
          /\ DOMAIN e.conns = DOMAIN h.conns
          /\ \A c \in DOMAIN h.conns :
               /\ e.conns[c].frees = IF c \in {s.send} \ {None} THEN h.conns[c].frees + 1
                                    ELSE h.conns[c].frees
               /\ c \notin {s.send} \ {None} => e.conns[c] = h.conns[c]
      BY <3>1, FreesConns
    <3>4. /\ g \in Heaps /\ g.dstMap = e.dstMap /\ g.maps = e.maps /\ g.socks = e.socks
          /\ DOMAIN g.conns = DOMAIN e.conns
          /\ \A c \in DOMAIN e.conns :
               /\ g.conns[c].frees = IF c \in {s.recv} \ {None} THEN e.conns[c].frees + 1
                                    ELSE e.conns[c].frees
               /\ c \notin {s.recv} \ {None} => g.conns[c] = e.conns[c]
      BY <3>2, <3>3, FreesConns
    <3>5. ASSUME NEW c \in DOMAIN h.conns
          PROVE  g.conns[c].frees = h.conns[c].frees + FreesOf(h, s, c)
      <4>1. /\ e.conns[c].frees = h.conns[c].frees + (IF c = s.send THEN 1 ELSE 0)
            /\ g.conns[c].frees = e.conns[c].frees + (IF c = s.recv THEN 1 ELSE 0)
            /\ h.conns[c].frees \in Nat
        BY <1>0, <3>3, <3>4
      <4>2. FreesOf(h, s, c) =
              (IF c = s.send THEN 1 ELSE 0) + (IF c = s.recv THEN 1 ELSE 0)
        BY <2>1 DEF FreesOf
      <4> QED
        BY <4>1, <4>2
    <3>6. Ends(s) = {} => g.conns = h.conns
      <4> SUFFICES ASSUME Ends(s) = {} PROVE g.conns = h.conns
        OBVIOUS
      <4>1. {s.send} \ {None} = {} /\ {s.recv} \ {None} = {}
        BY DEF Ends
      <4>2. \A c \in DOMAIN h.conns : g.conns[c] = h.conns[c]
        BY <3>3, <3>4, <4>1
      <4>3. g.conns \in Seq(ConnSet) /\ h.conns \in Seq(ConnSet)
            /\ Len(g.conns) \in Nat /\ DOMAIN g.conns = 1 .. Len(g.conns)
            /\ Len(h.conns) \in Nat /\ DOMAIN h.conns = 1 .. Len(h.conns)
        BY <3>4, HeapFields
      <4>4. Len(g.conns) = Len(h.conns)
        <5>1. PICK a \in Nat : a = Len(g.conns)
          BY <4>3
        <5>2. PICK b \in Nat : b = Len(h.conns)
          BY <4>3
        <5>3. 1 .. a = 1 .. b
          BY <3>3, <3>4, <4>3, <5>1, <5>2
        <5>4. \A i \in Nat : i \in 1 .. a <=> i \in 1 .. b
          BY <5>3
        <5>5. a = b
          <6>1. a >= 1 => a <= b
            BY <5>4
          <6>2. b >= 1 => b <= a
            BY <5>4
          <6> QED
            BY <6>1, <6>2
        <5> QED
          BY <5>1, <5>2, <5>5
      <4> QED
        BY <4>2, <4>3, <4>4, SeqEqual
    <3> QED
      BY <2>1, <3>3, <3>4, <3>5, <3>6
  <2>2. CASE s.type = "LA"
    <3>1. PICK m \in DOMAIN h.maps : m = s.la
      BY <1>0, <2>2
    <3>2. PICK e : e = [h EXCEPT !.maps[m].frees = @ + 1]
      OBVIOUS
    <3>3. g = ConnsFreed(e, Values(h.maps[m].table))
      <4>1. g = srcsMapDelete(h, m)
        BY <1>1, <2>2, <3>1
      <4>2. h.maps[m].table \in Tables(SrcBucket)
        BY HeapFields, MapFields
      <4>3. Src!Payload(h.maps[m].table) = Values(h.maps[m].table)
        BY <4>2, SrcTable
      <4> QED
        BY <3>2, <4>1, <4>3 DEF srcsMapDelete
    <3>4. /\ e \in Heaps /\ e.dstMap = h.dstMap /\ e.socks = h.socks /\ e.conns = h.conns
          /\ DOMAIN e.maps = DOMAIN h.maps
          /\ \A n \in DOMAIN h.maps :
               /\ e.maps[n].table = h.maps[n].table /\ e.maps[n].listenQ = h.maps[n].listenQ
               /\ e.maps[n].frees = IF n = m THEN h.maps[n].frees + 1 ELSE h.maps[n].frees
      BY <3>2, FreesMap
    <3>5. /\ g \in Heaps /\ g.dstMap = e.dstMap /\ g.maps = e.maps /\ g.socks = e.socks
          /\ DOMAIN g.conns = DOMAIN e.conns
          /\ \A c \in DOMAIN e.conns :
               g.conns[c].frees = IF c \in Values(h.maps[m].table) THEN e.conns[c].frees + 1
                                  ELSE e.conns[c].frees
      BY <3>3, <3>4, FreesConns
    <3>6. ASSUME NEW c \in DOMAIN h.conns
          PROVE  g.conns[c].frees = h.conns[c].frees + FreesOf(h, s, c)
      <4>1. FreesOf(h, s, c) = IF c \in Values(h.maps[m].table) THEN 1 ELSE 0
        BY <2>2, <3>1 DEF FreesOf
      <4> QED
        BY <1>0, <3>4, <3>5, <4>1
    <3> QED
      BY <2>2, <3>1, <3>4, <3>5, <3>6
  <2>3. CASE s.type = "UK"
    <3>1. g = h
      BY <1>1, <2>3
    <3>2. \A c \in DOMAIN h.conns : FreesOf(h, s, c) = 0
      BY <2>3 DEF FreesOf
    <3> QED
      BY <1>0, <2>3, <3>1, <3>2
  <2> QED
    BY <1>0, <2>1, <2>2, <2>3
<1>4. /\ p \in Heaps /\ p.dstMap = g.dstMap /\ p.maps = g.maps /\ p.conns = g.conns
      /\ DOMAIN p.socks = DOMAIN g.socks
      /\ \A y \in DOMAIN g.socks : /\ p.socks[y].type = g.socks[y].type
                                   /\ p.socks[y].la = g.socks[y].la
                                   /\ p.socks[y].send = g.socks[y].send
                                   /\ p.socks[y].recv = g.socks[y].recv
                                   /\ y # x => p.socks[y].frees = g.socks[y].frees
      /\ p.socks[x].frees = g.socks[x].frees + 1
  <2>1. g \in Heaps /\ x \in DOMAIN g.socks
    BY <1>3
  <2> QED
    BY <1>2, <2>1, FreesSock
<1>5. SockDeleted(h, p, x)
  BY <1>3, <1>4 DEF SockDeleted
<1>6. PointersHold(p)
  <2>1. /\ p.dstMap = h.dstMap /\ DOMAIN p.maps = DOMAIN h.maps
        /\ DOMAIN p.conns = DOMAIN h.conns /\ DOMAIN p.socks = DOMAIN h.socks
        /\ \A m \in DOMAIN h.maps : p.maps[m].table = h.maps[m].table
        /\ \A y \in DOMAIN h.socks : /\ p.socks[y].type = h.socks[y].type
                                     /\ p.socks[y].la = h.socks[y].la
                                     /\ p.socks[y].send = h.socks[y].send
                                     /\ p.socks[y].recv = h.socks[y].recv
    BY <1>3, <1>4
  <2> QED
    BY <2>1 DEF PointersHold
<1> QED
  BY <1>5, <1>6

-----------------------------------------------------------------------------
(* The queues of sockets                                                   *)

\* The queues of the process are the queues the lemmas are about.
LEMMA SameQueues ==
  /\ \A s : LQ!Idx(s) = QL!Idx(s)
  /\ LQ!cqNew = QL!cqNew
  /\ \A q : LQ!cqGetNextWrErr(q) = QL!cqGetNextWrErr(q)
  /\ \A q : LQ!cqGetNextRdErr(q) = QL!cqGetNextRdErr(q)
<1>1. \A s : LQ!Idx(s) = QL!Idx(s)
  BY DEF LQ!Idx, QL!Idx
<1>2. LQ!cqNew = QL!cqNew
  BY DEF LQ!cqNew, QL!cqNew, LQ!Slots, QL!Slots
<1>3. \A q : LQ!cqGetNextWrErr(q) = QL!cqGetNextWrErr(q)
  BY DEF LQ!cqGetNextWrErr, QL!cqGetNextWrErr, LQ!InRange, QL!InRange, LQ!Valid,
         QL!Valid, LQ!Idx, QL!Idx
<1>4. \A q : LQ!cqGetNextRdErr(q) = QL!cqGetNextRdErr(q)
  BY DEF LQ!cqGetNextRdErr, QL!cqGetNextRdErr, LQ!Valid, QL!Valid, LQ!Idx, QL!Idx
<1> QED
  BY <1>1, <1>2, <1>3, <1>4

LEMMA SameCommit ==
  ASSUME NEW q, NEW s, NEW n
  PROVE  LQ!cqCommitSlot(q, s, n) = QL!cqCommitSlot(q, s, n)
  BY Zenon DEF LQ!cqCommitSlot, QL!cqCommitSlot, LQ!CommitRefusal, QL!CommitRefusal,
       LQ!cqGetErr, QL!cqGetErr, LQ!InRange, QL!InRange, LQ!Valid, QL!Valid, LQ!Idx,
       QL!Idx, LQ!cqAdvWrSeq, QL!cqAdvWrSeq, LQ!cqAdvWrSeqErr, QL!cqAdvWrSeqErr,
       LQ!WrScanEnd, QL!WrScanEnd, LQ!WrScanStops, QL!WrScanStops, LQ!Filled, QL!Filled

LEMMA SameRelease ==
  ASSUME NEW q, NEW s
  PROVE  LQ!cqReleaseSlot(q, s) = QL!cqReleaseSlot(q, s)
  BY Zenon DEF LQ!cqReleaseSlot, QL!cqReleaseSlot, LQ!cqGetRdErr, QL!cqGetRdErr,
       LQ!cqGetErr, QL!cqGetErr, LQ!InRange, QL!InRange, LQ!Valid, QL!Valid, LQ!Idx,
       QL!Idx, LQ!cqAdvRdSeq, QL!cqAdvRdSeq, LQ!cqAdvRdSeqErr, QL!cqAdvRdSeqErr,
       LQ!RdScanEnd, QL!RdScanEnd, LQ!RdScanStops, QL!RdScanStops, LQ!Emptied,
       QL!Emptied, LQ!SlotSize, QL!SlotSize, LQ!SlotHeaderSize, QL!SlotHeaderSize

\* Facts about the numbers of a queue
LEMMA InLineNumbers ==
  ASSUME NEW q, InLine(q)
  PROVE  /\ q \in QL!QueueType(Pointers) /\ QL!Windowed(q) /\ QL!NoHoles(q) /\ QL!TailFree(q)
         /\ q.rdSeq \in Nat /\ q.wrSeq \in Nat /\ q.rdSeq <= q.wrSeq
         /\ q.wrSeq <= q.rdSeq + Backlog /\ Backlog \in Nat /\ Backlog > 0
         /\ q.buff \in [QL!Slots -> Pointers] /\ q.len \in [QL!Slots -> Nat]
         /\ q.valid \in [QL!Slots -> BOOLEAN]
         /\ q # None
<1>1. q \in QL!QueueType(Pointers) /\ QL!Windowed(q) /\ QL!NoHoles(q) /\ QL!TailFree(q)
  BY DEF InLine
<1>2. /\ q.rdSeq \in Nat /\ q.wrSeq \in Nat /\ q.rdSeq <= q.wrSeq
      /\ q.wrSeq <= q.rdSeq + Backlog /\ Backlog \in Nat /\ Backlog > 0
      /\ q.buff \in [QL!Slots -> Pointers] /\ q.len \in [QL!Slots -> Nat]
      /\ q.valid \in [QL!Slots -> BOOLEAN]
  BY <1>1, QL!Numbers, BacklogFacts
<1>3. QL!QueueType(Pointers) = LQ!QueueType({None} \cup Nat)
  BY DEF QL!QueueType, LQ!QueueType, QL!Slots, LQ!Slots, Pointers
<1> QED
  BY <1>1, <1>2, <1>3, NoneAssumption

\* A new queue is in line and empty.
LEMMA NewQ == InLine(QL!cqNew) /\ Items(QL!cqNew) = {}
<1> DEFINE q == QL!cqNew
<1>1. Backlog \in Nat /\ Backlog > 0
  BY BacklogFacts
<1>2. /\ q.rdSeq = 0 /\ q.wrSeq = 0 /\ q.rdMin = 0 /\ q.rdMax = 0 /\ q.wrMin = 0
      /\ q.wrMax = Backlog
      /\ q.valid = [i \in QL!Slots |-> FALSE] /\ q.len = [i \in QL!Slots |-> PointerSize]
  BY DEF QL!cqNew
<1>3. q \in QL!QueueType(Pointers)
  BY <1>1 DEF QL!cqNew, QL!QueueType, Pointers, PointerSize
<1> HIDE DEF q
<1>4. \A s \in Nat : ~QL!Valid(q, s)
  <2> TAKE s \in Nat
  <2>1. QL!Idx(s) \in QL!Slots
    BY QL!IdxType, BacklogFacts
  <2> QED
    BY <1>2, <2>1 DEF QL!Valid
<1>5. QL!Windowed(q)
  BY <1>1, <1>2, <1>4 DEF QL!Windowed, QL!CursorsAgree, QL!WriteCursorInWindow,
                         QL!CursorsAtRest
<1>6. q.rdSeq .. q.wrSeq - 1 = {}
  BY <1>2
<1>7. QL!NoHoles(q) /\ Items(q) = {}
  BY <1>6 DEF QL!NoHoles, Items
<1>8. QL!TailFree(q)
  BY <1>1, <1>2, <1>4 DEF QL!TailFree
<1>9. \A j \in QL!Slots : q.len[j] >= PointerSize
  BY <1>2 DEF PointerSize
<1>10. InLine(q)
  BY <1>3, <1>5, <1>6, <1>7, <1>8, <1>9 DEF InLine
<1> QED
  BY <1>7, <1>10 DEF q

\* A socket that was made after the ones that wait goes to the end.
LEMMA EnqueueQ ==
  ASSUME NEW q, InLine(q), NEW x \in Nat, QL!cqGetNextWrErr(q) = "cqENOERR",
         \A y \in Items(q) : y < x,
         NEW b, b = [q EXCEPT !.buff[QL!Idx(q.wrSeq)] = x],
         NEW p, p = QL!cqCommitSlot(b, q.wrSeq, PointerSize)
  PROVE  InLine(p) /\ Items(p) = Items(q) \cup {x}
<1>1. /\ q \in QL!QueueType(Pointers) /\ QL!Windowed(q) /\ QL!NoHoles(q) /\ QL!TailFree(q)
      /\ q.rdSeq \in Nat /\ q.wrSeq \in Nat /\ q.rdSeq <= q.wrSeq
      /\ q.buff \in [QL!Slots -> Pointers] /\ Backlog \in Nat
  BY InLineNumbers
<1>2. QL!Idx(q.wrSeq) \in QL!Slots
  BY <1>1, QL!IdxType, BacklogFacts
<1>3. /\ b \in QL!QueueType(Pointers) /\ QL!SameWindow(q, b)
      /\ b.buff = [q.buff EXCEPT ![QL!Idx(q.wrSeq)] = x]
      /\ b.wrSeq = q.wrSeq /\ b.rdSeq = q.rdSeq /\ b.len = q.len
  BY <1>1, <1>2 DEF QL!QueueType, QL!SameWindow, Pointers
<1>4. /\ QL!Windowed(b) /\ QL!NoHoles(b) /\ QL!TailFree(b)
      /\ \A s, n : QL!CommitRefusal(b, s, n) = QL!CommitRefusal(q, s, n)
  BY <1>1, <1>3, QL!SameWindowFacts, BacklogFacts
<1>5. QL!InRange(q, q.wrSeq) /\ ~QL!Valid(q, q.wrSeq)
  BY DEF QL!cqGetNextWrErr
<1>6. QL!CommitRefusal(b, q.wrSeq, PointerSize) = "cqENOERR"
  <2>1. \A j \in QL!Slots : q.len[j] >= PointerSize /\ q.len[j] \in Nat
    BY InLineNumbers DEF InLine
  <2>2. ~(PointerSize > q.len[QL!Idx(q.wrSeq)])
    BY <1>2, <2>1 DEF PointerSize
  <2> QED
    BY <1>4, <1>5, <2>2 DEF QL!CommitRefusal
<1>7. /\ p \in QL!QueueType(Pointers) /\ QL!Windowed(p)
  BY <1>1, <1>3, <1>4, QL!CommitKeepsWindow, BacklogFacts
<1>8. QL!NoHoles(p)
  BY <1>1, <1>3, <1>4, QL!CommitKeepsNoHoles, BacklogFacts
<1>9. QL!TailFree(p) /\ p.wrSeq = q.wrSeq + 1
  <2>1. p = QL!cqCommitSlot(b, b.wrSeq, PointerSize)
        /\ QL!CommitRefusal(b, b.wrSeq, PointerSize) = "cqENOERR"
    BY <1>3, <1>6
  <2>2. QL!TailFree(p) /\ p.wrSeq = b.wrSeq + 1
    BY <1>3, <1>4, <2>1, QL!CommitKeepsTailFree, BacklogFacts
  <2> QED
    BY <1>3, <2>2
<1>10. p.rdSeq = q.rdSeq /\ p.buff = b.buff
       /\ p.len = [q.len EXCEPT ![QL!Idx(q.wrSeq)] = PointerSize]
  <2>1. QL!AfterCommit(b, q.wrSeq, PointerSize, p)
    BY <1>1, <1>3, <1>4, <1>6, QL!CommitEffect, BacklogFacts
  <2> QED
    BY <1>3, <2>1 DEF QL!AfterCommit
<1>11. \A j \in QL!Slots : p.len[j] >= PointerSize
  <2>1. \A j \in QL!Slots : q.len[j] >= PointerSize
    BY DEF InLine
  <2>2. q.len \in [QL!Slots -> Nat]
    BY InLineNumbers
  <2> QED
    BY <1>10, <2>1, <2>2 DEF PointerSize
<1>12. Item(p, q.wrSeq) = x
  BY <1>1, <1>2, <1>3, <1>10 DEF Item
<1>13. ASSUME NEW s \in q.rdSeq .. q.wrSeq - 1 PROVE Item(p, s) = Item(q, s)
  <2>1. s \in Nat /\ s < q.wrSeq /\ q.wrSeq < s + Backlog
    BY <1>1, <1>5 DEF QL!InRange
  <2>2. QL!Idx(s) # QL!Idx(q.wrSeq)
    <3>1. SUFFICES ASSUME QL!Idx(s) = QL!Idx(q.wrSeq) PROVE FALSE
      OBVIOUS
    <3>2. s < q.wrSeq + Backlog
      BY <1>1, <2>1
    <3>3. s = q.wrSeq
      BY <1>1, <2>1, <3>1, <3>2, QL!IdxDistinct, BacklogFacts
    <3> QED
      BY <1>1, <2>1, <3>3
  <2>3. QL!Idx(s) \in QL!Slots
    BY <2>1, QL!IdxType, BacklogFacts
  <2> QED
    BY <1>1, <1>3, <1>10, <2>2, <2>3 DEF Item
<1>14. p.rdSeq .. p.wrSeq - 1 = (q.rdSeq .. q.wrSeq - 1) \cup {q.wrSeq}
  BY <1>1, <1>9, <1>10
<1>15. Items(p) = Items(q) \cup {x}
  <2>1. Items(p) = {Item(p, s) : s \in (q.rdSeq .. q.wrSeq - 1) \cup {q.wrSeq}}
    BY <1>14 DEF Items
  <2>2. ASSUME NEW y \in Items(p) PROVE y \in Items(q) \cup {x}
    <3>1. PICK s \in (q.rdSeq .. q.wrSeq - 1) \cup {q.wrSeq} : y = Item(p, s)
      BY <2>1, <2>2
    <3> QED
      BY <1>12, <1>13, <3>1 DEF Items
  <2>3. ASSUME NEW y \in Items(q) \cup {x} PROVE y \in Items(p)
    <3>1. CASE y = x
      BY <1>12, <2>1, <3>1
    <3>2. CASE y \in Items(q)
      <4>1. PICK s \in q.rdSeq .. q.wrSeq - 1 : y = Item(q, s)
        BY <3>2 DEF Items
      <4> QED
        BY <1>13, <2>1, <4>1
    <3> QED
      BY <2>3, <3>1, <3>2
  <2> QED
    BY <2>2, <2>3
<1>16. Items(p) \subseteq Nat
  BY <1>15 DEF InLine
<1>17. ASSUME NEW s \in p.rdSeq .. p.wrSeq - 1, NEW t \in p.rdSeq .. p.wrSeq - 1, s < t
       PROVE  Item(p, s) < Item(p, t)
  <2>1. s \in q.rdSeq .. q.wrSeq - 1
    BY <1>1, <1>9, <1>10, <1>17
  <2>2. CASE t = q.wrSeq
    <3>1. Item(q, s) \in Items(q)
      BY <2>1 DEF Items
    <3> QED
      BY <1>12, <1>13, <2>1, <2>2, <3>1
  <2>3. CASE t \in q.rdSeq .. q.wrSeq - 1
    <3>1. Item(q, s) < Item(q, t)
      BY <1>17, <2>1, <2>3 DEF InLine
    <3> QED
      BY <1>13, <2>1, <2>3, <3>1
  <2> QED
    BY <1>14, <2>2, <2>3
<1>18. InLine(p)
  BY <1>7, <1>8, <1>9, <1>11, <1>16, <1>17 DEF InLine
<1> QED
  BY <1>15, <1>18

\* The one in I that was made first
Oldest(x, I) == x \in I /\ \A y \in I : x <= y

\* The socket that is taken out is the one that was made first.
LEMMA ReleaseQ ==
  ASSUME NEW q, InLine(q), QL!cqGetNextRdErr(q) = "cqENOERR",
         NEW p, p = QL!cqReleaseSlot(q, q.rdSeq), NEW x, x = Item(q, q.rdSeq)
  PROVE  InLine(p) /\ Items(p) = Items(q) \ {x} /\ Oldest(x, Items(q))
<1>1. /\ q \in QL!QueueType(Pointers) /\ QL!Windowed(q) /\ QL!NoHoles(q) /\ QL!TailFree(q)
      /\ q.rdSeq \in Nat /\ q.wrSeq \in Nat /\ q.rdSeq <= q.wrSeq
      /\ Backlog \in Nat /\ Backlog > 0
  BY InLineNumbers
<1>2. QL!Valid(q, q.rdSeq)
  BY DEF QL!cqGetNextRdErr
<1>3. q.rdSeq < q.wrSeq
  BY <1>1, <1>2, QL!ReleasedIsBehind, BacklogFacts
<1>4. QL!cqGetRdErr(q, q.rdSeq) = "cqENOERR"
  BY <1>1, <1>2 DEF QL!cqGetRdErr, QL!InRange
<1>5. p \in QL!QueueType(Pointers) /\ QL!Windowed(p)
  BY <1>1, QL!ReleaseKeepsWindow, BacklogFacts
<1>6. QL!NoHoles(p) /\ p.rdSeq = q.rdSeq + 1
  BY <1>1, <1>4, QL!ReleaseKeepsNoHoles, BacklogFacts
<1>7. QL!TailFree(p)
  BY <1>1, QL!ReleaseKeepsTailFree, BacklogFacts
<1>8. p.wrSeq = q.wrSeq /\ p.buff = q.buff
      /\ p.len = [q.len EXCEPT ![QL!Idx(q.rdSeq)] = QL!SlotSize]
  <2>1. QL!AfterRelease(q, q.rdSeq, p)
    BY <1>1, <1>4, QL!ReleaseEffect, BacklogFacts
  <2> QED
    BY <2>1 DEF QL!AfterRelease
<1>9. \A j \in QL!Slots : p.len[j] >= PointerSize
  <2>1. \A j \in QL!Slots : q.len[j] >= PointerSize
    BY DEF InLine
  <2>2. q.len \in [QL!Slots -> Nat]
    BY InLineNumbers
  <2>3. QL!SlotSize >= PointerSize
    BY DEF QL!SlotSize, QL!SlotHeaderSize, PointerSize
  <2> QED
    BY <1>8, <2>1, <2>2, <2>3 DEF PointerSize
<1>10. \A s : Item(p, s) = Item(q, s)
  BY <1>8 DEF Item
<1>11. p.rdSeq .. p.wrSeq - 1 = (q.rdSeq .. q.wrSeq - 1) \ {q.rdSeq}
  BY <1>1, <1>6, <1>8
<1>12. q.rdSeq \in q.rdSeq .. q.wrSeq - 1
  BY <1>1, <1>3
<1>13. \A s, t \in q.rdSeq .. q.wrSeq - 1 : s < t => Item(q, s) < Item(q, t)
  BY DEF InLine
<1>14. \A s \in q.rdSeq .. q.wrSeq - 1 : Item(q, s) \in Items(q) /\ Item(q, s) \in Nat
  BY DEF Items, InLine
<1>15. \A s \in q.rdSeq .. q.wrSeq - 1 : s # q.rdSeq => x < Item(q, s)
  <2> TAKE s \in q.rdSeq .. q.wrSeq - 1
  <2>1. s # q.rdSeq => q.rdSeq < s
    BY <1>1
  <2> QED
    BY <1>12, <1>13, <2>1
<1>16. x \in Items(q) /\ x \in Nat /\ \A y \in Items(q) : x <= y
  <2>1. x \in Items(q) /\ x \in Nat
    BY <1>12, <1>14
  <2>2. ASSUME NEW y \in Items(q) PROVE x <= y
    <3>1. PICK s \in q.rdSeq .. q.wrSeq - 1 : y = Item(q, s)
      BY <2>2 DEF Items
    <3> QED
      BY <1>14, <1>15, <2>1, <3>1
  <2> QED
    BY <2>1, <2>2
<1>17. Items(p) = Items(q) \ {x}
  <2>1. ASSUME NEW y \in Items(p) PROVE y \in Items(q) \ {x}
    <3>1. PICK s \in (q.rdSeq .. q.wrSeq - 1) \ {q.rdSeq} : y = Item(q, s)
      BY <1>10, <1>11, <2>1 DEF Items
    <3>2. y \in Items(q) /\ y \in Nat /\ x < y
      BY <1>14, <1>15, <3>1
    <3> QED
      BY <1>16, <3>2
  <2>2. ASSUME NEW y \in Items(q) \ {x} PROVE y \in Items(p)
    <3>1. PICK s \in q.rdSeq .. q.wrSeq - 1 : y = Item(q, s)
      BY <2>2 DEF Items
    <3>2. s # q.rdSeq
      BY <2>2, <3>1
    <3> QED
      BY <1>10, <1>11, <3>1, <3>2 DEF Items
  <2> QED
    BY <2>1, <2>2
<1>18. ASSUME NEW s \in p.rdSeq .. p.wrSeq - 1, NEW t \in p.rdSeq .. p.wrSeq - 1, s < t
       PROVE  Item(p, s) < Item(p, t)
  BY <1>10, <1>11, <1>13, <1>18
<1>19. InLine(p)
  <2>1. Items(p) \subseteq Nat
    BY <1>17 DEF InLine
  <2> QED
    BY <1>5, <1>6, <1>7, <1>9, <1>18, <2>1 DEF InLine
<1> QED
  BY <1>16, <1>17, <1>19 DEF Oldest

-----------------------------------------------------------------------------
(* The queues of the process                                               *)

\* The queues are the same, new sources have none.
SameLines(h, p) ==
  /\ DOMAIN h.maps \subseteq DOMAIN p.maps
  /\ \A m \in DOMAIN h.maps : p.maps[m].listenQ = h.maps[m].listenQ
  /\ \A m \in DOMAIN p.maps \ DOMAIN h.maps : p.maps[m].listenQ = None

LEMMA QueuesStay ==
  ASSUME NEW h, NEW p, NEW H, NEW G, QueuesHold(h, H), SameLines(h, p),
         \A m \in DOMAIN h.maps : Queued(h, m) \subseteq Live(p) \ G,
         G \subseteq Live(p)
  PROVE  /\ QueuesHold(p, G)
         /\ \A m \in DOMAIN h.maps : Queued(p, m) = Queued(h, m)
<1>1. \A m \in DOMAIN h.maps : Queued(p, m) = Queued(h, m)
  BY DEF SameLines, Queued
<1>2. \A m \in DOMAIN p.maps \ DOMAIN h.maps : Queued(p, m) = {}
  BY DEF SameLines, Queued
<1>3. \A m \in DOMAIN p.maps : p.maps[m].listenQ # None => InLine(p.maps[m].listenQ)
  BY DEF SameLines, QueuesHold
<1>4. \A m \in DOMAIN p.maps : \A x \in Queued(p, m) : x \in Live(p) /\ x \notin G
  BY <1>1, <1>2
<1>5. ASSUME NEW m \in DOMAIN p.maps, NEW n \in DOMAIN p.maps, m # n
      PROVE  Queued(p, m) \cap Queued(p, n) = {}
  <2>1. CASE m \in DOMAIN h.maps /\ n \in DOMAIN h.maps
    <3>1. Queued(h, m) \cap Queued(h, n) = {}
      BY <1>5, <2>1 DEF QueuesHold
    <3> QED
      BY <1>1, <2>1, <3>1
  <2>2. CASE ~(m \in DOMAIN h.maps /\ n \in DOMAIN h.maps)
    BY <1>2, <2>2
  <2> QED
    BY <2>1, <2>2
<1>6. QueuesHold(p, G)
  BY <1>3, <1>4, <1>5 DEF QueuesHold, Live
<1> QED
  BY <1>1, <1>6

\* The sockets of I do not wait in queues other than that of sources m, which
\* are as they were.
OnlyHere(h, m, I) == \A n \in DOMAIN h.maps \ {m} : Queued(h, n) \cap I = {}

OthersQueued(h, p, m) == \A n \in DOMAIN h.maps \ {m} : Queued(p, n) = Queued(h, n)

\* The queue of one of the sources changes.
LEMMA QueueChanges ==
  ASSUME NEW h, NEW p, NEW m \in DOMAIN h.maps, NEW q, NEW H, NEW G,
         QueuesHold(h, H), QueueSet(h, p, m, q), q # None => InLine(q),
         NEW I, I = Queued(p, m), I \subseteq Live(h) \ G, G \subseteq Live(h), OnlyHere(h, m, I \cup G)
  PROVE  QueuesHold(p, G) /\ OthersQueued(h, p, m)
<1> USE DEF OnlyHere
<1>0. DOMAIN p.maps = DOMAIN h.maps /\ Live(p) = Live(h) /\ p.socks = h.socks
      /\ p.maps[m].listenQ = q
  BY DEF QueueSet, Live
<1>1. \A n \in DOMAIN h.maps \ {m} : Queued(p, n) = Queued(h, n)
  BY DEF QueueSet, Queued
<1>2. \A n \in DOMAIN p.maps : p.maps[n].listenQ # None => InLine(p.maps[n].listenQ)
  BY <1>0 DEF QueueSet, QueuesHold
<1>3. ASSUME NEW n \in DOMAIN p.maps PROVE Queued(p, n) \subseteq Live(p) \ G
  <2>1. CASE n = m
    BY <1>0, <2>1
  <2>2. CASE n # m
    <3>1. Queued(h, n) \subseteq Live(h) /\ Queued(h, n) \cap G = {}
      BY <1>0, <2>2 DEF QueuesHold, Live
    <3> QED
      BY <1>0, <1>1, <2>2, <3>1
  <2> QED
    BY <2>1, <2>2
<1>4. ASSUME NEW n \in DOMAIN p.maps, NEW o \in DOMAIN p.maps, n # o
      PROVE  Queued(p, n) \cap Queued(p, o) = {}
  <2>1. CASE n # m /\ o # m
    <3>1. Queued(h, n) \cap Queued(h, o) = {}
      BY <1>0, <1>4 DEF QueuesHold
    <3> QED
      BY <1>0, <1>1, <2>1, <3>1
  <2>2. CASE n = m
    <3>1. Queued(h, o) \cap I = {}
      BY <1>0, <1>4, <2>2
    <3> QED
      BY <1>0, <1>1, <1>4, <2>2, <3>1
  <2>3. CASE o = m
    <3>1. Queued(h, n) \cap I = {}
      BY <1>0, <1>4, <2>3
    <3> QED
      BY <1>0, <1>1, <1>4, <2>3, <3>1
  <2> QED
    BY <2>1, <2>2, <2>3
<1>5. QueuesHold(p, G)
  BY <1>0, <1>2, <1>3, <1>4 DEF QueuesHold, Live
<1> QED
  BY <1>1, <1>5 DEF OthersQueued

-----------------------------------------------------------------------------
(* What agrees, call by call                                               *)

\* Sockets without ends come, go and change; the rest is as it was.
SocksFit(h, p) ==
  /\ \A x \in Live(h) : Ends(h.socks[x]) # {} =>
       /\ x \in Live(p) /\ p.socks[x].send = h.socks[x].send
       /\ p.socks[x].recv = h.socks[x].recv
  /\ \A x \in Live(p) :
       \/ Ends(p.socks[x]) = {}
       \/ /\ x \in Live(h) /\ p.socks[x].send = h.socks[x].send
          /\ p.socks[x].recv = h.socks[x].recv /\ p.socks[x].type # "UK"
  /\ \A x \in DOMAIN p.socks : p.socks[x].frees \in {0, 1}

LEMMA AgreeStays ==
  ASSUME NEW h \in Heaps, NEW p, PointersHold(h), Agree(h), p.dstMap = h.dstMap,
         DOMAIN p.maps = DOMAIN h.maps, p.conns = h.conns,
         \A m \in DOMAIN h.maps : /\ p.maps[m].table = h.maps[m].table
                                  /\ p.maps[m].frees = h.maps[m].frees,
         SocksFit(h, p)
  PROVE  Agree(p) /\ LooksSame(h, p)
<1>0. LooksSame(h, p)
  BY LooksStay
<1>1. TablesPlain(p)
  BY DEF Agree, TablesPlain
<1>2. OwnSources(p)
  BY <1>0 DEF Agree, OwnSources, LooksSame
<1>3. FreesCounted(p)
  BY DEF Agree, FreesCounted, SocksFit
<1>4. FoundAgrees(p)
  BY <1>0 DEF Agree, FoundAgrees, LooksSame
<1>5. LiveFound(p)
  <2> SUFFICES ASSUME NEW c \in DOMAIN h.conns, h.conns[c].frees = 0
               PROVE  DatConn(p, h.conns[c].flow) = c
    BY DEF LiveFound
  <2>1. h.conns[c].flow \in FlowIds
    BY HeapFields DEF ConnSet
  <2> QED
    BY <1>0, <2>1 DEF Agree, LiveFound, LooksSame
<1>6. EndsAgree(p)
  <2> SUFFICES ASSUME NEW x \in Live(p)
               PROVE  /\ p.socks[x].type = "UK" => Ends(p.socks[x]) = {}
                      /\ \A c \in Ends(p.socks[x]) : h.conns[c].frees = 0
                      /\ p.socks[x].send # None =>
                           h.conns[p.socks[x].send].flow.src \in OwnAddrs
                      /\ p.socks[x].recv # None =>
                           h.conns[p.socks[x].recv].flow.src \in PeerAddrs
    BY DEF EndsAgree
  <2>1. CASE Ends(p.socks[x]) = {}
    BY <2>1 DEF Ends
  <2>2. CASE /\ x \in Live(h) /\ p.socks[x].send = h.socks[x].send
             /\ p.socks[x].recv = h.socks[x].recv /\ p.socks[x].type # "UK"
    BY <2>2 DEF Agree, EndsAgree, Ends
  <2> QED
    BY <2>1, <2>2 DEF SocksFit
<1>7. OneOwner(p)
  <2>1. ASSUME NEW c \in DOMAIN h.conns, h.conns[c].frees = 0
        PROVE  \E x \in Live(p) : c \in Ends(p.socks[x])
    <3>1. PICK x \in Live(h) : c \in Ends(h.socks[x])
      BY <2>1 DEF Agree, OneOwner
    <3>2. x \in Live(p) /\ Ends(p.socks[x]) = Ends(h.socks[x])
      BY <3>1 DEF SocksFit, Ends
    <3> QED
      BY <3>1, <3>2
  <2>2. ASSUME NEW x \in Live(p), NEW y \in Live(p), x # y
        PROVE  Ends(p.socks[x]) \cap Ends(p.socks[y]) = {}
    <3>1. CASE Ends(p.socks[x]) = {} \/ Ends(p.socks[y]) = {}
      BY <3>1
    <3>2. CASE Ends(p.socks[x]) # {} /\ Ends(p.socks[y]) # {}
      <4>1. /\ x \in Live(h) /\ y \in Live(h) /\ Ends(p.socks[x]) = Ends(h.socks[x])
            /\ Ends(p.socks[y]) = Ends(h.socks[y])
        BY <3>2 DEF SocksFit, Ends
      <4> QED
        BY <2>2, <4>1 DEF Agree, OneOwner
    <3> QED
      BY <3>1, <3>2
  <2> QED
    BY <2>1, <2>2 DEF OneOwner
<1>8. ReturnsFollow(p)
  <2> SUFFICES ASSUME NEW f \in Flows, NoRet[f], DatConn(p, Reverse(f)) # None
               PROVE  DatConn(p, f) # None
    BY DEF ReturnsFollow
  <2>1. f \in FlowIds /\ Reverse(f) \in FlowIds
    BY FlowsAssumption DEF FlowIds, Reverse
  <2> QED
    BY <1>0, <2>1 DEF Agree, ReturnsFollow, LooksSame
<1> QED
  BY <1>0, <1>1, <1>2, <1>3, <1>4, <1>5, <1>6, <1>7, <1>8 DEF Agree

\* Both functions tell the addresses apart.
LEMMA Injective ==
  ASSUME NoCollisions
  PROVE  Apart(DstBucket) /\ Apart(SrcBucket)
  BY DEF NoCollisions, Apart

\* New sources have nothing in them.
SourcesWell(h, p, dst, entered) ==
  /\ Agree(p)
  /\ \A a \in Addrs : Sources(p, a) = IF entered /\ a = dst THEN Len(h.maps) + 1
                                       ELSE Sources(h, a)
  /\ \A f \in FlowIds : DatConn(p, f) = DatConn(h, f)

LEMMA SourcesAgree ==
  ASSUME NoCollisions, NEW h \in Heaps, NEW p, PointersHold(h), Agree(h),
         NEW dst \in Addrs, NEW entered \in BOOLEAN, SourcesMade(h, p, dst, entered),
         entered => Sources(h, dst) = None
  PROVE  SourcesWell(h, p, dst, entered)
<1> DEFINE n == Len(h.maps) + 1
<1>1. /\ p \in Heaps /\ p.conns = h.conns /\ p.socks = h.socks /\ n \in Nat
      /\ DOMAIN p.maps = DOMAIN h.maps \cup {n} /\ n \notin DOMAIN h.maps
      /\ p.maps[n] = [table |-> Empty(SrcBucket), listenQ |-> None, frees |-> 0]
      /\ \A m \in DOMAIN h.maps : p.maps[m] = h.maps[m]
  BY DEF SourcesMade
<1>2. h.dstMap \in Tables(DstBucket) /\ Plain(h.dstMap, DstBucket)
  BY HeapFields DEF Agree, TablesPlain
<1>3. PointersHold(p)
  BY SourcesGrow DEF Grows
<1>4. /\ Plain(p.dstMap, DstBucket)
      /\ \A a \in Addrs : Get(DstBucket, p.dstMap, a) =
           IF entered /\ a = dst THEN n ELSE Get(DstBucket, h.dstMap, a)
  <2>1. CASE entered
    <3>1. p.dstMap = Add(DstBucket, h.dstMap, dst, n, TRUE)
      BY <2>1 DEF SourcesMade
    <3>2. ~Finds(DstBucket, h.dstMap, dst)
      BY <1>2, <2>1, GetValue, Look, BucketFacts
    <3> HIDE DEF n
    <3>3. /\ Plain(p.dstMap, DstBucket)
          /\ \A a \in Addrs : Get(DstBucket, p.dstMap, a) =
               IF a = dst THEN n ELSE Get(DstBucket, h.dstMap, a)
      <4>1. /\ DstBucket \in [Addrs -> Nat] /\ n \in Nat
            /\ Apart(DstBucket)
        BY <1>1, Injective, BucketFacts
      <4>2. PICK t \in Tables(DstBucket) : t = h.dstMap
        BY <1>2
      <4>3. Plain(t, DstBucket) /\ ~Finds(DstBucket, t, dst)
            /\ p.dstMap = Add(DstBucket, t, dst, n, TRUE)
        BY <1>2, <3>1, <3>2, <4>2
      <4>4. /\ Plain(p.dstMap, DstBucket)
            /\ \A a \in Addrs : Get(DstBucket, p.dstMap, a) =
                 IF a = dst THEN n ELSE Get(DstBucket, t, a)
        <5>1. WithEntry(DstBucket, t, dst, n, p.dstMap)
          BY <4>1, <4>3, PlainAdd
        <5> QED
          BY <5>1 DEF WithEntry
      <4> QED
        BY <4>2, <4>4
    <3> QED
      BY <2>1, <3>3
  <2>2. CASE ~entered
    BY <1>2, <2>2 DEF SourcesMade
  <2> QED
    BY <2>1, <2>2
<1> HIDE DEF n
<1>5. \A a \in Addrs : Sources(p, a) = IF entered /\ a = dst THEN n ELSE Sources(h, a)
  <2>1. \A a \in Addrs : Sources(p, a) = Get(DstBucket, p.dstMap, a)
    BY <1>1, <1>3, Look
  <2>2. \A a \in Addrs : Sources(h, a) = Get(DstBucket, h.dstMap, a)
    BY Look
  <2> QED
    BY <1>4, <2>1, <2>2
<1>6. ASSUME NEW f \in FlowIds PROVE DatConn(p, f) = DatConn(h, f)
  <2>1. /\ f.dst \in Addrs /\ f.src \in Addrs
        /\ DatConn(p, f) = IF Sources(p, f.dst) = None THEN None
                           ELSE Get(SrcBucket, p.maps[Sources(p, f.dst)].table, f.src)
    BY <1>1, <1>3, Look
  <2>2. /\ DatConn(h, f) = IF Sources(h, f.dst) = None THEN None
                           ELSE Get(SrcBucket, h.maps[Sources(h, f.dst)].table, f.src)
        /\ Sources(h, f.dst) \in DOMAIN h.maps \cup {None}
    BY <2>1, Look
  <2>3. CASE entered /\ f.dst = dst
    <3>1. Sources(p, f.dst) = n /\ n # None /\ DatConn(h, f) = None
      BY <1>1, <1>5, <2>1, <2>2, <2>3, BucketFacts
    <3>2. p.maps[n].table = Empty(SrcBucket)
      BY <1>1
    <3>3. Get(SrcBucket, Empty(SrcBucket), f.src) = None
      BY <2>1, NewTable, BucketFacts
    <3> QED
      BY <2>1, <3>1, <3>2, <3>3
  <2>4. CASE ~(entered /\ f.dst = dst)
    BY <1>1, <1>5, <2>1, <2>2, <2>4
  <2> QED
    BY <2>3, <2>4
<1>7. TablesPlain(p)
  <2> SUFFICES ASSUME NEW m \in DOMAIN p.maps PROVE Plain(p.maps[m].table, SrcBucket)
    BY <1>4 DEF TablesPlain
  <2>1. CASE m \in DOMAIN h.maps
    BY <1>1, <2>1 DEF Agree, TablesPlain
  <2>2. CASE m = n
    <3>1. p.maps[m].table = Empty(SrcBucket)
      BY <1>1, <2>2
    <3> QED
      BY <3>1, NewTable, BucketFacts
  <2> QED
    BY <1>1, <2>1, <2>2
<1>8. OwnSources(p)
  <2> SUFFICES ASSUME NEW a \in Addrs, NEW b \in Addrs, Sources(p, a) # None,
                      Sources(p, a) = Sources(p, b)
               PROVE  a = b
    BY DEF OwnSources
  <2>1. Sources(h, a) # n /\ Sources(h, b) # n
    BY <1>1, Look, BucketFacts
  <2>2. Sources(h, a) # None /\ Sources(h, a) = Sources(h, b) => a = b
    BY DEF Agree, OwnSources
  <2> QED
    BY <1>5, <2>1, <2>2
<1>9. FreesCounted(p)
  <2>1. p.maps[n].frees = 0
    BY <1>1
  <2> QED
    BY <1>1, <2>1 DEF Agree, FreesCounted
<1>10. FoundAgrees(p)
  <2>1. ASSUME NEW m \in DOMAIN p.maps, NEW c \in Values(p.maps[m].table)
        PROVE  p.conns[c].frees = 0
    <3>1. CASE m \in DOMAIN h.maps
      BY <1>1, <2>1, <3>1 DEF Agree, FoundAgrees
    <3>2. CASE m = n
      <4>1. p.maps[m].table = Empty(SrcBucket)
        BY <1>1, <3>2
      <4>2. Values(Empty(SrcBucket)) = {}
        BY NewTable, BucketFacts
      <4> QED
        BY <2>1, <4>1, <4>2
    <3> QED
      BY <1>1, <3>1, <3>2
  <2>2. \A f \in FlowIds :
          DatConn(p, f) # None => p.conns[DatConn(p, f)] = [flow |-> f, frees |-> 0]
    BY <1>1, <1>6 DEF Agree, FoundAgrees
  <2> QED
    BY <2>1, <2>2 DEF FoundAgrees
<1>11. LiveFound(p)
  <2> SUFFICES ASSUME NEW c \in DOMAIN h.conns, h.conns[c].frees = 0
               PROVE  DatConn(p, h.conns[c].flow) = c
    BY <1>1 DEF LiveFound
  <2>1. h.conns[c].flow \in FlowIds
    BY HeapFields DEF ConnSet
  <2> QED
    BY <1>6, <2>1 DEF Agree, LiveFound
<1>12. EndsAgree(p) /\ OneOwner(p)
  <2>1. Live(p) = Live(h)
    BY <1>1 DEF Live
  <2>2. EndsAgree(p)
    BY <1>1, <2>1 DEF Agree, EndsAgree
  <2>3. OneOwner(p)
    BY <1>1, <2>1 DEF Agree, OneOwner
  <2> QED
    BY <2>2, <2>3
<1>13. ReturnsFollow(p)
  <2> SUFFICES ASSUME NEW f \in Flows, NoRet[f], DatConn(p, Reverse(f)) # None
               PROVE  DatConn(p, f) # None
    BY DEF ReturnsFollow
  <2>1. f \in FlowIds /\ Reverse(f) \in FlowIds
    BY FlowsAssumption DEF FlowIds, Reverse
  <2> QED
    BY <1>6, <2>1 DEF Agree, ReturnsFollow
<1>14. Agree(p)
  BY <1>7, <1>8, <1>9, <1>10, <1>11, <1>12, <1>13 DEF Agree
<1> QED
  BY <1>5, <1>6, <1>14 DEF n, SourcesWell

\* A connection that is freed again changes nothing that agrees.
LEMMA DeadConnAgrees ==
  ASSUME NEW h \in Heaps, PointersHold(h), Agree(h), NEW p, NEW m \in DOMAIN h.maps,
         NEW x \in DOMAIN h.socks, NEW f \in FlowIds, NEW isSender \in BOOLEAN,
         ConnMade(h, p, m, x, f, isSender, FALSE)
  PROVE  Agree(p) /\ LooksSame(h, p)
<1> DEFINE c == Len(h.conns) + 1
<1>1. /\ p \in Heaps /\ p.dstMap = h.dstMap /\ DOMAIN p.maps = DOMAIN h.maps
      /\ \A n \in DOMAIN h.maps : /\ p.maps[n].table = h.maps[n].table
                                  /\ p.maps[n].frees = h.maps[n].frees
      /\ c \notin DOMAIN h.conns /\ DOMAIN p.conns = DOMAIN h.conns \cup {c}
      /\ p.conns[c].frees = 1 /\ \A d \in DOMAIN h.conns : p.conns[d] = h.conns[d]
      /\ DOMAIN p.socks = DOMAIN h.socks
      /\ \A y \in DOMAIN h.socks :
           /\ p.socks[y].type = h.socks[y].type /\ p.socks[y].frees = h.socks[y].frees
           /\ p.socks[y].send = h.socks[y].send /\ p.socks[y].recv = h.socks[y].recv
  BY DEF ConnMade
<1> HIDE DEF c
<1>2. LooksSame(h, p)
  BY <1>1, LooksStay
<1>3. TablesPlain(p) /\ OwnSources(p)
  <2>1. TablesPlain(p)
    BY <1>1 DEF Agree, TablesPlain
  <2>2. OwnSources(p)
    BY <1>2 DEF Agree, OwnSources, LooksSame
  <2> QED
    BY <2>1, <2>2
<1>4. FreesCounted(p)
  BY <1>1 DEF Agree, FreesCounted
<1>5. FoundAgrees(p)
  <2>1. ASSUME NEW f1 \in FlowIds, DatConn(p, f1) # None
        PROVE  p.conns[DatConn(p, f1)] = [flow |-> f1, frees |-> 0]
    <3>1. DatConn(p, f1) = DatConn(h, f1) /\ DatConn(h, f1) \in DOMAIN h.conns
      BY <1>2, <2>1, Look DEF LooksSame
    <3> QED
      BY <1>1, <2>1, <3>1 DEF Agree, FoundAgrees
  <2>2. ASSUME NEW n \in DOMAIN p.maps, NEW d \in Values(p.maps[n].table)
        PROVE  p.conns[d].frees = 0
    <3>1. d \in DOMAIN h.conns /\ d \in Values(h.maps[n].table)
      BY <1>1, <2>2 DEF PointersHold
    <3> QED
      BY <1>1, <2>2, <3>1 DEF Agree, FoundAgrees
  <2> QED
    BY <2>1, <2>2 DEF FoundAgrees
<1>6. LiveFound(p)
  <2> SUFFICES ASSUME NEW d \in DOMAIN p.conns, p.conns[d].frees = 0
               PROVE  DatConn(p, p.conns[d].flow) = d
    BY DEF LiveFound
  <2>1. d \in DOMAIN h.conns /\ p.conns[d] = h.conns[d]
    BY <1>1
  <2>2. h.conns[d].flow \in FlowIds
    BY <2>1, HeapFields DEF ConnSet
  <2> QED
    BY <1>2, <2>1, <2>2 DEF Agree, LiveFound, LooksSame
<1>7. Live(p) = Live(h) /\ \A y \in Live(p) : Ends(p.socks[y]) = Ends(h.socks[y])
  BY <1>1 DEF Live, Ends
<1>8. \A y \in Live(h) : Ends(h.socks[y]) \subseteq DOMAIN h.conns
  BY DEF PointersHold, Live, Ends
<1>9. EndsAgree(p)
  <2> SUFFICES ASSUME NEW y \in Live(h)
               PROVE  /\ p.socks[y].type = "UK" => Ends(p.socks[y]) = {}
                      /\ \A d \in Ends(p.socks[y]) : p.conns[d].frees = 0
                      /\ p.socks[y].send # None =>
                           p.conns[p.socks[y].send].flow.src \in OwnAddrs
                      /\ p.socks[y].recv # None =>
                           p.conns[p.socks[y].recv].flow.src \in PeerAddrs
    BY <1>7 DEF EndsAgree
  <2>1. /\ p.socks[y].type = h.socks[y].type /\ p.socks[y].send = h.socks[y].send
        /\ p.socks[y].recv = h.socks[y].recv
    BY <1>1 DEF Live
  <2>2. \A d \in Ends(h.socks[y]) : p.conns[d] = h.conns[d]
    BY <1>1, <1>8
  <2> QED
    BY <1>7, <2>1, <2>2 DEF Agree, EndsAgree, Ends
<1>10. OneOwner(p)
  <2>1. ASSUME NEW d \in DOMAIN p.conns, p.conns[d].frees = 0
        PROVE  \E y \in Live(p) : d \in Ends(p.socks[y])
    <3>1. d \in DOMAIN h.conns /\ h.conns[d].frees = 0
      BY <1>1, <2>1
    <3> QED
      BY <1>7, <3>1 DEF Agree, OneOwner
  <2>2. \A y, z \in Live(p) : y # z => Ends(p.socks[y]) \cap Ends(p.socks[z]) = {}
    BY <1>7 DEF Agree, OneOwner
  <2> QED
    BY <2>1, <2>2 DEF OneOwner
<1>11. ReturnsFollow(p)
  <2> SUFFICES ASSUME NEW g \in Flows, NoRet[g], DatConn(p, Reverse(g)) # None
               PROVE  DatConn(p, g) # None
    BY DEF ReturnsFollow
  <2>1. g \in FlowIds /\ Reverse(g) \in FlowIds
    BY FlowsAssumption DEF FlowIds, Reverse
  <2> QED
    BY <1>2, <2>1 DEF Agree, ReturnsFollow, LooksSame
<1> QED
  BY <1>2, <1>3, <1>4, <1>5, <1>6, <1>9, <1>10, <1>11 DEF Agree

\* The end that a socket is given: what it sends comes from here, what it
\* receives from elsewhere.
EndFits(s, f, isSender) ==
  /\ s.type = "SR"
  /\ IF isSender THEN s.send = None /\ f.src \in OwnAddrs
     ELSE s.recv = None /\ f.src \in PeerAddrs

\* The flow that f is the return path of has its connection.
Follows(h, f) == \A g \in Flows : NoRet[g] /\ Reverse(g) = f => DatConn(h, g) # None

\* Only flow f is found differently, with connection c.
FoundWith(h, p, f, c) ==
  \A g \in FlowIds : DatConn(p, g) = IF g = f THEN c ELSE DatConn(h, g)

LEMMA NewConnAgrees ==
  ASSUME NoCollisions, \A a \in Addrs : Low32[a] = a,
         NEW h \in Heaps, PointersHold(h), Agree(h), NEW p, NEW m \in DOMAIN h.maps,
         NEW x \in Live(h), NEW f \in FlowIds, NEW isSender \in BOOLEAN,
         m = Sources(h, f.dst), ~Finds(SrcBucket, h.maps[m].table, f.src),
         ConnMade(h, p, m, x, f, isSender, TRUE),
         EndFits(h.socks[x], f, isSender), Follows(h, f)
  PROVE  Agree(p) /\ FoundWith(h, p, f, Len(h.conns) + 1)
<1> DEFINE c == Len(h.conns) + 1
<1>0. f.src \in Addrs /\ f.dst \in Addrs /\ f = [src |-> f.src, dst |-> f.dst]
      /\ x \in DOMAIN h.socks
  BY DEF FlowIds, Live
<1>1. /\ p \in Heaps /\ p.dstMap = h.dstMap /\ DOMAIN p.maps = DOMAIN h.maps
      /\ \A n \in DOMAIN h.maps : /\ n # m => p.maps[n].table = h.maps[n].table
                                  /\ p.maps[n].frees = h.maps[n].frees
      /\ p.maps[m].table = Add(SrcBucket, h.maps[m].table, f.src, c, TRUE)
      /\ c \in Nat /\ c \notin DOMAIN h.conns /\ DOMAIN p.conns = DOMAIN h.conns \cup {c}
      /\ p.conns[c].frees = 0 /\ \A d \in DOMAIN h.conns : p.conns[d] = h.conns[d]
      /\ DOMAIN p.socks = DOMAIN h.socks
  BY DEF ConnMade
<1>2. \A y \in DOMAIN h.socks :
        /\ p.socks[y].type = h.socks[y].type /\ p.socks[y].frees = h.socks[y].frees
        /\ p.socks[y].send = IF isSender /\ y = x THEN c ELSE h.socks[y].send
        /\ p.socks[y].recv = IF ~isSender /\ y = x THEN c ELSE h.socks[y].recv
  BY DEF ConnMade
<1>3. p.conns[c].flow = f
  BY <1>0 DEF ConnMade
<1>4. PointersHold(p)
  BY <1>0, ConnGrows DEF Grows
<1> HIDE DEF c
<1>5. c # None
  BY <1>1, BucketFacts
<1>6. WithEntry(SrcBucket, h.maps[m].table, f.src, c, p.maps[m].table)
  <2>1. h.maps[m].table \in Tables(SrcBucket) /\ Plain(h.maps[m].table, SrcBucket)
    BY HeapFields, MapFields DEF Agree, TablesPlain
  <2>2. PICK t \in Tables(SrcBucket) : t = h.maps[m].table
    BY <2>1
  <2>3. SrcBucket \in [Addrs -> Nat] /\ Apart(SrcBucket) /\ c \in Nat
    BY <1>1, Injective, BucketFacts
  <2>4. /\ Plain(t, SrcBucket) /\ ~Finds(SrcBucket, t, f.src)
        /\ p.maps[m].table = Add(SrcBucket, t, f.src, c, TRUE)
    BY <1>1, <2>1, <2>2
  <2>5. WithEntry(SrcBucket, t, f.src, c, p.maps[m].table)
    BY <1>0, <2>3, <2>4, PlainAdd
  <2> QED
    BY <2>2, <2>5
<1>7. \A a \in Addrs : Sources(p, a) = Sources(h, a)
  BY <1>1 DEF Sources
<1>8. ASSUME NEW g \in FlowIds PROVE DatConn(p, g) = IF g = f THEN c ELSE DatConn(h, g)
  <2>1. /\ g.dst \in Addrs /\ g.src \in Addrs /\ g = [src |-> g.src, dst |-> g.dst]
        /\ DatConn(p, g) = IF Sources(p, g.dst) = None THEN None
                           ELSE Get(SrcBucket, p.maps[Sources(p, g.dst)].table, g.src)
    BY <1>1, <1>4, Look DEF FlowIds
  <2>2. /\ DatConn(h, g) = IF Sources(h, g.dst) = None THEN None
                           ELSE Get(SrcBucket, h.maps[Sources(h, g.dst)].table, g.src)
        /\ Sources(h, g.dst) \in DOMAIN h.maps \cup {None}
    BY <2>1, Look
  <2>3. CASE Sources(h, g.dst) = m
    <3>1. m # None
      BY HeapFields, BucketFacts
    <3>2. g.dst = f.dst
      BY <1>0, <2>1, <2>3, <3>1 DEF Agree, OwnSources
    <3>3. g = f <=> g.src = f.src
      BY <1>0, <2>1, <3>2
    <3>4. Get(SrcBucket, p.maps[m].table, g.src) =
            IF g.src = f.src THEN c ELSE Get(SrcBucket, h.maps[m].table, g.src)
      BY <1>6, <2>1 DEF WithEntry
    <3> QED
      BY <1>7, <2>1, <2>2, <2>3, <3>1, <3>3, <3>4
  <2>4. CASE Sources(h, g.dst) # m
    <3>1. g # f
      BY <2>4
    <3> QED
      BY <1>1, <1>7, <2>1, <2>2, <2>4, <3>1
  <2> QED
    BY <2>3, <2>4
<1>9. DatConn(h, f) = None
  <2>1. h.maps[m].table \in Tables(SrcBucket)
    BY HeapFields, MapFields
  <2>2. Get(SrcBucket, h.maps[m].table, f.src) = None
    BY DEF Get
  <2> QED
    BY <2>2, Look
<1>10. TablesPlain(p)
  BY <1>1, <1>6 DEF Agree, TablesPlain, WithEntry
<1>11. OwnSources(p)
  BY <1>7 DEF Agree, OwnSources
<1>12. FreesCounted(p)
  BY <1>1, <1>2 DEF Agree, FreesCounted
<1>13. FoundAgrees(p)
  <2>1. ASSUME NEW g \in FlowIds, DatConn(p, g) # None
        PROVE  p.conns[DatConn(p, g)] = [flow |-> g, frees |-> 0]
    <3>1. CASE g = f
      <4>1. p.conns[c] \in ConnSet
        BY <1>1, HeapFields
      <4> QED
        BY <1>1, <1>3, <1>8, <3>1, <4>1 DEF ConnSet
    <3>2. CASE g # f
      <4>1. DatConn(p, g) = DatConn(h, g) /\ DatConn(h, g) \in DOMAIN h.conns
        BY <1>8, <2>1, <3>2, Look
      <4> QED
        BY <1>1, <2>1, <4>1 DEF Agree, FoundAgrees
    <3> QED
      BY <3>1, <3>2
  <2>2. ASSUME NEW n \in DOMAIN p.maps, NEW d \in Values(p.maps[n].table)
        PROVE  p.conns[d].frees = 0
    <3>1. d = c \/ d \in Values(h.maps[n].table)
      <4>1. CASE n = m
        <5>1. PICK t \in Tables(SrcBucket) : t = h.maps[m].table
          BY HeapFields, MapFields
        <5>2. SrcBucket \in [Addrs -> Nat] /\ c \in Nat
          BY <1>1, BucketFacts
        <5>3. Values(Add(SrcBucket, t, f.src, c, TRUE)) \subseteq Values(t) \cup {c}
          BY <1>0, <5>2, AddTable
        <5> QED
          BY <1>1, <2>2, <4>1, <5>1, <5>3
      <4>2. CASE n # m
        BY <1>1, <2>2, <4>2
      <4> QED
        BY <4>1, <4>2
    <3>2. CASE d = c
      BY <1>1, <3>2
    <3>3. CASE d \in Values(h.maps[n].table)
      <4>1. d \in DOMAIN h.conns
        BY <1>1, <2>2, <3>3 DEF PointersHold
      <4> QED
        BY <1>1, <2>2, <3>3, <4>1 DEF Agree, FoundAgrees
    <3> QED
      BY <3>1, <3>2, <3>3
  <2> QED
    BY <2>1, <2>2 DEF FoundAgrees
<1>14. LiveFound(p)
  <2> SUFFICES ASSUME NEW d \in DOMAIN p.conns, p.conns[d].frees = 0
               PROVE  DatConn(p, p.conns[d].flow) = d
    BY DEF LiveFound
  <2>1. CASE d = c
    BY <1>3, <1>8, <2>1
  <2>2. CASE d \in DOMAIN h.conns
    <3>1. p.conns[d] = h.conns[d] /\ h.conns[d].flow \in FlowIds
      BY <1>1, <2>2, HeapFields DEF ConnSet
    <3>2. DatConn(h, h.conns[d].flow) = d
      BY <2>2, <3>1 DEF Agree, LiveFound
    <3>3. d # None
      BY <2>2, HeapFields, BucketFacts
    <3>4. h.conns[d].flow # f
      BY <1>9, <3>2, <3>3
    <3> QED
      BY <1>8, <3>1, <3>2, <3>4
  <2> QED
    BY <1>1, <2>1, <2>2
<1>15. Live(p) = Live(h)
  BY <1>1, <1>2 DEF Live
<1>16. \A y \in Live(h) : Ends(h.socks[y]) \subseteq DOMAIN h.conns
  BY DEF PointersHold, Live, Ends
<1>17. \A y \in Live(h) :
         Ends(p.socks[y]) = IF y = x THEN Ends(h.socks[y]) \cup {c} ELSE Ends(h.socks[y])
  <2> TAKE y \in Live(h)
  <2>1. y \in DOMAIN h.socks
    BY DEF Live
  <2>2. CASE y = x
    BY <1>2, <1>5, <2>1, <2>2 DEF Ends, EndFits
  <2>3. CASE y # x
    BY <1>2, <2>1, <2>3 DEF Ends
  <2> QED
    BY <2>2, <2>3
<1>18. EndsAgree(p)
  <2> SUFFICES ASSUME NEW y \in Live(h)
               PROVE  /\ p.socks[y].type = "UK" => Ends(p.socks[y]) = {}
                      /\ \A d \in Ends(p.socks[y]) : p.conns[d].frees = 0
                      /\ p.socks[y].send # None =>
                           p.conns[p.socks[y].send].flow.src \in OwnAddrs
                      /\ p.socks[y].recv # None =>
                           p.conns[p.socks[y].recv].flow.src \in PeerAddrs
    BY <1>15 DEF EndsAgree
  <2>1. y \in DOMAIN h.socks
    BY DEF Live
  <2>2. p.socks[y].type = "UK" => Ends(p.socks[y]) = {}
    <3>1. p.socks[y].type = h.socks[y].type /\ h.socks[x].type = "SR"
      BY <1>2, <2>1 DEF EndFits
    <3>2. h.socks[y].type = "UK" => Ends(h.socks[y]) = {}
      BY DEF Agree, EndsAgree
    <3> QED
      BY <1>17, <3>1, <3>2
  <2>3. \A d \in Ends(p.socks[y]) : p.conns[d].frees = 0
    <3>1. \A d \in Ends(h.socks[y]) : p.conns[d].frees = 0
      BY <1>1, <1>16 DEF Agree, EndsAgree
    <3>2. Ends(p.socks[y]) \subseteq Ends(h.socks[y]) \cup {c}
      BY <1>17
    <3>3. p.conns[c].frees = 0
      BY <1>1
    <3> QED
      BY <3>1, <3>2, <3>3
  <2>4. p.socks[y].send # None => p.conns[p.socks[y].send].flow.src \in OwnAddrs
    <3>1. CASE isSender /\ y = x
      BY <1>2, <1>3, <2>1, <3>1 DEF EndFits
    <3>2. CASE ~(isSender /\ y = x)
      <4>1. p.socks[y].send = h.socks[y].send
        BY <1>2, <2>1, <3>2
      <4>2. h.socks[y].send # None => h.socks[y].send \in DOMAIN h.conns
        BY <2>1 DEF PointersHold
      <4> QED
        BY <1>1, <4>1, <4>2 DEF Agree, EndsAgree
    <3> QED
      BY <3>1, <3>2
  <2>5. p.socks[y].recv # None => p.conns[p.socks[y].recv].flow.src \in PeerAddrs
    <3>1. CASE ~isSender /\ y = x
      BY <1>2, <1>3, <2>1, <3>1 DEF EndFits
    <3>2. CASE ~(~isSender /\ y = x)
      <4>1. p.socks[y].recv = h.socks[y].recv
        BY <1>2, <2>1, <3>2
      <4>2. h.socks[y].recv # None => h.socks[y].recv \in DOMAIN h.conns
        BY <2>1 DEF PointersHold
      <4> QED
        BY <1>1, <4>1, <4>2 DEF Agree, EndsAgree
    <3> QED
      BY <3>1, <3>2
  <2> QED
    BY <2>2, <2>3, <2>4, <2>5
<1>19. OneOwner(p)
  <2>1. ASSUME NEW d \in DOMAIN p.conns, p.conns[d].frees = 0
        PROVE  \E y \in Live(p) : d \in Ends(p.socks[y])
    <3>1. CASE d = c
      BY <1>15, <1>17, <3>1
    <3>2. CASE d \in DOMAIN h.conns
      <4>1. PICK y \in Live(h) : d \in Ends(h.socks[y])
        BY <1>1, <2>1, <3>2 DEF Agree, OneOwner
      <4> QED
        BY <1>15, <1>17, <4>1
    <3> QED
      BY <1>1, <2>1, <3>1, <3>2
  <2>2. ASSUME NEW y \in Live(p), NEW z \in Live(p), y # z
        PROVE  Ends(p.socks[y]) \cap Ends(p.socks[z]) = {}
    <3>1. y \in Live(h) /\ z \in Live(h)
      BY <1>15
    <3>2. Ends(h.socks[y]) \cap Ends(h.socks[z]) = {}
      BY <2>2, <3>1 DEF Agree, OneOwner
    <3>3. c \notin Ends(h.socks[y]) /\ c \notin Ends(h.socks[z])
      BY <1>1, <1>16, <3>1
    <3> QED
      BY <1>17, <2>2, <3>1, <3>2, <3>3
  <2> QED
    BY <2>1, <2>2 DEF OneOwner
<1>20. ReturnsFollow(p)
  <2> SUFFICES ASSUME NEW g \in Flows, NoRet[g], DatConn(p, Reverse(g)) # None
               PROVE  DatConn(p, g) # None
    BY DEF ReturnsFollow
  <2>1. g \in FlowIds /\ Reverse(g) \in FlowIds
    BY FlowsAssumption DEF FlowIds, Reverse
  <2>2. DatConn(h, g) # None => DatConn(p, g) # None
    BY <1>5, <1>8, <2>1
  <2>3. CASE Reverse(g) = f
    BY <2>2, <2>3 DEF Follows
  <2>4. CASE Reverse(g) # f
    <3>1. DatConn(h, Reverse(g)) # None
      BY <1>8, <2>1, <2>4
    <3> QED
      BY <2>2, <3>1 DEF Agree, ReturnsFollow
  <2> QED
    BY <2>3, <2>4
<1>21. Agree(p)
  BY <1>10, <1>11, <1>12, <1>13, <1>14, <1>18, <1>19, <1>20 DEF Agree
<1>22. FoundWith(h, p, f, c)
  BY <1>8 DEF FoundWith
<1> QED
  BY <1>21, <1>22 DEF c

\* What addConnMapping does to what agrees
AddsWell(h, r, x, f, isSender, fail) ==
  /\ Agree(r.heap)
  /\ r.err = "etcpENOERR" => \E c : c # None /\ FoundWith(h, r.heap, f, c)
  /\ r.err # "etcpENOERR" =>
       /\ \A g \in FlowIds : DatConn(r.heap, g) = DatConn(h, g)
       /\ r.heap.socks[x].send = h.socks[x].send /\ r.heap.socks[x].recv = h.socks[x].recv
  /\ IF isSender THEN r.heap.socks[x].recv = h.socks[x].recv
     ELSE r.heap.socks[x].send = h.socks[x].send
  /\ fail = "none" /\ DatConn(h, f) = None => r.err = "etcpENOERR"

LEMMA AddAgrees ==
  ASSUME NoCollisions, \A a \in Addrs : Low32[a] = a,
         NEW h \in Heaps, PointersHold(h), Agree(h), NEW x \in Live(h), NEW f \in FlowIds,
         NEW isSender \in BOOLEAN, NEW fail, NEW r,
         r = addConnMapping(h, x, f, isSender, fail),
         EndFits(h.socks[x], f, isSender), Follows(h, f)
  PROVE  AddsWell(h, r, x, f, isSender, fail)
<1>0. x \in DOMAIN h.socks /\ f.dst \in Addrs /\ f.src \in Addrs
  BY DEF Live, FlowIds
<1>1. Added(h, r, x, f, isSender, fail)
  BY <1>0, AddCases
<1>2. CASE r.heap = h /\ r.err # "etcpENOERR" /\ fail # "none"
  BY <1>2 DEF AddsWell
<1>3. ASSUME NEW w, NEW m, Widened(h, w, f.dst, m)
      PROVE  /\ Agree(w) /\ PointersHold(w) /\ w \in Heaps /\ m \in DOMAIN w.maps
             /\ m = Sources(w, f.dst) /\ m # None
             /\ \A g \in FlowIds : DatConn(w, g) = DatConn(h, g)
             /\ w.socks = h.socks
  <2>1. CASE w = h /\ m = Sources(h, f.dst) /\ m # None
    <3>1. m \in DOMAIN h.maps
      BY <1>0, <2>1, Look
    <3> QED
      BY <2>1, <3>1
  <2>2. CASE Sources(h, f.dst) = None /\ SourcesMade(h, w, f.dst, TRUE) /\ m = Len(h.maps) + 1
    <3>1. PICK entered \in BOOLEAN : entered = TRUE
      OBVIOUS
    <3>2. SourcesMade(h, w, f.dst, entered)
      BY <2>2, <3>1
    <3>3. /\ Agree(w)
          /\ \A a \in Addrs : Sources(w, a) = IF entered /\ a = f.dst THEN Len(h.maps) + 1
                                              ELSE Sources(h, a)
          /\ \A g \in FlowIds : DatConn(w, g) = DatConn(h, g)
      <4>1. SourcesWell(h, w, f.dst, entered)
        BY <1>0, <2>2, <3>2, SourcesAgree
      <4> QED
        BY <4>1 DEF SourcesWell
    <3>4. PointersHold(w)
      BY <1>0, <3>2, SourcesGrow DEF Grows
    <3>5. w \in Heaps /\ m \in DOMAIN w.maps /\ w.socks = h.socks /\ m \in Nat
      BY <2>2 DEF SourcesMade
    <3> QED
      BY <1>0, <2>2, <3>1, <3>3, <3>4, <3>5, BucketFacts
  <2> QED
    BY <1>3, <2>1, <2>2 DEF Widened
<1>4. ASSUME NEW w, NEW m, Widened(h, w, f.dst, m), r.heap = w, r.err # "etcpENOERR",
             fail # "none"
      PROVE  AddsWell(h, r, x, f, isSender, fail)
  BY <1>3, <1>4 DEF AddsWell
<1>5. ASSUME NEW w, NEW m, Widened(h, w, f.dst, m), Free(w, m, f, fail),
             r.err = "etcpENOERR", ConnMade(w, r.heap, m, x, f, isSender, TRUE)
      PROVE  AddsWell(h, r, x, f, isSender, fail)
  <2>1. /\ Agree(w) /\ PointersHold(w) /\ w \in Heaps /\ m \in DOMAIN w.maps
        /\ m = Sources(w, f.dst) /\ \A g \in FlowIds : DatConn(w, g) = DatConn(h, g)
        /\ w.socks = h.socks /\ x \in Live(w)
    BY <1>3, <1>5 DEF Live
  <2>2. ~Finds(SrcBucket, w.maps[m].table, f.src)
    BY <1>5 DEF Free
  <2>3. EndFits(w.socks[x], f, isSender)
    BY <2>1
  <2>4. Follows(w, f)
    <3>1. \A g \in Flows : g \in FlowIds
      BY FlowsAssumption DEF FlowIds
    <3> QED
      BY <2>1, <3>1 DEF Follows
  <2>5. PICK p : p = r.heap
    OBVIOUS
  <2>6. Agree(p) /\ FoundWith(w, p, f, Len(w.conns) + 1)
    BY <1>5, <2>1, <2>2, <2>3, <2>4, <2>5, NewConnAgrees
  <2>7. Len(w.conns) + 1 \in Nat
    BY <1>5 DEF ConnMade
  <2>8. \E c : c # None /\ FoundWith(h, r.heap, f, c)
    <3>1. FoundWith(h, p, f, Len(w.conns) + 1)
      BY <2>1, <2>6 DEF FoundWith
    <3> QED
      BY <2>5, <2>7, <3>1, BucketFacts
  <2>9. IF isSender THEN p.socks[x].recv = h.socks[x].recv
        ELSE p.socks[x].send = h.socks[x].send
    BY <1>0, <1>5, <2>1, <2>5 DEF ConnMade
  <2> QED
    BY <1>5, <2>5, <2>6, <2>8, <2>9 DEF AddsWell
<1>6. ASSUME NEW w, NEW m, Widened(h, w, f.dst, m), ~Free(w, m, f, fail),
             r.err # "etcpENOERR", ConnMade(w, r.heap, m, x, f, isSender, FALSE)
      PROVE  AddsWell(h, r, x, f, isSender, fail)
  <2>1. /\ Agree(w) /\ PointersHold(w) /\ w \in Heaps /\ m \in DOMAIN w.maps
        /\ m = Sources(w, f.dst) /\ m # None
        /\ \A g \in FlowIds : DatConn(w, g) = DatConn(h, g)
        /\ w.socks = h.socks /\ x \in DOMAIN w.socks
    BY <1>0, <1>3, <1>6
  <2>2. PICK p : p = r.heap
    OBVIOUS
  <2>3. Agree(p) /\ LooksSame(w, p)
    BY <1>6, <2>1, <2>2, DeadConnAgrees
  <2>4. \A g \in FlowIds : DatConn(p, g) = DatConn(h, g)
    BY <2>1, <2>3 DEF LooksSame
  <2>5. p.socks[x].send = h.socks[x].send /\ p.socks[x].recv = h.socks[x].recv
    BY <1>6, <2>1, <2>2 DEF ConnMade
  <2>6. fail = "none" => DatConn(h, f) # None
    <3>1. fail = "none" => Finds(SrcBucket, w.maps[m].table, f.src)
      BY <1>6 DEF Free
    <3>2. w.maps[m].table \in Tables(SrcBucket)
      BY <2>1, HeapFields, MapFields
    <3>3. Finds(SrcBucket, w.maps[m].table, f.src) =>
            Get(SrcBucket, w.maps[m].table, f.src) # None
      BY <1>0, <3>2, GetValue, BucketFacts
    <3>4. DatConn(w, f) = Get(SrcBucket, w.maps[m].table, f.src)
      BY <2>1, Look
    <3> QED
      BY <2>1, <3>1, <3>3, <3>4
  <2> QED
    BY <1>6, <2>2, <2>3, <2>4, <2>5, <2>6 DEF AddsWell
<1> QED
  BY <1>1, <1>2, <1>4, <1>5, <1>6 DEF Added

-----------------------------------------------------------------------------
(* The calls                                                               *)

LEMMA GrowsLines ==
  ASSUME NEW h, NEW p, Grows(h, p)
  PROVE  SameLines(h, p) /\ Live(p) = Live(h)
  BY DEF Grows, SameLines, Live

LEMMA ListensStay ==
  ASSUME NEW h, NEW p, NEW l, ListensKnown(h, l), SameLines(h, p)
  PROVE  ListensKnown(p, l)
  BY DEF ListensKnown, SameLines

\* Nothing happens to a socket that waits.
LEMMA Quiet ==
  ASSUME NEW h, NEW p, NEW H, NEW G, QueuesHold(h, H), SameLines(h, p),
         Live(h) \subseteq Live(p), H \subseteq G, G \subseteq Live(p),
         G \cap Live(h) \subseteq H
  PROVE  /\ QueuesHold(p, G)
         /\ Live(p) \subseteq Live(h) \cup G => (AllHomed(h, H) => AllHomed(p, G))
<1>1. \A m \in DOMAIN h.maps : Queued(h, m) \subseteq Live(h) /\ Queued(h, m) \cap H = {}
  BY DEF QueuesHold, Live
<1>2. \A m \in DOMAIN h.maps : Queued(h, m) \subseteq Live(p) \ G
  BY <1>1
<1>3. QueuesHold(p, G) /\ \A m \in DOMAIN h.maps : Queued(p, m) = Queued(h, m)
  BY <1>2, QueuesStay
<1>4. ASSUME Live(p) \subseteq Live(h) \cup G, AllHomed(h, H), NEW x \in Live(p)
      PROVE  x \in G \/ \E m \in DOMAIN p.maps : x \in Queued(p, m)
  <2>1. CASE x \in G
    BY <2>1
  <2>2. CASE x \in Live(h) /\ x \notin H
    <3>1. PICK m \in DOMAIN h.maps : x \in Queued(h, m)
      BY <1>4, <2>2 DEF AllHomed
    <3>2. m \in DOMAIN p.maps /\ x \in Queued(p, m)
      BY <1>3, <3>1 DEF SameLines
    <3> QED
      BY <3>2
  <2> QED
    BY <1>4, <2>1, <2>2
<1> QED
  BY <1>3, <1>4 DEF AllHomed

\* What a call that does not close a socket has to keep
LEMMA KeepsInv ==
  ASSUME SocketsInv, Running, closes' = closes,
         heap' \in Heaps, PointersHold(heap'), QueuesHold(heap', held'),
         ListensKnown(heap', listens'),
         Usual /\ Agree(heap) => Agree(heap'),
         ListensOnce /\ AllHomed(heap, held) => AllHomed(heap', held')
  PROVE  SocketsInv'
<1>1. ASSUME Usual PROVE FreedOnce' /\ Agree(heap')
  <2>1. closes = 0
    BY <1>1 DEF Usual, Running
  <2>2. Agree(heap')
    BY <1>1, <2>1 DEF SocketsInv
  <2>3. FreedOnce'
    BY <2>2 DEF Agree, FreesCounted, FreedOnce, ConnIds, MapIds, SockIds
  <2> QED
    BY <2>2, <2>3
<1>2. ListensOnce => (closes' = 0 => AllHomed(heap', held'))
  BY DEF SocketsInv
<1>3. closes' \in Nat
  BY DEF SocketsInv
<1> QED
  BY <1>1, <1>2, <1>3 DEF SocketsInv

\* A new socket has no ends.
LEMMA SockMadeFacts ==
  ASSUME NEW h \in Heaps, PointersHold(h), NEW p, NEW type, type # "LA",
         SockMade(h, p, type)
  PROVE  /\ p \in Heaps /\ PointersHold(p) /\ SameLines(h, p)
         /\ Live(p) = Live(h) \cup {Len(h.socks) + 1}
<1>1. PointersHold(p)
  BY DEF SockMade, PointersHold
<1>2. SameLines(h, p)
  BY DEF SockMade, SameLines
<1>3. Live(p) = Live(h) \cup {Len(h.socks) + 1}
  BY DEF SockMade, Live
<1> QED
  BY <1>1, <1>2, <1>3 DEF SockMade

LEMMA SockMadeAgrees ==
  ASSUME NEW h \in Heaps, PointersHold(h), Agree(h), NEW p, NEW type, type # "LA",
         SockMade(h, p, type)
  PROVE  Agree(p) /\ LooksSame(h, p)
<1>1. Live(p) = Live(h) \cup {Len(h.socks) + 1}
  BY SockMadeFacts
<1>2. Ends(p.socks[Len(h.socks) + 1]) = {}
  BY DEF SockMade, Ends
<1>3. \A x \in Live(h) : p.socks[x] = h.socks[x]
  BY DEF SockMade, Live
<1>4. \A x \in Live(h) : Ends(h.socks[x]) # {} => h.socks[x].type # "UK"
  BY DEF Agree, EndsAgree
<1>5. \A x \in DOMAIN p.socks : p.socks[x].frees \in {0, 1}
  BY DEF SockMade, Agree, FreesCounted
<1>6. SocksFit(h, p)
  BY <1>1, <1>2, <1>3, <1>4, <1>5 DEF SocksFit
<1> QED
  BY <1>6, AgreeStays DEF SockMade

\* A socket that is given a type
LEMMA SockTypedFacts ==
  ASSUME NEW h \in Heaps, PointersHold(h), NEW p, NEW x \in DOMAIN h.socks,
         NEW type, NEW la \in DOMAIN h.maps \cup {None}, type = "LA" => la # None,
         SockTyped(h, p, x, type, la)
  PROVE  p \in Heaps /\ PointersHold(p) /\ SameLines(h, p) /\ Live(p) = Live(h)
<1>1. PointersHold(p)
  BY DEF SockTyped, PointersHold
<1>2. SameLines(h, p) /\ Live(p) = Live(h)
  BY DEF SockTyped, SameLines, Live
<1> QED
  BY <1>1, <1>2 DEF SockTyped

LEMMA SockTypedAgrees ==
  ASSUME NEW h \in Heaps, PointersHold(h), Agree(h), NEW p, NEW x \in Live(h),
         h.socks[x].type = "UK", NEW type, NEW la, SockTyped(h, p, x, type, la)
  PROVE  Agree(p) /\ LooksSame(h, p)
<1>1. Live(p) = Live(h) /\ x \in DOMAIN h.socks
  BY DEF SockTyped, Live
<1>2. Ends(p.socks[x]) = {} /\ Ends(h.socks[x]) = {}
  BY <1>1 DEF SockTyped, Ends, Agree, EndsAgree
<1>3. \A y \in Live(h) : y # x => p.socks[y] = h.socks[y]
  BY DEF SockTyped, Live
<1>4. \A y \in Live(h) : Ends(h.socks[y]) # {} => h.socks[y].type # "UK"
  BY DEF Agree, EndsAgree
<1>5. \A y \in DOMAIN p.socks : p.socks[y].frees \in {0, 1}
  BY DEF SockTyped, Agree, FreesCounted
<1>6. SocksFit(h, p)
  BY <1>1, <1>2, <1>3, <1>4, <1>5 DEF SocksFit
<1> QED
  BY <1>6, AgreeStays DEF SockTyped

\* A queue that is replaced or changed
LEMMA QueueSetFacts ==
  ASSUME NEW h \in Heaps, PointersHold(h), NEW p, NEW m, NEW q, QueueSet(h, p, m, q)
  PROVE  p \in Heaps /\ PointersHold(p) /\ Live(p) = Live(h)
<1>1. PointersHold(p)
  BY DEF QueueSet, PointersHold
<1> QED
  BY <1>1 DEF QueueSet, Live

LEMMA QueueSetAgrees ==
  ASSUME NEW h \in Heaps, PointersHold(h), Agree(h), NEW p, NEW m, NEW q,
         QueueSet(h, p, m, q)
  PROVE  Agree(p) /\ LooksSame(h, p)
<1>1. \A x \in Live(h) : Ends(h.socks[x]) # {} => h.socks[x].type # "UK"
  BY DEF Agree, EndsAgree
<1>2. SocksFit(h, p)
  BY <1>1 DEF SocksFit, QueueSet, Live, Agree, FreesCounted
<1> QED
  BY <1>2, AgreeStays DEF QueueSet

LEMMA InvFacts ==
  ASSUME SocketsInv
  PROVE  /\ heap \in Heaps /\ PointersHold(heap) /\ QueuesHold(heap, held)
         /\ held \subseteq Live(heap) /\ ListensKnown(heap, listens)
         /\ \A x \in held : /\ x \in DOMAIN heap.socks /\ heap.socks[x].frees = 0
                            /\ heap.socks[x].la \in DOMAIN heap.maps \cup {None}
  BY DEF SocketsInv, QueuesHold, Live, PointersHold

LEMMA SocketKeeps ==
  ASSUME SocketsInv, Socket
  PROVE  SocketsInv'
<1> DEFINE n == Len(heap.socks) + 1
<1>0. /\ heap \in Heaps /\ PointersHold(heap) /\ QueuesHold(heap, held)
      /\ held \subseteq Live(heap) /\ ListensKnown(heap, listens)
  BY InvFacts
<1>1. PICK p : p = heap'
  OBVIOUS
<1>2. PICK s : s = [type |-> "UK", la |-> None, send |-> None, recv |-> None, frees |-> 0]
  OBVIOUS
<1>3. p = [heap EXCEPT !.socks = Append(@, s)]
  BY <1>1, <1>2 DEF Socket, etcpSocketNew
<1>4. SockMade(heap, p, "UK")
  BY <1>0, <1>2, <1>3, MakesSock
<1>5. /\ p \in Heaps /\ PointersHold(p) /\ SameLines(heap, p)
      /\ Live(p) = Live(heap) \cup {n}
  BY <1>0, <1>4, SockMadeFacts
<1>6. n \notin Live(heap)
  BY <1>4 DEF SockMade, Live
<1>7. /\ held' = held \cup {n} /\ listens' = listens /\ closes' = closes /\ Running
  BY DEF Socket
<1>8. QueuesHold(p, held') /\ (AllHomed(heap, held) => AllHomed(p, held'))
  <2> HIDE DEF n
  <2>1. PICK G : G = held'
    OBVIOUS
  <2>2. /\ Live(heap) \subseteq Live(p) /\ held \subseteq G /\ G \subseteq Live(p)
        /\ G \cap Live(heap) \subseteq held /\ Live(p) \subseteq Live(heap) \cup G
    BY <1>0, <1>5, <1>6, <1>7, <2>1
  <2>3. QueuesHold(p, G) /\ (AllHomed(heap, held) => AllHomed(p, G))
    BY <1>0, <1>5, <2>2, Quiet
  <2> QED
    BY <2>1, <2>3
<1>9. ListensKnown(p, listens')
  BY <1>0, <1>5, <1>7, ListensStay
<1>10. Agree(heap) => Agree(p)
  BY <1>0, <1>4, SockMadeAgrees
<1> QED
  BY <1>1, <1>5, <1>7, <1>8, <1>9, <1>10, KeepsInv

\* A call after which the same sockets wait and the same are held
LEMMA KeepsQuietly ==
  ASSUME SocketsInv, Running, closes' = closes, held' = held, listens' = listens,
         NEW p, p = heap', p \in Heaps, PointersHold(p), SameLines(heap, p),
         Live(p) = Live(heap), Usual /\ Agree(heap) => Agree(p)
  PROVE  SocketsInv'
<1>0. /\ heap \in Heaps /\ PointersHold(heap) /\ QueuesHold(heap, held)
      /\ held \subseteq Live(heap) /\ ListensKnown(heap, listens)
  BY InvFacts
<1>1. QueuesHold(p, held) /\ (AllHomed(heap, held) => AllHomed(p, held))
  BY <1>0, Quiet
<1>2. ListensKnown(p, listens)
  BY <1>0, ListensStay
<1> QED
  BY <1>1, <1>2, KeepsInv

LEMMA BindKeeps ==
  ASSUME SocketsInv, NEW x \in held, NEW a \in Addrs, NEW fail, Bind(x, a, fail)
  PROVE  SocketsInv'
<1> DEFINE n == Len(heap.maps) + 1
<1>0. /\ heap \in Heaps /\ PointersHold(heap) /\ x \in Live(heap) /\ x \in DOMAIN heap.socks
  BY InvFacts
<1>1. PICK p : p = heap'
  OBVIOUS
<1>2. PICK entered \in BOOLEAN : entered = (fail # "dst")
  OBVIOUS
<1>3. PICK g : g = [heap EXCEPT !.maps = Append(@, srcsMapNew),
                                !.dstMap = Dst!htAddNew(@, a, Len(heap.maps) + 1, entered)]
  OBVIOUS
<1>4. p = [g EXCEPT !.socks[x].type = "LA", !.socks[x].la = n]
  BY <1>1, <1>2, <1>3 DEF Bind, Heaps
<1>5. entered => Sources(heap, a) = None
  <2>1. ~Finds(DstBucket, heap.dstMap, a)
    BY DstTable DEF Bind
  <2> QED
    BY <2>1, DstTable DEF Sources, Get
<1>6. SourcesMade(heap, g, a, entered)
  BY <1>0, <1>3, <1>5, MakesSources
<1>7. g \in Heaps /\ PointersHold(g) /\ SameLines(heap, g) /\ Live(g) = Live(heap)
  <2>1. Grows(heap, g)
    BY <1>0, <1>6, SourcesGrow
  <2> QED
    BY <2>1, GrowsLines DEF Grows
<1>8. n \in DOMAIN g.maps /\ n \in Nat /\ n \in Pointers /\ g.socks = heap.socks
  BY <1>6 DEF SourcesMade, Pointers
<1>9. SockTyped(g, p, x, "LA", n)
  <2> HIDE DEF n
  <2> QED
    BY <1>0, <1>4, <1>7, <1>8, TypesSock
<1>10. p \in Heaps /\ PointersHold(p) /\ SameLines(g, p) /\ Live(p) = Live(g)
  <2> HIDE DEF n
  <2> QED
    BY <1>0, <1>7, <1>8, <1>9, BucketFacts, SockTypedFacts
<1>11. SameLines(heap, p)
  BY <1>7, <1>9 DEF SameLines, SockTyped
<1>12. ASSUME Usual, Agree(heap) PROVE Agree(p)
  <2>1. Agree(g)
    BY <1>0, <1>5, <1>6, <1>12, SourcesAgree DEF Usual, SourcesWell
  <2>2. g.socks[x].type = "UK" /\ x \in Live(g)
    BY <1>0, <1>7, <1>8 DEF Bind, Type
  <2> HIDE DEF n
  <2> QED
    BY <1>7, <1>9, <2>1, <2>2, SockTypedAgrees
<1>13. Running /\ closes' = closes /\ held' = held /\ listens' = listens
  BY DEF Bind
<1> QED
  BY <1>1, <1>7, <1>10, <1>11, <1>12, <1>13, KeepsQuietly

LEMMA SameLinesOn ==
  ASSUME NEW h, NEW g, NEW p, SameLines(h, g), SameLines(g, p)
  PROVE  SameLines(h, p)
  BY DEF SameLines

LEMMA ReverseFlow ==
  ASSUME NEW f \in FlowIds
  PROVE  /\ Reverse(f) \in FlowIds /\ Reverse(f).src = f.dst /\ Reverse(f).dst = f.src
         /\ \A g \in FlowIds : Reverse(g) = Reverse(f) => g = f
<1>1. f \in [src : Addrs, dst : Addrs]
  BY DEF FlowIds
<1>2. Reverse(f) \in FlowIds /\ Reverse(f).src = f.dst /\ Reverse(f).dst = f.src
  BY <1>1 DEF Reverse, FlowIds
<1>3. ASSUME NEW g \in FlowIds, Reverse(g) = Reverse(f) PROVE g = f
  <2>1. g \in [src : Addrs, dst : Addrs]
    BY DEF FlowIds
  <2>2. g.src = f.src /\ g.dst = f.dst
    BY <1>3 DEF Reverse
  <2> QED
    BY <1>1, <2>1, <2>2
<1> QED
  BY <1>2, <1>3

LEMMA ConnectKeeps ==
  ASSUME SocketsInv, NEW x \in held, NEW f \in Connects, NEW doReturn \in BOOLEAN,
         NEW fail, NEW retFail, Connect(x, f, doReturn, fail, retFail)
  PROVE  SocketsInv'
<1>0. /\ heap \in Heaps /\ PointersHold(heap) /\ x \in Live(heap) /\ x \in DOMAIN heap.socks
      /\ heap.socks[x].la \in DOMAIN heap.maps \cup {None}
  BY InvFacts
<1>1. PICK g : g = [heap EXCEPT !.socks[x].type = "SR"]
  OBVIOUS
<1>2. PICK sends \in BOOLEAN : sends = TRUE
  OBVIOUS
<1>3. PICK recvs \in BOOLEAN : recvs = FALSE
  OBVIOUS
<1>4. PICK r : r = addConnMapping(g, x, f, sends, fail)
  OBVIOUS
<1>5. PICK b : b = addConnMapping(r.heap, x, Reverse(f), recvs, retFail)
  OBVIOUS
<1>6. PICK p : p = heap'
  OBVIOUS
<1>7. p = IF doReturn THEN b.heap ELSE r.heap
  BY <1>1, <1>2, <1>3, <1>4, <1>5, <1>6 DEF Connect
<1>8. f \in FlowIds
  BY FlowsAssumption DEF FlowIds
<1>9. /\ Reverse(f) \in FlowIds /\ Reverse(f).src = f.dst
      /\ \A k \in FlowIds : Reverse(k) = Reverse(f) => k = f
  BY <1>8, ReverseFlow
<1>10. PICK type \in {"SR", "LA"} : type = "SR"
  OBVIOUS
<1>11. SockTyped(heap, g, x, type, heap.socks[x].la)
  BY <1>0, <1>1, <1>10, TypesOnly
<1>12. g \in Heaps /\ PointersHold(g) /\ SameLines(heap, g) /\ Live(g) = Live(heap)
  BY <1>0, <1>10, <1>11, SockTypedFacts
<1>13. x \in DOMAIN g.socks /\ x \in Live(g)
  BY <1>0, <1>12 DEF Live
<1>14. Grows(g, r.heap)
  BY <1>4, <1>8, <1>12, <1>13, AddGrows
<1>15. /\ r.heap \in Heaps /\ PointersHold(r.heap) /\ x \in DOMAIN r.heap.socks
       /\ SameLines(g, r.heap) /\ Live(r.heap) = Live(g)
  BY <1>13, <1>14, GrowsLines DEF Grows
<1>16. Grows(r.heap, b.heap)
  <2>1. PICK h : h = r.heap
    OBVIOUS
  <2>2. Grows(h, b.heap)
    BY <1>5, <1>9, <1>15, <2>1, AddGrows
  <2> QED
    BY <2>1, <2>2
<1>17. Grows(g, p)
  BY <1>7, <1>14, <1>16, GrowsOn
<1>18. p \in Heaps /\ PointersHold(p) /\ SameLines(heap, p) /\ Live(p) = Live(heap)
  BY <1>12, <1>17, GrowsLines, SameLinesOn DEF Grows
<1>19. ASSUME Usual, Agree(heap) PROVE Agree(p)
  <2>1. heap.socks[x].type = "UK" /\ Ends(heap.socks[x]) = {}
    BY <1>0, <1>19 DEF Connect, Type, Agree, EndsAgree
  <2>2. Agree(g)
    BY <1>0, <1>11, <1>19, <2>1, SockTypedAgrees
  <2>3. g.socks[x].type = "SR" /\ g.socks[x].send = None /\ g.socks[x].recv = None
    BY <1>0, <1>10, <1>11, <2>1 DEF SockTyped, Ends
  <2>4. f.src \in OwnAddrs /\ f.dst \in PeerAddrs
    BY DEF OwnAddrs, PeerAddrs
  <2>5. NoCollisions /\ (\A a \in Addrs : Low32[a] = a) /\ TwoSides
    BY <1>19 DEF Usual
  <2>6. EndFits(g.socks[x], f, sends)
    BY <1>2, <2>3, <2>4 DEF EndFits
  <2>7. Follows(g, f)
    BY <2>5 DEF Follows, TwoSides
  <2>8. AddsWell(g, r, x, f, sends, fail)
    BY <1>4, <1>8, <1>12, <1>13, <2>2, <2>5, <2>6, <2>7, AddAgrees
  <2>9. Agree(r.heap) /\ r.heap.socks[x].recv = None
    BY <1>2, <2>3, <2>8 DEF AddsWell
  <2>10. r.heap.socks[x].type = "SR"
    BY <1>13, <1>14, <2>3 DEF Grows
  <2>11. EndFits(r.heap.socks[x], Reverse(f), recvs)
    BY <1>3, <1>9, <2>4, <2>9, <2>10 DEF EndFits
  <2>12. Follows(r.heap, Reverse(f))
    <3>1. \A k \in Flows : k \in FlowIds /\ k.dst \in OwnAddrs
      BY FlowsAssumption DEF FlowIds, OwnAddrs
    <3>2. \A k \in Flows : Reverse(k) # Reverse(f)
      BY <1>9, <2>4, <2>5, <3>1 DEF TwoSides
    <3> QED
      BY <3>2 DEF Follows
  <2>13. AddsWell(r.heap, b, x, Reverse(f), recvs, retFail)
    <3>1. PICK h : h = r.heap
      OBVIOUS
    <3>2. PICK k \in FlowIds : k = Reverse(f)
      BY <1>9
    <3>3. h \in Heaps /\ PointersHold(h) /\ Agree(h) /\ x \in Live(h)
      BY <1>13, <1>15, <2>9, <3>1
    <3>4. b = addConnMapping(h, x, k, recvs, retFail)
      BY <1>5, <3>1, <3>2
    <3>5. EndFits(h.socks[x], k, recvs) /\ Follows(h, k)
      BY <2>11, <2>12, <3>1, <3>2
    <3>6. AddsWell(h, b, x, k, recvs, retFail)
      BY <2>5, <3>3, <3>4, <3>5, AddAgrees
    <3> QED
      BY <3>1, <3>2, <3>6
  <2>14. Agree(b.heap)
    BY <2>13 DEF AddsWell
  <2> QED
    BY <1>7, <2>9, <2>14
<1>20. Running /\ closes' = closes /\ held' = held /\ listens' = listens
  BY DEF Connect
<1> QED
  BY <1>6, <1>18, <1>19, <1>20, KeepsQuietly

\* The sources of a listening socket
LEMMA ListenerFacts ==
  ASSUME SocketsInv, NEW x \in held, Type(x) = "LA", NEW m, m = heap.socks[x].la
  PROVE  /\ m \in DOMAIN heap.maps /\ m \in Nat
         /\ heap.maps[m].listenQ # None => InLine(heap.maps[m].listenQ)
         /\ \A n \in DOMAIN heap.maps : /\ Queued(heap, n) \subseteq Live(heap) \ held
                                        /\ n # m => Queued(heap, n) \cap Queued(heap, m) = {}
<1>0. heap \in Heaps /\ PointersHold(heap) /\ QueuesHold(heap, held) /\ x \in DOMAIN heap.socks
  BY InvFacts
<1>1. m \in DOMAIN heap.maps
  BY <1>0 DEF PointersHold, Type
<1>2. DOMAIN heap.maps = 1 .. Len(heap.maps) /\ Len(heap.maps) \in Nat
  BY <1>0, HeapFields
<1>3. m \in Nat
  BY <1>1, <1>2
<1> QED
  BY <1>0, <1>1, <1>3 DEF QueuesHold, Live

\* A call that changes the queue of sources m
LEMMA KeepsWithQueue ==
  ASSUME SocketsInv, Running, closes' = closes, NEW p, p = heap', NEW m \in DOMAIN heap.maps,
         NEW q, QueueSet(heap, p, m, q), q # None => InLine(q),
         NEW G, G = held', G \subseteq Live(heap), Queued(p, m) \subseteq Live(heap) \ G,
         OnlyHere(heap, m, Queued(p, m) \cup G), ListensKnown(p, listens'),
         ListensOnce /\ AllHomed(heap, held) => held \cup Queued(heap, m) \subseteq G \cup Queued(p, m)
  PROVE  SocketsInv'
<1>0. heap \in Heaps /\ PointersHold(heap) /\ QueuesHold(heap, held)
  BY InvFacts
<1>1. p \in Heaps /\ PointersHold(p) /\ Live(p) = Live(heap)
  BY <1>0, QueueSetFacts
<1>2. /\ QueuesHold(p, G)
      /\ \A n \in DOMAIN heap.maps \ {m} : Queued(p, n) = Queued(heap, n)
  <2>1. PICK I : I = Queued(p, m)
    OBVIOUS
  <2>2. I \subseteq Live(heap) \ G /\ OnlyHere(heap, m, I \cup G)
    BY <2>1
  <2>3. QueuesHold(p, G) /\ OthersQueued(heap, p, m)
    BY <1>0, <2>1, <2>2, QueueChanges
  <2> QED
    BY <2>3 DEF OthersQueued
<1>3. Agree(heap) => Agree(p)
  BY <1>0, QueueSetAgrees
<1>4. ASSUME ListensOnce, AllHomed(heap, held), NEW y \in Live(p)
      PROVE  y \in G \/ \E n \in DOMAIN p.maps : y \in Queued(p, n)
  <2>1. DOMAIN p.maps = DOMAIN heap.maps /\ held \cup Queued(heap, m) \subseteq G \cup Queued(p, m)
    BY <1>4 DEF QueueSet
  <2>2. CASE y \in held \cup Queued(heap, m)
    BY <2>1, <2>2
  <2>3. CASE y \notin held \cup Queued(heap, m)
    <3>1. PICK n \in DOMAIN heap.maps : y \in Queued(heap, n)
      BY <1>1, <1>4, <2>3 DEF AllHomed
    <3> QED
      BY <1>2, <2>1, <2>3, <3>1
  <2> QED
    BY <2>2, <2>3
<1>5. ListensOnce /\ AllHomed(heap, held) => AllHomed(p, G)
  BY <1>4 DEF AllHomed
<1> QED
  BY <1>1, <1>2, <1>3, <1>5, KeepsInv

LEMMA ListenKeeps ==
  ASSUME SocketsInv, NEW x \in held, NEW fail, Listen(x, fail)
  PROVE  SocketsInv'
<1>0. heap \in Heaps /\ PointersHold(heap) /\ held \subseteq Live(heap) /\ ListensKnown(heap, listens)
  BY InvFacts
<1>1. PICK m : m = heap.socks[x].la
  OBVIOUS
<1>2. /\ m \in DOMAIN heap.maps /\ m \in Nat
      /\ \A n \in DOMAIN heap.maps : /\ Queued(heap, n) \subseteq Live(heap) \ held
                                     /\ n # m => Queued(heap, n) \cap Queued(heap, m) = {}
  BY <1>1, ListenerFacts DEF Listen
<1>3. PICK q : q = IF fail = "none" THEN QL!cqNew ELSE None
  OBVIOUS
<1>4. /\ q \in {None} \cup QL!QueueType(Pointers)
      /\ q # None => InLine(q) /\ Items(q) = {}
  <2>1. InLine(QL!cqNew) /\ Items(QL!cqNew) = {}
    BY NewQ
  <2> QED
    BY <1>3, <2>1 DEF InLine
<1>5. PICK p : p = heap'
  OBVIOUS
<1>6. p = [heap EXCEPT !.maps[m].listenQ = q]
  BY <1>1, <1>3, <1>5, SameQueues DEF Listen
<1>7. QueueSet(heap, p, m, q)
  BY <1>0, <1>2, <1>4, <1>6, SetsQueue
<1>8. Queued(p, m) = {}
  BY <1>4, <1>7 DEF QueueSet, Queued
<1>9. ListensKnown(p, listens')
  <2>1. PICK l : l = listens'
    OBVIOUS
  <2>2. listens \in Seq(Nat) /\ l = Append(listens, m)
    BY <1>0, <1>1, <2>1 DEF ListensKnown, Listen
  <2>3. /\ l \in Seq(Nat) /\ DOMAIN l = DOMAIN listens \cup {Len(listens) + 1}
        /\ l[Len(listens) + 1] = m /\ \A i \in DOMAIN listens : l[i] = listens[i]
    BY <1>2, <2>2, Longer
  <2>4. ASSUME NEW n \in DOMAIN p.maps, p.maps[n].listenQ # None
        PROVE  \E i \in DOMAIN l : l[i] = n
    <3>1. CASE n = m
      BY <2>3, <3>1
    <3>2. CASE n # m
      <4>1. n \in DOMAIN heap.maps /\ heap.maps[n].listenQ # None
        BY <1>7, <2>4, <3>2 DEF QueueSet
      <4>2. PICK i \in DOMAIN listens : listens[i] = n
        BY <1>0, <4>1 DEF ListensKnown
      <4> QED
        BY <2>3, <4>2
    <3> QED
      BY <3>1, <3>2
  <2> QED
    BY <2>1, <2>3, <2>4 DEF ListensKnown
<1>10. ASSUME ListensOnce PROVE Queued(heap, m) = {}
  <2>1. Cardinality({i \in DOMAIN listens : listens[i] = m}) < MaxListens
    BY <1>1 DEF Listen, ListensOn
  <2>2. PICK S : S = {i \in DOMAIN listens : listens[i] = m}
    OBVIOUS
  <2>3. listens \in Seq(Nat)
    BY <1>0 DEF ListensKnown
  <2>4. DOMAIN listens = 1 .. Len(listens) /\ Len(listens) \in Nat
    BY <2>3, LenProperties
  <2>5. IsFiniteSet(1 .. Len(listens)) /\ S \subseteq 1 .. Len(listens)
    BY <2>2, <2>4, FS_Interval
  <2>6. IsFiniteSet(S)
    BY <2>5, FS_Subset
  <2>7. Cardinality(S) \in Nat /\ Cardinality(S) < MaxListens /\ MaxListens \in {0, 1}
    BY <1>10, <2>1, <2>2, <2>6, FS_CardinalityType DEF ListensOnce
  <2>8. Cardinality(S) = 0
    BY <2>7
  <2>9. S = {}
    BY <2>6, <2>8, FS_EmptySet
  <2>10. heap.maps[m].listenQ = None
    BY <1>0, <1>2, <2>2, <2>9 DEF ListensKnown
  <2> QED
    BY <2>10 DEF Queued
<1>11. Running /\ closes' = closes /\ held' = held
  BY DEF Listen
<1>12. OnlyHere(heap, m, Queued(p, m) \cup held)
  BY <1>2, <1>8 DEF OnlyHere
<1>13. ListensOnce => held \cup Queued(heap, m) \subseteq held \cup Queued(p, m)
  BY <1>10
<1>14. Queued(p, m) \subseteq Live(heap) \ held
  BY <1>8
<1>15. q # None => InLine(q)
  BY <1>4
<1> QED
  BY <1>0, <1>2, <1>5, <1>7, <1>9, <1>11, <1>12, <1>13, <1>14, <1>15, KeepsWithQueue

\* What is accepted is the head of the queue, the oldest in it.
Accepted(x, p, G) ==
  \E m, q, o, b :
    /\ m = heap.socks[x].la /\ q = heap.maps[m].listenQ /\ q # None /\ InLine(q)
    /\ QueueSet(heap, p, m, b) /\ InLine(b) /\ Items(b) = Items(q) \ {o}
    /\ G = held \cup {o} /\ Oldest(o, Items(q))

LEMMA AcceptTakes ==
  ASSUME SocketsInv, NEW x \in held, Accept(x)
  PROVE  Accepted(x, heap', held')
<1> DEFINE m == heap.socks[x].la
           q == heap.maps[m].listenQ
           o == Item(q, q.rdSeq)
           p == heap'
<1>0. heap \in Heaps
  BY InvFacts
<1>1. m \in DOMAIN heap.maps /\ (q # None => InLine(q))
  BY ListenerFacts DEF Accept
<1>2. q # None /\ LQ!cqGetNextRdErr(q) = "cqENOERR"
  BY DEF Accept
<1>3. held' = held \cup {NextToAccept(q)}
      /\ heap' = [heap EXCEPT !.maps[m].listenQ = LQ!cqReleaseSlot(q, q.rdSeq)]
  BY DEF Accept
<1>4. PICK c : c = QL!cqReleaseSlot(q, q.rdSeq)
  OBVIOUS
<1>5. p = [heap EXCEPT !.maps[m].listenQ = c]
  BY <1>3, <1>4, SameRelease
<1>6. QL!cqGetNextRdErr(q) = "cqENOERR"
  BY <1>2, SameQueues
<1>7. InLine(c) /\ Items(c) = Items(q) \ {o} /\ Oldest(o, Items(q))
  <2>1. InLine(q)
    BY <1>1, <1>2
  <2>2. o = Item(q, q.rdSeq)
    OBVIOUS
  <2> HIDE DEF o, q
  <2> QED
    BY ONLY <1>4, <1>6, <2>1, <2>2, ReleaseQ
<1>8. c \in {None} \cup QL!QueueType(Pointers)
  BY <1>7 DEF InLine
<1>9. QueueSet(heap, p, m, c)
  <2> HIDE DEF m, p
  <2> QED
    BY <1>0, <1>1, <1>5, <1>8, SetsQueue
<1>11. NextToAccept(q) = o
  BY SameQueues DEF NextToAccept, Item
<1> QED
  BY <1>1, <1>2, <1>3, <1>7, <1>9, <1>11 DEF Accepted

LEMMA AcceptKeeps ==
  ASSUME SocketsInv, NEW x \in held, Accept(x)
  PROVE  SocketsInv'
<1>0. heap \in Heaps /\ held \subseteq Live(heap) /\ ListensKnown(heap, listens)
  BY InvFacts
<1>4. PICK p : p = heap'
  OBVIOUS
<1>10. PICK G : G = held'
  OBVIOUS
<1>1. Accepted(x, p, G)
  BY <1>4, <1>10, AcceptTakes
<1>6. PICK m, q, o, b :
        /\ m = heap.socks[x].la /\ q = heap.maps[m].listenQ /\ q # None /\ InLine(q)
        /\ QueueSet(heap, p, m, b) /\ InLine(b) /\ Items(b) = Items(q) \ {o}
        /\ G = held \cup {o} /\ Oldest(o, Items(q))
  BY <1>1 DEF Accepted
<1>7. /\ m \in DOMAIN heap.maps
      /\ \A n \in DOMAIN heap.maps : /\ Queued(heap, n) \subseteq Live(heap) \ held
                                     /\ n # m => Queued(heap, n) \cap Queued(heap, m) = {}
  BY <1>6, ListenerFacts DEF Accept
<1>8. b # None
  BY <1>6, InLineNumbers
<1>9. Queued(heap, m) = Items(q) /\ Queued(p, m) = Items(b)
  BY <1>6, <1>8 DEF Queued, QueueSet
<1>11. G = held \cup {o} /\ o \in Queued(heap, m) /\ Queued(p, m) = Queued(heap, m) \ {o}
  BY <1>6, <1>9 DEF Oldest
<1>12. /\ G \subseteq Live(heap) /\ Queued(p, m) \subseteq Live(heap) \ G
       /\ held \cup Queued(heap, m) \subseteq G \cup Queued(p, m)
  BY <1>0, <1>7, <1>11
<1>13. OnlyHere(heap, m, Queued(p, m) \cup G)
  BY <1>7, <1>11 DEF OnlyHere
<1>14. ListensKnown(p, listens')
  <2>1. \A n \in DOMAIN p.maps : p.maps[n].listenQ # None => heap.maps[n].listenQ # None
    BY <1>6 DEF QueueSet
  <2>2. listens' = listens /\ DOMAIN p.maps = DOMAIN heap.maps
    BY <1>6 DEF Accept, QueueSet
  <2> QED
    BY <1>0, <2>1, <2>2 DEF ListensKnown
<1>15. Running /\ closes' = closes
  BY DEF Accept
<1>16. b # None => InLine(b)
  BY <1>6
<1> QED
  BY <1>4, <1>6, <1>7, <1>10, <1>12, <1>13, <1>14, <1>15, <1>16, KeepsWithQueue

\* What the first etcpClose frees is there, and is freed once: the two ends of
\* a socket are of flows in opposite directions.
LEMMA FreesOnce ==
  ASSUME NEW h \in Heaps, PointersHold(h), Agree(h), TwoSides, NEW x \in Live(h),
         NEW p, SockDeleted(h, p, x), NEW c \in DOMAIN h.conns
  PROVE  p.conns[c].frees \in {0, 1}
<1> DEFINE s == h.socks[x]
<1>0. x \in DOMAIN h.socks
  BY DEF Live
<1>1. /\ p.conns[c].frees = h.conns[c].frees + FreesOf(h, s, c)
      /\ h.conns[c].frees \in {0, 1} /\ c # None
  <2>1. c \in Nat
    BY HeapFields
  <2> QED
    BY <2>1, BucketFacts DEF SockDeleted, Agree, FreesCounted
<1>2. CASE s.type = "SR"
  <2>1. c \in {s.send, s.recv} => h.conns[c].frees = 0
    BY <1>1 DEF Agree, EndsAgree, Ends
  <2>2. c = s.send => h.conns[c].flow.src \in OwnAddrs
    BY <1>1 DEF Agree, EndsAgree
  <2>3. c = s.recv => h.conns[c].flow.src \in PeerAddrs
    BY <1>1 DEF Agree, EndsAgree
  <2>4. ~(c = s.send /\ c = s.recv)
    BY <2>2, <2>3 DEF TwoSides
  <2>5. FreesOf(h, s, c) = IF c \in {s.send, s.recv} THEN 1 ELSE 0
    <3> HIDE DEF s
    <3> QED
      BY <1>2, <2>4 DEF FreesOf
  <2> HIDE DEF s
  <2> QED
    BY <1>1, <2>1, <2>5
<1>3. CASE s.type = "LA"
  <2>1. s.la \in DOMAIN h.maps
    BY <1>0, <1>3 DEF PointersHold
  <2>2. c \in Values(h.maps[s.la].table) => h.conns[c].frees = 0
    BY <2>1 DEF Agree, FoundAgrees
  <2>3. FreesOf(h, s, c) = IF c \in Values(h.maps[s.la].table) THEN 1 ELSE 0
    BY <1>3 DEF FreesOf
  <2> HIDE DEF s
  <2> QED
    BY <1>1, <2>2, <2>3
<1>4. CASE s.type \notin {"SR", "LA"}
  <2>1. FreesOf(h, s, c) = 0
    BY <1>4 DEF FreesOf
  <2> HIDE DEF s
  <2> QED
    BY <1>1, <2>1
<1> QED
  BY <1>2, <1>3, <1>4

\* A socket that goes, which does not wait
LEMMA SockDeletedFacts ==
  ASSUME NEW h \in Heaps, NEW x \in Live(h), NEW p, SockDeleted(h, p, x)
  PROVE  p \in Heaps /\ SameLines(h, p) /\ Live(p) = Live(h) \ {x}
<1>1. \A y \in DOMAIN h.socks : p.socks[y].frees = 0 <=> y # x /\ h.socks[y].frees = 0
  <2>1. p.socks[x].frees = 1
    BY DEF SockDeleted, Live
  <2> QED
    BY <2>1 DEF SockDeleted
<1>2. Live(p) = Live(h) \ {x}
  BY <1>1 DEF Live, SockDeleted
<1> QED
  BY <1>2 DEF SockDeleted, SameLines

LEMMA CloseKeeps ==
  ASSUME SocketsInv, NEW x \in held, Close(x)
  PROVE  SocketsInv'
<1>0. /\ heap \in Heaps /\ PointersHold(heap) /\ QueuesHold(heap, held)
      /\ held \subseteq Live(heap) /\ ListensKnown(heap, listens) /\ x \in Live(heap)
      /\ x \in DOMAIN heap.socks
  BY InvFacts
<1>1. PICK p : p = heap'
  OBVIOUS
<1>2. p = etcpSockeDelete(heap, x)
  BY <1>1 DEF Close
<1>3. SockDeleted(heap, p, x) /\ PointersHold(p)
  BY <1>0, <1>2, DeletesSock
<1>4. p \in Heaps /\ SameLines(heap, p) /\ Live(p) = Live(heap) \ {x}
  BY <1>0, <1>3, SockDeletedFacts
<1>5. PICK G : G = held \ {x}
  OBVIOUS
<1>6. QueuesHold(p, G)
  <2>1. G \subseteq Live(p)
    BY <1>0, <1>4, <1>5
  <2>2. \A m \in DOMAIN heap.maps : Queued(heap, m) \subseteq Live(heap) \ held
    BY <1>0 DEF QueuesHold, Live
  <2>3. \A m \in DOMAIN heap.maps : Queued(heap, m) \subseteq Live(p) \ G
    BY <1>4, <1>5, <2>2
  <2> QED
    BY <1>0, <1>4, <2>1, <2>3, QueuesStay
<1>7. held' = G /\ listens' = listens /\ closes' = closes + 1 /\ closes \in Nat /\ Running
  BY <1>5 DEF Close, SocketsInv
<1>8. ListensKnown(p, listens)
  BY <1>0, <1>4, ListensStay
<1>9. ASSUME Usual PROVE FreedOnce'
  <2>1. Agree(heap)
    BY <1>7, <1>9 DEF Usual, Running, SocketsInv
  <2>2. \A c \in DOMAIN p.conns : p.conns[c].frees \in {0, 1}
    <3>1. DOMAIN p.conns = DOMAIN heap.conns /\ TwoSides
      BY <1>3, <1>9 DEF SockDeleted, Usual
    <3> QED
      BY <1>0, <1>3, <2>1, <3>1, FreesOnce
  <2>3. \A m \in DOMAIN p.maps : p.maps[m].frees \in {0, 1}
    BY <1>3, <2>1 DEF SockDeleted, Agree, FreesCounted
  <2>4. \A y \in DOMAIN p.socks : p.socks[y].frees \in {0, 1}
    BY <1>0, <1>3, <2>1 DEF SockDeleted, Agree, FreesCounted, Live
  <2> QED
    BY <1>1, <2>2, <2>3, <2>4 DEF FreedOnce, ConnIds, MapIds, SockIds
<1>10. closes' \in Nat /\ closes' # 0
  BY <1>7
<1> QED
  BY <1>1, <1>3, <1>4, <1>6, <1>7, <1>8, <1>9, <1>10 DEF SocketsInv

\* A socket that was made in the call and is taken down again
TakenDown(h, p) == p \in Heaps /\ PointersHold(p) /\ SameLines(h, p) /\ Live(p) = Live(h)

LEMMA TakesDown ==
  ASSUME NEW h, NEW g \in Heaps, PointersHold(g), SameLines(h, g),
         NEW x \in Live(g), Live(g) = Live(h) \cup {x}, x \notin Live(h),
         NEW p, p = etcpSockeDelete(g, x)
  PROVE  TakenDown(h, p)
<1>0. x \in DOMAIN g.socks
  BY DEF Live
<1>1. SockDeleted(g, p, x) /\ PointersHold(p)
  BY <1>0, DeletesSock
<1>2. p \in Heaps /\ SameLines(g, p) /\ Live(p) = Live(g) \ {x}
  BY <1>1, SockDeletedFacts
<1> QED
  BY <1>1, <1>2, SameLinesOn DEF TakenDown

\* It leaves nothing behind if it had no ends.
LEMMA EndlessGoes ==
  ASSUME NEW g \in Heaps, PointersHold(g), Agree(g), NEW x \in Live(g),
         g.socks[x].type = "SR", Ends(g.socks[x]) = {}, NEW p, p = etcpSockeDelete(g, x)
  PROVE  Agree(p)
<1>0. x \in DOMAIN g.socks
  BY DEF Live
<1>1. SockDeleted(g, p, x)
  BY <1>0, DeletesSock
<1>2. Live(p) = Live(g) \ {x}
  BY <1>1, SockDeletedFacts
<1>3. \A y \in Live(g) : Ends(g.socks[y]) # {} => g.socks[y].type # "UK" /\ y # x
  BY DEF Agree, EndsAgree
<1>4. \A y \in DOMAIN g.socks : /\ p.socks[y].type = g.socks[y].type
                                /\ p.socks[y].send = g.socks[y].send
                                /\ p.socks[y].recv = g.socks[y].recv
  BY <1>1 DEF SockDeleted
<1>5. \A y \in Live(p) : Ends(p.socks[y]) = Ends(g.socks[y])
  BY <1>2, <1>4 DEF Ends, Live
<1>6. \A y \in DOMAIN p.socks : p.socks[y].frees \in {0, 1}
  <2>1. p.socks[x].frees = 1
    BY <1>1 DEF SockDeleted, Live
  <2> QED
    BY <1>1, <2>1 DEF SockDeleted, Agree, FreesCounted
<1>7. SocksFit(g, p)
  BY <1>2, <1>3, <1>4, <1>5, <1>6 DEF SocksFit, Live
<1>8. /\ p.dstMap = g.dstMap /\ DOMAIN p.maps = DOMAIN g.maps /\ p.conns = g.conns
      /\ \A m \in DOMAIN g.maps : /\ p.maps[m].table = g.maps[m].table
                                  /\ p.maps[m].frees = g.maps[m].frees
  BY <1>1 DEF SockDeleted
<1> QED
  BY <1>7, <1>8, AgreeStays

\* The new socket joins a queue of older ones.
Joined(h, p, m, x) ==
  \E q : QueueSet(h, p, m, q) /\ InLine(q) /\ Items(q) = Queued(h, m) \cup {x}

LEMMA Joins ==
  ASSUME NEW h \in Heaps, NEW m \in DOMAIN h.maps, NEW q, q = h.maps[m].listenQ,
         InLine(q), LQ!cqGetNextWrErr(q) = "cqENOERR",
         NEW x \in Nat, \A y \in Items(q) : y < x, NEW p, p = Enqueued(h, m, x)
  PROVE  Joined(h, p, m, x)
<1>1. PICK b : b = [q EXCEPT !.buff[QL!Idx(q.wrSeq)] = x]
  OBVIOUS
<1>2. PICK c : c = QL!cqCommitSlot(b, q.wrSeq, PointerSize)
  OBVIOUS
<1>3. p = [h EXCEPT !.maps[m].listenQ = c]
  BY <1>1, <1>2, SameQueues, SameCommit DEF Enqueued
<1>4. QL!cqGetNextWrErr(q) = "cqENOERR"
  BY SameQueues
<1>5. InLine(c) /\ Items(c) = Items(q) \cup {x}
  BY <1>1, <1>2, <1>4, EnqueueQ
<1>6. c \in {None} \cup QL!QueueType(Pointers)
  BY <1>5 DEF InLine
<1>7. QueueSet(h, p, m, c)
  BY <1>3, <1>6, SetsQueue
<1>8. Queued(h, m) = Items(q)
  BY InLineNumbers DEF Queued
<1> QED
  BY <1>5, <1>7, <1>8 DEF Joined

\* What acceptSock makes, step by step
Steps(h, f, fail, retFail, x, g, r, b) ==
  /\ x = Len(h.socks) + 1 /\ SockMade(h, g, "SR")
  /\ r = addConnMapping(g, x, f, FALSE, fail)
  /\ b = IF NoRet[f] THEN addConnMapping(r.heap, x, Reverse(f), TRUE, retFail) ELSE r

\* Heap p has the socket x in addition.
Fresh(h, p, x) ==
  /\ p \in Heaps /\ PointersHold(p) /\ SameLines(h, p)
  /\ x \in Nat /\ x \notin DOMAIN h.socks
  /\ x \in DOMAIN p.socks /\ Live(p) = Live(h) \cup {x}

LEMMA FreshGrows ==
  ASSUME NEW h, NEW g, NEW p, NEW x, Fresh(h, g, x), Grows(g, p)
  PROVE  Fresh(h, p, x)
<1>1. SameLines(g, p) /\ Live(p) = Live(g)
  BY GrowsLines
<1>2. SameLines(h, p)
  BY <1>1, SameLinesOn DEF Fresh
<1> QED
  BY <1>1, <1>2 DEF Fresh, Grows

LEMMA StepsFresh ==
  ASSUME NEW h \in Heaps, PointersHold(h), NEW f \in Flows, NEW fail, NEW retFail,
         NEW x, NEW g, NEW r, NEW b, Steps(h, f, fail, retFail, x, g, r, b)
  PROVE  Fresh(h, g, x) /\ Fresh(h, r.heap, x) /\ Fresh(h, b.heap, x)
<1>0. f \in FlowIds /\ Reverse(f) \in FlowIds
  <2>1. f \in FlowIds
    BY FlowsAssumption DEF FlowIds
  <2> QED
    BY <2>1, ReverseFlow
<1>1. SockMade(h, g, "SR")
  BY DEF Steps
<1>2. Fresh(h, g, x)
  <2>1. PICK type : type = "SR"
    OBVIOUS
  <2>2. SockMade(h, g, type) /\ type # "LA"
    BY <1>1, <2>1
  <2>3. g \in Heaps /\ PointersHold(g) /\ SameLines(h, g) /\ Live(g) = Live(h) \cup {Len(h.socks) + 1}
    BY <2>2, SockMadeFacts
  <2> QED
    BY <1>1, <2>3 DEF Steps, Fresh, SockMade
<1>3. Grows(g, r.heap)
  <2>1. PICK sends \in BOOLEAN : sends = FALSE
    OBVIOUS
  <2>2. r = addConnMapping(g, x, f, sends, fail)
    BY <2>1 DEF Steps
  <2> QED
    BY <1>0, <1>2, <2>2, AddGrows DEF Fresh
<1>4. Fresh(h, r.heap, x)
  BY <1>2, <1>3, FreshGrows
<1>5. CASE b = r
  BY <1>2, <1>4, <1>5
<1>6. CASE b = addConnMapping(r.heap, x, Reverse(f), TRUE, retFail)
  <2>1. PICK sends \in BOOLEAN : sends = TRUE
    OBVIOUS
  <2>2. PICK k : k = r.heap
    OBVIOUS
  <2>3. PICK e \in FlowIds : e = Reverse(f)
    BY <1>0
  <2>4. b = addConnMapping(k, x, e, sends, retFail)
    BY <1>6, <2>1, <2>2, <2>3
  <2>5. Grows(k, b.heap)
    BY <1>4, <2>2, <2>4, AddGrows DEF Fresh
  <2>6. Fresh(h, b.heap, x)
    BY <1>4, <2>2, <2>5, FreshGrows
  <2> QED
    BY <1>2, <1>4, <2>6
<1> QED
  BY <1>5, <1>6 DEF Steps

\* What agrees step by step: a receiving connection that failed leaves the
\* socket without ends; the return path does not fail.
StepsAgree(r, b, x) ==
  /\ Agree(r.heap) /\ r.heap.socks[x].type = "SR"
  /\ r.err # "etcpENOERR" => Ends(r.heap.socks[x]) = {}
  /\ r.err = "etcpENOERR" => Agree(b.heap) /\ b.err = "etcpENOERR"

LEMMA StepsAgreeWell ==
  ASSUME Usual, NEW h \in Heaps, PointersHold(h), Agree(h), NEW f \in Flows,
         DatConn(h, f) = None, NEW fail, NEW retFail \in ReturnFails,
         NEW x, NEW g, NEW r, NEW b, Steps(h, f, fail, retFail, x, g, r, b)
  PROVE  StepsAgree(r, b, x)
<1>0. /\ f \in FlowIds /\ Reverse(f) \in FlowIds /\ Reverse(f).src = f.dst
      /\ \A k \in FlowIds : Reverse(k) = Reverse(f) => k = f
  <2>1. f \in FlowIds
    BY FlowsAssumption DEF FlowIds
  <2> QED
    BY <2>1, ReverseFlow
<1>1. SockMade(h, g, "SR")
  BY DEF Steps
<1>2. Fresh(h, g, x) /\ Fresh(h, r.heap, x)
  BY StepsFresh
<1>3. x \in Live(g) /\ x \in Live(r.heap)
  BY <1>2 DEF Fresh
<1>4. Agree(g) /\ LooksSame(h, g)
  <2>1. PICK type : type = "SR"
    OBVIOUS
  <2>2. SockMade(h, g, type) /\ type # "LA"
    BY <1>1, <2>1
  <2> QED
    BY <2>2, SockMadeAgrees
<1>5. /\ NoCollisions /\ (\A a \in Addrs : Low32[a] = a) /\ TwoSides
      /\ retFail = "none"
  BY DEF Usual
<1>6. g.socks[x].type = "SR" /\ g.socks[x].send = None /\ g.socks[x].recv = None
  BY <1>1 DEF Steps, SockMade
<1>7. f.src \in PeerAddrs /\ f.dst \in OwnAddrs /\ f.src # f.dst
  BY <1>5 DEF PeerAddrs, OwnAddrs, TwoSides
<1>8. PICK recvs \in BOOLEAN : recvs = FALSE
  OBVIOUS
<1>9. EndFits(g.socks[x], f, recvs)
  BY <1>6, <1>7, <1>8 DEF EndFits
<1>10. Follows(g, f)
  <2>1. \A k \in Flows : Reverse(k) # f
    <3>1. \A k \in Flows : k \in FlowIds /\ k.dst \in OwnAddrs
      BY FlowsAssumption DEF FlowIds, OwnAddrs
    <3>2. \A k \in Flows : Reverse(k).src = k.dst
      BY <3>1, ReverseFlow
    <3> QED
      BY <1>5, <1>7, <3>1, <3>2 DEF TwoSides
  <2> QED
    BY <2>1 DEF Follows
<1>11. AddsWell(g, r, x, f, recvs, fail)
  <2>1. r = addConnMapping(g, x, f, recvs, fail) /\ g \in Heaps /\ PointersHold(g)
    BY <1>2, <1>8 DEF Steps, Fresh
  <2> QED
    BY <1>0, <1>3, <1>4, <1>5, <1>9, <1>10, <2>1, AddAgrees
<1>12. /\ Agree(r.heap) /\ r.heap.socks[x].send = None
       /\ r.err # "etcpENOERR" => r.heap.socks[x].recv = None
  BY <1>6, <1>8, <1>11 DEF AddsWell
<1>13. r.heap.socks[x].type = "SR"
  <2>1. Grows(g, r.heap)
    <3>1. r = addConnMapping(g, x, f, recvs, fail) /\ g \in Heaps /\ PointersHold(g)
      BY <1>2, <1>8 DEF Steps, Fresh
    <3>2. x \in DOMAIN g.socks
      BY <1>2 DEF Fresh
    <3> QED
      BY <1>0, <3>1, <3>2, AddGrows
  <2>2. x \in DOMAIN g.socks
    BY <1>2 DEF Fresh
  <2> QED
    BY <1>6, <2>1, <2>2 DEF Grows
<1>14. ASSUME r.err = "etcpENOERR" PROVE Agree(b.heap) /\ b.err = "etcpENOERR"
  <2>1. CASE ~NoRet[f]
    BY <1>12, <1>14, <2>1 DEF Steps
  <2>2. CASE NoRet[f]
    <3>1. PICK c : c # None /\ FoundWith(g, r.heap, f, c)
      BY <1>11, <1>14 DEF AddsWell
    <3>2. PICK k : k = r.heap
      OBVIOUS
    <3>3. PICK e \in FlowIds : e = Reverse(f)
      BY <1>0
    <3>4. PICK sends \in BOOLEAN : sends = TRUE
      OBVIOUS
    <3>5. e # f /\ DatConn(h, e) = None
      <4>1. e # f
        BY <1>0, <1>7, <3>3
      <4>2. DatConn(h, e) # None => DatConn(h, f) # None
        BY <2>2, <3>3 DEF Agree, ReturnsFollow
      <4> QED
        BY <4>1, <4>2
    <3>6. DatConn(k, e) = None /\ DatConn(k, f) # None
      BY <1>0, <1>4, <3>1, <3>2, <3>5 DEF FoundWith, LooksSame
    <3>7. Follows(k, e)
      <4>1. \A l \in Flows : l \in FlowIds
        BY FlowsAssumption DEF FlowIds
      <4>2. \A l \in Flows : Reverse(l) = e => l = f
        BY <1>0, <3>3, <4>1
      <4> QED
        BY <3>6, <4>2 DEF Follows
    <3>8. EndFits(k.socks[x], e, sends)
      BY <1>0, <1>7, <1>12, <1>13, <3>2, <3>3, <3>4 DEF EndFits
    <3>9. b = addConnMapping(k, x, e, sends, retFail)
      BY <2>2, <3>2, <3>3, <3>4 DEF Steps
    <3>10. k \in Heaps /\ PointersHold(k) /\ Agree(k) /\ x \in Live(k)
      BY <1>2, <1>3, <1>12, <3>2 DEF Fresh
    <3>11. AddsWell(k, b, x, e, sends, retFail)
      BY <1>5, <3>7, <3>8, <3>9, <3>10, AddAgrees
    <3> QED
      BY <1>5, <3>6, <3>11 DEF AddsWell
  <2> QED
    BY <2>1, <2>2
<1> QED
  BY <1>12, <1>13, <1>14 DEF StepsAgree, Ends

LEMMA StepsTaken ==
  ASSUME NEW h \in Heaps, NEW m, NEW f, NEW fail, NEW retFail,
         NEW p, p = acceptSock(h, m, f, fail, retFail).heap
  PROVE  \E x, g, r, b :
           /\ Steps(h, f, fail, retFail, x, g, r, b)
           /\ \/ r.err # "etcpENOERR" /\ p = etcpSockeDelete(r.heap, x)
              \/ /\ r.err = "etcpENOERR" /\ b.err # "etcpENOERR"
                 /\ p = etcpSockeDelete(etcpConnDelete(b.heap, b.heap.socks[x].recv), x)
              \/ r.err = "etcpENOERR" /\ b.err = "etcpENOERR" /\ p = Enqueued(b.heap, m, x)
<1> DEFINE x == Len(h.socks) + 1
           g == [h EXCEPT !.socks = Append(@, [etcpSocketNew EXCEPT !.type = "SR"])]
           r == addConnMapping(g, x, f, FALSE, fail)
           b == IF NoRet[f] THEN addConnMapping(r.heap, x, Reverse(f), TRUE, retFail) ELSE r
<1>1. SockMade(h, g, "SR")
  <2>1. PICK s : s = [type |-> "SR", la |-> None, send |-> None, recv |-> None, frees |-> 0]
    OBVIOUS
  <2>2. [etcpSocketNew EXCEPT !.type = "SR"] = s
    BY <2>1 DEF etcpSocketNew
  <2>3. g = [h EXCEPT !.socks = Append(@, s)]
    BY <2>2
  <2>4. PICK k : k = g
    OBVIOUS
  <2>5. SockMade(h, k, "SR")
    <3> HIDE DEF g
    <3>1. k = [h EXCEPT !.socks = Append(@, s)]
      BY <2>3, <2>4
    <3> QED
      BY <2>1, <3>1, MakesSock
  <2> QED
    BY <2>4, <2>5
<1>2. Steps(h, f, fail, retFail, x, g, r, b)
  <2>1. SockMade(h, g, "SR")
    BY <1>1
  <2> QED
    BY <2>1 DEF Steps
<1>3. acceptSock(h, m, f, fail, retFail) =
        IF r.err # "etcpENOERR" THEN Result(etcpSockeDelete(r.heap, x), r.err)
        ELSE IF b.err # "etcpENOERR" THEN
          Result(etcpSockeDelete(etcpConnDelete(b.heap, b.heap.socks[x].recv), x), b.err)
        ELSE Result(Enqueued(b.heap, m, x), "etcpENOERR")
  BY DEF acceptSock
<1> HIDE DEF x, g, r, b
<1>4. \/ r.err # "etcpENOERR" /\ p = etcpSockeDelete(r.heap, x)
      \/ /\ r.err = "etcpENOERR" /\ b.err # "etcpENOERR"
         /\ p = etcpSockeDelete(etcpConnDelete(b.heap, b.heap.socks[x].recv), x)
      \/ r.err = "etcpENOERR" /\ b.err = "etcpENOERR" /\ p = Enqueued(b.heap, m, x)
  BY <1>3 DEF Result
<1> QED
  BY <1>2, <1>4

\* Without the socket it was made for, a connection that fails is freed.
LEMMA ConnGoes ==
  ASSUME NEW h, NEW g, NEW x, Fresh(h, g, x), NEW c, NEW d, d = etcpConnDelete(g, c)
  PROVE  Fresh(h, d, x)
<1>1. PICK K : K = {c} \ {None}
  OBVIOUS
<1>2. d = ConnsFreed(g, K) /\ g \in Heaps
  BY <1>1 DEF etcpConnDelete, Fresh
<1>3. /\ d \in Heaps /\ d.dstMap = g.dstMap /\ d.maps = g.maps /\ d.socks = g.socks
      /\ DOMAIN d.conns = DOMAIN g.conns
  BY <1>2, FreesConns
<1> QED
  BY <1>3 DEF Fresh, PointersHold, SameLines, Live

\* What is left when the call returns
Left(h, p, m, x) == \E k : Fresh(h, k, x) /\ Joined(k, p, m, x) /\ (Usual /\ Agree(h) => Agree(k))

LEMMA AcceptSockLeaves ==
  ASSUME NEW h \in Heaps, PointersHold(h), QueuesHold(h, {}), NEW m \in DOMAIN h.maps,
         h.maps[m].listenQ # None, LQ!cqGetNextWrErr(h.maps[m].listenQ) = "cqENOERR",
         NEW f \in Flows, DatConn(h, f) = None,
         NEW fail, NEW retFail \in ReturnFails,
         NEW p, p = acceptSock(h, m, f, fail, retFail).heap
  PROVE  \/ TakenDown(h, p) /\ (Usual /\ Agree(h) => Agree(p))
         \/ \E x : Left(h, p, m, x)
<1>1. PICK x, g, r, b :
        /\ Steps(h, f, fail, retFail, x, g, r, b)
        /\ \/ r.err # "etcpENOERR" /\ p = etcpSockeDelete(r.heap, x)
           \/ /\ r.err = "etcpENOERR" /\ b.err # "etcpENOERR"
              /\ p = etcpSockeDelete(etcpConnDelete(b.heap, b.heap.socks[x].recv), x)
           \/ r.err = "etcpENOERR" /\ b.err = "etcpENOERR" /\ p = Enqueued(b.heap, m, x)
  BY StepsTaken
<1>2. Fresh(h, r.heap, x) /\ Fresh(h, b.heap, x)
  BY <1>1, StepsFresh
<1>3. Usual /\ Agree(h) => StepsAgree(r, b, x)
  BY <1>1, StepsAgreeWell
<1>4. ASSUME NEW k, Fresh(h, k, x), p = etcpSockeDelete(k, x) PROVE TakenDown(h, p)
  <2>1. /\ k \in Heaps /\ PointersHold(k) /\ SameLines(h, k) /\ x \in Live(k)
        /\ Live(k) = Live(h) \cup {x} /\ x \notin Live(h)
    BY <1>4 DEF Fresh, Live
  <2> QED
    BY <1>4, <2>1, TakesDown
<1>5. CASE r.err # "etcpENOERR" /\ p = etcpSockeDelete(r.heap, x)
  <2>1. PICK k : k = r.heap
    OBVIOUS
  <2>2. Fresh(h, k, x) /\ p = etcpSockeDelete(k, x)
    BY <1>2, <1>5, <2>1
  <2>3. TakenDown(h, p)
    BY <1>4, <2>2
  <2>4. ASSUME Usual, Agree(h) PROVE Agree(p)
    <3>1. /\ k \in Heaps /\ PointersHold(k) /\ x \in Live(k) /\ Agree(k)
          /\ k.socks[x].type = "SR" /\ Ends(k.socks[x]) = {}
      BY <1>3, <1>5, <2>1, <2>2, <2>4 DEF Fresh, StepsAgree
    <3> QED
      BY <2>2, <3>1, EndlessGoes
  <2> QED
    BY <2>3, <2>4
<1>6. CASE /\ r.err = "etcpENOERR" /\ b.err # "etcpENOERR"
           /\ p = etcpSockeDelete(etcpConnDelete(b.heap, b.heap.socks[x].recv), x)
  <2>1. PICK k : k = b.heap
    OBVIOUS
  <2>2. PICK d : d = etcpConnDelete(k, k.socks[x].recv)
    OBVIOUS
  <2>3. Fresh(h, d, x)
    BY <1>2, <2>1, <2>2, ConnGoes
  <2>4. TakenDown(h, p)
    BY <1>4, <1>6, <2>1, <2>2, <2>3
  <2>5. ~(Usual /\ Agree(h))
    BY <1>3, <1>6 DEF StepsAgree
  <2> QED
    BY <2>4, <2>5
<1>7. CASE r.err = "etcpENOERR" /\ b.err = "etcpENOERR" /\ p = Enqueued(b.heap, m, x)
  <2>1. PICK k : k = b.heap
    OBVIOUS
  <2>2. Fresh(h, k, x) /\ p = Enqueued(k, m, x)
    BY <1>2, <1>7, <2>1
  <2>3. PICK q : q = k.maps[m].listenQ
    OBVIOUS
  <2>4. m \in DOMAIN k.maps /\ q = h.maps[m].listenQ
    BY <2>2, <2>3 DEF Fresh, SameLines
  <2>5. InLine(q) /\ LQ!cqGetNextWrErr(q) = "cqENOERR"
    BY <2>4 DEF QueuesHold
  <2>6. x \in Nat /\ \A y \in Items(q) : y < x
    <3>1. Queued(h, m) = Items(q) /\ Items(q) \subseteq DOMAIN h.socks
      BY <2>4 DEF QueuesHold, Queued
    <3>2. DOMAIN h.socks = 1 .. Len(h.socks) /\ Len(h.socks) \in Nat /\ x = Len(h.socks) + 1
      BY <1>1, HeapFields DEF Steps
    <3> QED
      BY <3>1, <3>2
  <2>7. k \in Heaps
    BY <2>2 DEF Fresh
  <2>8. Joined(k, p, m, x)
    BY <2>2, <2>3, <2>4, <2>5, <2>6, <2>7, Joins
  <2>9. Usual /\ Agree(h) => Agree(k)
    BY <1>3, <1>7, <2>1 DEF StepsAgree
  <2> QED
    BY <2>2, <2>8, <2>9 DEF Left
<1> QED
  BY <1>1, <1>5, <1>6, <1>7

\* The new socket waits, the others wait as before.
JoinedWell(h, p, H) ==
  /\ p \in Heaps /\ PointersHold(p) /\ QueuesHold(p, H)
  /\ AllHomed(h, H) => AllHomed(p, H)
  /\ \A l : ListensKnown(h, l) => ListensKnown(p, l)
  /\ Usual /\ Agree(h) => Agree(p)

LEMMA LeavesWell ==
  ASSUME NEW h \in Heaps, NEW H, QueuesHold(h, H), NEW m \in DOMAIN h.maps,
         h.maps[m].listenQ # None, NEW p, NEW x, Left(h, p, m, x)
  PROVE  JoinedWell(h, p, H)
<1>1. PICK k : Fresh(h, k, x) /\ Joined(k, p, m, x) /\ (Usual /\ Agree(h) => Agree(k))
  BY DEF Left
<1>2. /\ k \in Heaps /\ PointersHold(k) /\ SameLines(h, k) /\ x \notin Live(h)
      /\ Live(k) = Live(h) \cup {x} /\ H \subseteq Live(h)
  BY <1>1 DEF Fresh, Live, QueuesHold
<1>3. \A n \in DOMAIN h.maps : Queued(h, n) \subseteq Live(h) \ H
  BY DEF QueuesHold, Live
<1>4. QueuesHold(k, H) /\ \A n \in DOMAIN h.maps : Queued(k, n) = Queued(h, n)
  <2>1. /\ \A n \in DOMAIN h.maps : Queued(h, n) \subseteq Live(k) \ H
        /\ H \subseteq Live(k)
    BY <1>2, <1>3
  <2> QED
    BY <1>2, <2>1, QueuesStay
<1>5. PICK q : QueueSet(k, p, m, q) /\ InLine(q) /\ Items(q) = Queued(k, m) \cup {x}
  BY <1>1 DEF Joined
<1>6. PICK I : I = Queued(p, m)
  OBVIOUS
<1>7. I = Queued(h, m) \cup {x}
  <2>1. q # None
    BY <1>5, InLineNumbers
  <2>2. Queued(p, m) = Items(q)
    BY <1>5, <2>1 DEF QueueSet, Queued
  <2> QED
    BY <1>4, <1>5, <1>6, <2>2
<1>8. I \subseteq Live(k) \ H /\ H \subseteq Live(k)
  BY <1>2, <1>3, <1>7
<1>9. OnlyHere(k, m, I \cup H)
  <2> SUFFICES ASSUME NEW n \in DOMAIN k.maps \ {m}
               PROVE  Queued(k, n) \cap (I \cup H) = {}
    BY DEF OnlyHere
  <2>1. CASE n \in DOMAIN h.maps
    <3>1. Queued(k, n) = Queued(h, n)
      BY <1>4, <2>1
    <3>2. Queued(h, n) \cap Queued(h, m) = {}
      BY <2>1 DEF QueuesHold
    <3> QED
      BY <1>2, <1>3, <1>7, <2>1, <3>1, <3>2
  <2>2. CASE n \notin DOMAIN h.maps
    BY <1>2, <2>2 DEF SameLines, Queued
  <2> QED
    BY <2>1, <2>2
<1>10. m \in DOMAIN k.maps
  BY <1>2 DEF SameLines
<1>11. QueuesHold(p, H) /\ OthersQueued(k, p, m)
  <2>1. q # None => InLine(q)
    BY <1>5
  <2> QED
    BY <1>4, <1>5, <1>6, <1>8, <1>9, <1>10, <2>1, QueueChanges
<1>12. p \in Heaps /\ PointersHold(p) /\ Live(p) = Live(k) /\ DOMAIN p.maps = DOMAIN k.maps
  BY <1>2, <1>5, QueueSetFacts DEF QueueSet
<1>13. ASSUME AllHomed(h, H), NEW y \in Live(p)
       PROVE  y \in H \/ \E n \in DOMAIN p.maps : y \in Queued(p, n)
  <2>1. CASE y = x
    BY <1>6, <1>7, <1>10, <1>12, <2>1
  <2>2. CASE y \in Live(h) /\ y \notin H
    <3>1. PICK n \in DOMAIN h.maps : y \in Queued(h, n)
      BY <1>13, <2>2 DEF AllHomed
    <3>2. n \in DOMAIN p.maps
      BY <1>2, <1>12 DEF SameLines
    <3>3. CASE n = m
      BY <1>6, <1>7, <3>1, <3>2, <3>3
    <3>4. CASE n # m
      BY <1>4, <1>11, <1>12, <3>1, <3>2, <3>4 DEF OthersQueued
    <3> QED
      BY <3>3, <3>4
  <2> QED
    BY <1>2, <1>12, <2>1, <2>2
<1>14. ASSUME NEW l, ListensKnown(h, l) PROVE ListensKnown(p, l)
  <2>1. ListensKnown(k, l)
    BY <1>2, <1>14, ListensStay
  <2>2. k.maps[m].listenQ # None
    BY <1>2 DEF SameLines
  <2> QED
    BY <1>5, <1>10, <2>1, <2>2 DEF ListensKnown, QueueSet
<1>15. Usual /\ Agree(h) => Agree(p)
  BY <1>1, <1>2, <1>5, QueueSetAgrees
<1> QED
  BY <1>11, <1>12, <1>13, <1>14, <1>15 DEF JoinedWell, AllHomed

LEMMA RxDatKeeps ==
  ASSUME SocketsInv, NEW f \in Flows, NEW fail, NEW retFail \in ReturnFails,
         RxDat(f, fail, retFail)
  PROVE  SocketsInv'
<1>0. /\ heap \in Heaps /\ PointersHold(heap) /\ QueuesHold(heap, held)
      /\ ListensKnown(heap, listens)
  BY InvFacts
<1>1. PICK m : m = Sources(heap, f.dst)
  OBVIOUS
<1>2. PICK p : p = heap'
  OBVIOUS
<1>3. /\ p = addNewConn(heap, m, f, fail, retFail).heap /\ m # None
      /\ DatConn(heap, f) = None
      /\ Running /\ closes' = closes /\ held' = held /\ listens' = listens
  BY <1>1, <1>2 DEF RxDat
<1>4. m \in DOMAIN heap.maps
  <2>1. f.dst \in Addrs
    BY FlowsAssumption
  <2> QED
    BY <1>0, <1>1, <1>3, <2>1, Look
<1>5. \/ p = heap
      \/ /\ heap.maps[m].listenQ # None
         /\ LQ!cqGetNextWrErr(heap.maps[m].listenQ) = "cqENOERR"
         /\ p = acceptSock(heap, m, f, fail, retFail).heap
  BY <1>3 DEF addNewConn, Result
<1>6. ASSUME TakenDown(heap, p), Usual /\ Agree(heap) => Agree(p) PROVE SocketsInv'
  <2>1. p \in Heaps /\ PointersHold(p) /\ SameLines(heap, p) /\ Live(p) = Live(heap)
    BY <1>6 DEF TakenDown
  <2> QED
    BY <1>2, <1>3, <1>6, <2>1, KeepsQuietly
<1>7. CASE p = heap
  BY <1>0, <1>6, <1>7 DEF TakenDown, SameLines
<1>8. CASE /\ heap.maps[m].listenQ # None
           /\ LQ!cqGetNextWrErr(heap.maps[m].listenQ) = "cqENOERR"
           /\ p = acceptSock(heap, m, f, fail, retFail).heap
  <2>1. QueuesHold(heap, {})
    BY <1>0 DEF QueuesHold
  <2>2. \/ TakenDown(heap, p) /\ (Usual /\ Agree(heap) => Agree(p))
        \/ \E x : Left(heap, p, m, x)
    BY <1>0, <1>3, <1>4, <1>8, <2>1, AcceptSockLeaves
  <2>3. ASSUME NEW x, Left(heap, p, m, x) PROVE SocketsInv'
    <3>1. JoinedWell(heap, p, held)
      BY <1>0, <1>4, <1>8, <2>3, LeavesWell
    <3>2. /\ p \in Heaps /\ PointersHold(p) /\ QueuesHold(p, held)
          /\ AllHomed(heap, held) => AllHomed(p, held)
          /\ ListensKnown(p, listens) /\ (Usual /\ Agree(heap) => Agree(p))
      BY <1>0, <3>1 DEF JoinedWell
    <3> QED
      BY <1>2, <1>3, <3>2, KeepsInv
  <2> QED
    BY <1>6, <2>2, <2>3
<1> QED
  BY <1>5, <1>7, <1>8

-----------------------------------------------------------------------------
(* The invariant                                                           *)

LEMMA InitHolds == Init => SocketsInv
<1> SUFFICES ASSUME Init PROVE SocketsInv
  OBVIOUS
<1>1. PICK t : t = Empty(DstBucket)
  OBVIOUS
<1>2. /\ t \in Tables(DstBucket) /\ Values(t) = {} /\ Plain(t, DstBucket)
      /\ \A a \in Addrs : Get(DstBucket, t, a) = None
  BY <1>1, NewTable, BucketFacts
<1>3. PICK h : h = heap
  OBVIOUS
<1>4. h = [dstMap |-> t, maps |-> <<>>, conns |-> <<>>, socks |-> <<>>]
  BY <1>1, <1>3, DstTable DEF Init
<1>5. h \in Heaps
  BY <1>2, <1>4 DEF Heaps
<1>6. DOMAIN h.maps = {} /\ DOMAIN h.conns = {} /\ DOMAIN h.socks = {} /\ Live(h) = {}
  BY <1>4 DEF Live
<1>7. held = {} /\ listens = <<>> /\ closes = 0
  BY DEF Init
<1>8. PointersHold(h)
  BY <1>2, <1>4, <1>6 DEF PointersHold
<1>9. QueuesHold(h, held) /\ ListensKnown(h, listens) /\ AllHomed(h, held)
  BY <1>6, <1>7 DEF QueuesHold, ListensKnown, AllHomed
<1>10. \A a \in Addrs : Sources(h, a) = None
  BY <1>2, <1>4, DstTable DEF Sources
<1>11. \A f \in FlowIds : DatConn(h, f) = None
  BY <1>10 DEF DatConn, ConnOf, FlowIds
<1>12. Agree(h)
  <2>1. TablesPlain(h) /\ OwnSources(h) /\ FreesCounted(h) /\ FoundAgrees(h)
    BY <1>2, <1>4, <1>6, <1>10, <1>11
    DEF TablesPlain, OwnSources, FreesCounted, FoundAgrees
  <2>2. LiveFound(h) /\ EndsAgree(h) /\ OneOwner(h)
    BY <1>6 DEF LiveFound, EndsAgree, OneOwner
  <2>3. ReturnsFollow(h)
    <3>1. \A f \in Flows : Reverse(f) \in FlowIds
      BY FlowsAssumption, ReverseFlow DEF FlowIds
    <3> QED
      BY <1>11, <3>1 DEF ReturnsFollow
  <2> QED
    BY <2>1, <2>2, <2>3 DEF Agree
<1>13. FreedOnce
  BY <1>3, <1>6 DEF FreedOnce, ConnIds, MapIds, SockIds
<1> QED
  BY <1>3, <1>5, <1>7, <1>8, <1>9, <1>12, <1>13 DEF SocketsInv

LEMMA NextKeeps ==
  ASSUME SocketsInv, [Next]_vars
  PROVE  SocketsInv'
<1>1. CASE Socket
  BY <1>1, SocketKeeps
<1>2. ASSUME NEW x \in held, NEW f \in Connects, NEW doReturn \in BOOLEAN,
             NEW fail \in ConnectFails, NEW retFail \in ReturnFails,
             Connect(x, f, doReturn, fail, retFail)
      PROVE  SocketsInv'
  BY <1>2, ConnectKeeps
<1>3. ASSUME NEW x \in held, NEW a \in Binds, NEW fail \in BindFails, Bind(x, a, fail)
      PROVE  SocketsInv'
  <2>1. a \in Addrs
    BY BindsAssumption
  <2> QED
    BY <1>3, <2>1, BindKeeps
<1>4. ASSUME NEW x \in held, NEW fail \in ListenFails, Listen(x, fail) PROVE SocketsInv'
  BY <1>4, ListenKeeps
<1>5. ASSUME NEW x \in held, Accept(x) PROVE SocketsInv'
  BY <1>5, AcceptKeeps
<1>6. ASSUME NEW x \in held, Close(x) PROVE SocketsInv'
  BY <1>6, CloseKeeps
<1>7. ASSUME NEW f \in Flows, NEW fail \in AcceptFails, NEW retFail \in ReturnFails,
             RxDat(f, fail, retFail)
      PROVE  SocketsInv'
  BY <1>7, RxDatKeeps
<1>8. CASE UNCHANGED vars
  BY <1>8 DEF vars, SocketsInv, FreedOnce, ConnIds, MapIds, SockIds
<1> QED
  BY <1>1, <1>2, <1>3, <1>4, <1>5, <1>6, <1>7, <1>8 DEF Next

\* The inductive invariant holds: every pointer is to an object of the process
\* and the listening queues are in order whatever happens; under the
\* conditions, nothing is freed twice, and until etcpClose the tables, the
\* connections and the sockets agree.
THEOREM SocketsInvariant == Spec => []SocketsInv
<1>1. Init => SocketsInv
  BY InitHolds
<1>2. SocketsInv /\ [Next]_vars => SocketsInv'
  BY NextKeeps
<1> QED
  BY <1>1, <1>2, PTL DEF Spec

-----------------------------------------------------------------------------
(* The properties                                                          *)

\* Every pointer of the tables and of the sockets is to an object of the right
\* kind, and the application has no socket that was freed, after any sequence
\* of calls and packets and any number of failures.
THEOREM SocketTypes == Spec => []TypeOK
<1>1. ASSUME SocketsInv PROVE TypeOK
  <2>0. /\ heap \in Heaps /\ PointersHold(heap) /\ held \subseteq Live(heap)
    BY <1>1, InvFacts
  <2>1. \A a \in Addrs : Sources(heap, a) \in MapIds \cup {None}
    BY <2>0, Look DEF MapIds
  <2>2. \A m \in MapIds : \A a \in Addrs :
          Src!htGet(heap.maps[m].table, a) \in ConnIds \cup {None}
    BY <2>0, Look, SrcTable DEF MapIds, ConnIds
  <2>3. ASSUME NEW x \in SockIds
        PROVE  /\ heap.socks[x].type \in {"UK", "LA", "SR"}
               /\ heap.socks[x].la \in MapIds \cup {None}
               /\ {heap.socks[x].send, heap.socks[x].recv} \subseteq ConnIds \cup {None}
    <3>1. heap.socks[x] \in SockSet
      BY <2>0, HeapFields DEF SockIds
    <3>2. heap.socks[x].type \in {"UK", "LA", "SR"}
      BY <3>1 DEF SockSet
    <3> QED
      BY <2>0, <3>2 DEF PointersHold, SockIds, MapIds, ConnIds
  <2>4. held \subseteq LiveSocks
    BY <2>0 DEF LiveSocks, SockIds, Live
  <2> QED
    BY <2>1, <2>2, <2>3, <2>4 DEF TypeOK
<1> QED
  BY <1>1, SocketsInvariant, PTL

\* No connection, no sources and no socket is freed twice.
THEOREM FreedAtMostOnce == ASSUME Usual PROVE Spec => []FreedOnce
<1>1. ASSUME SocketsInv PROVE FreedOnce
  BY <1>1 DEF SocketsInv
<1> QED
  BY <1>1, SocketsInvariant, PTL

\* What agrees while the process runs
LEMMA AgreesRunning ==
  ASSUME Usual, SocketsInv, Running
  PROVE  Agree(heap) /\ heap \in Heaps /\ PointersHold(heap)
  BY DEF SocketsInv, Usual, Running

\* The end that a connection is: which one, its flow says.
LEMMA EndByFlow ==
  ASSUME NEW h \in Heaps, PointersHold(h), Agree(h), TwoSides,
         NEW c \in DOMAIN h.conns, h.conns[c].frees = 0
  PROVE  /\ h.conns[c].flow.src \in PeerAddrs => \E x \in Live(h) : h.socks[x].recv = c
         /\ h.conns[c].flow.src \in OwnAddrs => \E x \in Live(h) : h.socks[x].send = c
<1>1. PICK x \in Live(h) : c \in Ends(h.socks[x])
  BY DEF Agree, OneOwner
<1>2. c # None
  BY <1>1 DEF Ends
<1>3. c = h.socks[x].send => h.conns[c].flow.src \in OwnAddrs
  BY <1>1, <1>2 DEF Agree, EndsAgree
<1>4. c = h.socks[x].recv => h.conns[c].flow.src \in PeerAddrs
  BY <1>1, <1>2 DEF Agree, EndsAgree
<1>5. c = h.socks[x].send \/ c = h.socks[x].recv
  BY <1>1 DEF Ends
<1> QED
  BY <1>1, <1>3, <1>4, <1>5 DEF TwoSides

\* A packet finds a connection that is there, of its own flow, in sources that
\* are there, and it is the end of a socket that the packet is meant for.
THEOREM PacketsFindTheirs == ASSUME Usual PROVE Spec => []FoundIsMeant
<1>1. ASSUME SocketsInv PROVE FoundIsMeant
  <2> SUFFICES ASSUME Running, NEW f \in [src : Addrs, dst : Addrs]
               PROVE  /\ DatConn(heap, f) # None =>
                           /\ heap.maps[Sources(heap, f.dst)].frees = 0
                           /\ heap.conns[DatConn(heap, f)] = [flow |-> f, frees |-> 0]
                      /\ (f \in Flows \/ Reverse(f) \in Connects) /\ DatConn(heap, f) # None =>
                           \E x \in LiveSocks : heap.socks[x].recv = DatConn(heap, f)
                      /\ Reverse(f) \in Connects /\ AckConn(heap, f) # None =>
                           \E x \in LiveSocks : heap.socks[x].send = AckConn(heap, f)
    BY DEF FoundIsMeant
  <2>0. Agree(heap) /\ heap \in Heaps /\ PointersHold(heap) /\ TwoSides
    BY <1>1, AgreesRunning DEF Usual
  <2>1. /\ f \in FlowIds /\ Reverse(f) \in FlowIds /\ Reverse(f).src = f.dst
        /\ Reverse(f).dst = f.src
    BY ReverseFlow DEF FlowIds
  <2>2. ASSUME NEW g \in FlowIds, DatConn(heap, g) # None
        PROVE  /\ heap.maps[Sources(heap, g.dst)].frees = 0
               /\ heap.conns[DatConn(heap, g)] = [flow |-> g, frees |-> 0]
               /\ DatConn(heap, g) \in DOMAIN heap.conns
    <3>1. heap.conns[DatConn(heap, g)] = [flow |-> g, frees |-> 0]
      BY <2>0, <2>2 DEF Agree, FoundAgrees
    <3>2. /\ DatConn(heap, g) \in DOMAIN heap.conns \cup {None}
          /\ Sources(heap, g.dst) \in DOMAIN heap.maps \cup {None}
          /\ Sources(heap, g.dst) # None
      BY <2>0, <2>2, Look DEF FlowIds
    <3> QED
      BY <2>0, <2>2, <3>1, <3>2 DEF Agree, FreesCounted
  <2>3. Live(heap) = LiveSocks
    BY DEF Live, LiveSocks, SockIds
  <2>4. ASSUME f \in Flows \/ Reverse(f) \in Connects, DatConn(heap, f) # None
        PROVE  \E x \in LiveSocks : heap.socks[x].recv = DatConn(heap, f)
    <3>1. f.src \in PeerAddrs
      BY <2>1, <2>4 DEF PeerAddrs
    <3>2. PICK c : c = DatConn(heap, f)
      OBVIOUS
    <3>3. c \in DOMAIN heap.conns /\ heap.conns[c].frees = 0 /\ heap.conns[c].flow = f
      <4>1. f \in FlowIds /\ DatConn(heap, f) # None
        BY <2>1, <2>4
      <4>2. c \in DOMAIN heap.conns /\ heap.conns[c] = [flow |-> f, frees |-> 0]
        BY ONLY <2>2, <3>2, <4>1
      <4> QED
        BY <4>2
    <3> QED
      BY <2>0, <2>3, <3>1, <3>2, <3>3, EndByFlow
  <2>5. ASSUME Reverse(f) \in Connects, AckConn(heap, f) # None
        PROVE  \E x \in LiveSocks : heap.socks[x].send = AckConn(heap, f)
    <3>1. Reverse(f).src \in OwnAddrs
      BY <2>5 DEF OwnAddrs
    <3>2. PICK c : c = AckConn(heap, f)
      OBVIOUS
    <3>3. c = DatConn(heap, Reverse(f))
      BY <2>1, <3>2 DEF AckConn, DatConn
    <3>4. /\ c \in DOMAIN heap.conns /\ heap.conns[c].frees = 0
          /\ heap.conns[c].flow = Reverse(f)
      <4>1. PICK g \in FlowIds : g = Reverse(f)
        BY <2>1
      <4>2. DatConn(heap, g) # None /\ c = DatConn(heap, g)
        BY <2>5, <3>2, <3>3, <4>1
      <4>3. c \in DOMAIN heap.conns /\ heap.conns[c] = [flow |-> g, frees |-> 0]
        BY ONLY <2>2, <4>2
      <4> QED
        BY <4>1, <4>3
    <3> QED
      BY <2>0, <2>3, <3>1, <3>2, <3>4, EndByFlow
  <2> QED
    BY <2>1, <2>2, <2>4, <2>5
<1> QED
  BY <1>1, SocketsInvariant, PTL

\* Every end that a socket has is found by the packets of its peer.
THEOREM EndsFound == ASSUME Usual PROVE Spec => []EndsAreReached
<1>1. ASSUME SocketsInv PROVE EndsAreReached
  <2> SUFFICES ASSUME Running, NEW x \in LiveSocks
               PROVE  /\ heap.socks[x].recv # None =>
                           DatConn(heap, heap.conns[heap.socks[x].recv].flow)
                             = heap.socks[x].recv
                      /\ heap.socks[x].send # None =>
                           AckConn(heap, Reverse(heap.conns[heap.socks[x].send].flow))
                             = heap.socks[x].send
    BY DEF EndsAreReached
  <2>0. /\ Agree(heap) /\ heap \in Heaps /\ PointersHold(heap)
        /\ x \in Live(heap) /\ x \in DOMAIN heap.socks
    BY <1>1, AgreesRunning DEF Live, LiveSocks, SockIds
  <2>1. ASSUME NEW c \in Ends(heap.socks[x])
        PROVE  heap.conns[c].flow \in FlowIds /\ DatConn(heap, heap.conns[c].flow) = c
    <3>1. c \in DOMAIN heap.conns
      BY <2>0, <2>1 DEF PointersHold, Ends
    <3>2. heap.conns[c].flow \in FlowIds
      BY <2>0, <3>1, HeapFields DEF ConnSet
    <3> QED
      BY <2>0, <2>1, <3>1, <3>2 DEF Agree, EndsAgree, LiveFound
  <2>2. ASSUME NEW g \in FlowIds PROVE AckConn(heap, Reverse(g)) = DatConn(heap, g)
    BY ReverseFlow DEF AckConn, DatConn
  <2> QED
    BY <2>1, <2>2 DEF Ends
<1> QED
  BY <1>1, SocketsInvariant, PTL

\* The sockets of a queue, each once
Listed(m) ==
  /\ DOMAIN Waiting(m) \subseteq 1 .. Backlog
  /\ \A i \in DOMAIN Waiting(m) : Waiting(m)[i] \in Queued(heap, m)
  /\ \A i, j \in DOMAIN Waiting(m) : Waiting(m)[i] = Waiting(m)[j] => i = j
  /\ \A y \in Queued(heap, m) : \E i \in DOMAIN Waiting(m) : Waiting(m)[i] = y

LEMMA WaitingListed ==
  ASSUME SocketsInv, NEW m \in MapIds
  PROVE  Listed(m)
<1>0. QueuesHold(heap, held)
  BY InvFacts
<1>1. CASE heap.maps[m].listenQ = None
  BY <1>1 DEF Listed, Waiting, Queued
<1>2. CASE heap.maps[m].listenQ # None
  <2>1. PICK q : q = heap.maps[m].listenQ
    OBVIOUS
  <2>2. InLine(q)
    BY <1>0, <1>2, <2>1 DEF QueuesHold, MapIds
  <2>3. PICK a, b : a = q.rdSeq /\ b = q.wrSeq
    OBVIOUS
  <2>4. a \in Nat /\ b \in Nat /\ a <= b /\ b <= a + Backlog /\ Backlog \in Nat
    BY <2>2, <2>3, InLineNumbers
  <2>5. PICK w : w = Waiting(m)
    OBVIOUS
  <2>6. w = [i \in 1 .. b - a |-> Item(q, a + i - 1)]
    BY <1>2, <2>1, <2>3, <2>5, SameQueues DEF Waiting, Item
  <2>7. Queued(heap, m) = {Item(q, s) : s \in a .. b - 1}
    BY <1>2, <2>1, <2>3 DEF Queued, Items
  <2>8. /\ \A s \in a .. b - 1 : Item(q, s) \in Nat
        /\ \A s, t \in a .. b - 1 : s < t => Item(q, s) < Item(q, t)
    BY <2>2, <2>3 DEF InLine, Items
  <2>9. /\ \A i \in 1 .. b - a : a + i - 1 \in a .. b - 1
        /\ \A s \in a .. b - 1 : s - a + 1 \in 1 .. b - a /\ a + (s - a + 1) - 1 = s
    BY <2>4
  <2>10. DOMAIN w = 1 .. b - a /\ 1 .. b - a \subseteq 1 .. Backlog
    BY <2>4, <2>6
  <2>11. \A i \in DOMAIN w : w[i] = Item(q, a + i - 1) /\ w[i] \in Queued(heap, m)
    BY <2>6, <2>7, <2>9
  <2>12. ASSUME NEW i \in DOMAIN w, NEW j \in DOMAIN w, i < j PROVE w[i] # w[j]
    <3>1. PICK s \in a .. b - 1 : s = a + i - 1
      BY <2>9, <2>10
    <3>2. PICK t \in a .. b - 1 : t = a + j - 1
      BY <2>9, <2>10
    <3>3. s < t
      BY <2>4, <2>10, <2>12, <3>1, <3>2
    <3>4. w[i] = Item(q, s) /\ w[j] = Item(q, t)
      BY <2>11, <3>1, <3>2
    <3> QED
      BY <2>8, <3>3, <3>4
  <2>13. ASSUME NEW i \in DOMAIN w, NEW j \in DOMAIN w, w[i] = w[j] PROVE i = j
    <3>1. i < j \/ j < i \/ i = j
      BY <2>4, <2>10
    <3> QED
      BY <2>12, <2>13, <3>1
  <2>14. ASSUME NEW y \in Queued(heap, m) PROVE \E i \in DOMAIN w : w[i] = y
    <3>1. PICK s \in a .. b - 1 : y = Item(q, s)
      BY <2>7
    <3>2. PICK i \in DOMAIN w : i = s - a + 1 /\ a + i - 1 = s
      BY <2>9, <2>10
    <3> QED
      BY <2>11, <3>1, <3>2
  <2> QED
    BY <2>5, <2>10, <2>11, <2>13, <2>14 DEF Listed
<1> QED
  BY <1>1, <1>2

\* Whoever is accepted came before all that still wait at the same address,
\* whatever fails and however often a socket listens.
THEOREM SocketsAcceptOldest == Spec => AcceptsOldest
<1> DEFINE InOrder(m) ==
      \A x \in held' \ held : \A i \in DOMAIN Waiting(m) :
        x \in {Waiting(m)[j] : j \in DOMAIN Waiting(m)} => x <= Waiting(m)[i]
<1>1. ASSUME SocketsInv, NEW m \in MapIds, NEW x \in held' \ held,
             x \in Queued(heap, m) => Oldest(x, Queued(heap, m))
      PROVE  \A i \in DOMAIN Waiting(m) :
               x \in {Waiting(m)[j] : j \in DOMAIN Waiting(m)} => x <= Waiting(m)[i]
  <2>1. Listed(m)
    BY <1>1, WaitingListed
  <2> QED
    BY <1>1, <2>1 DEF Listed, Oldest
<1>2. ASSUME SocketsInv, Next, NEW m \in MapIds, NEW x \in held' \ held
      PROVE  x \in Queued(heap, m) => Oldest(x, Queued(heap, m))
  <2>0. QueuesHold(heap, held) /\ heap \in Heaps
    BY <1>2, InvFacts
  <2>1. CASE Socket
    <3>1. x = Len(heap.socks) + 1
      BY <1>2, <2>1 DEF Socket
    <3>2. DOMAIN heap.socks = 1 .. Len(heap.socks) /\ Len(heap.socks) \in Nat
      BY <2>0, HeapFields
    <3>3. Queued(heap, m) \subseteq DOMAIN heap.socks
      BY <2>0 DEF QueuesHold, MapIds
    <3>4. x \notin DOMAIN heap.socks
      BY <3>1, <3>2
    <3> QED
      BY <3>3, <3>4
  <2>2. ASSUME NEW y \in held, Accept(y) PROVE x \in Queued(heap, m) => Oldest(x, Queued(heap, m))
    <3>1. PICK G : G = held'
      OBVIOUS
    <3>2. PICK p : p = heap'
      OBVIOUS
    <3>3. Accepted(y, p, G)
      BY <1>2, <2>2, <3>1, <3>2, AcceptTakes
    <3>4. PICK n, q, o, b :
            /\ n = heap.socks[y].la /\ q = heap.maps[n].listenQ /\ q # None /\ InLine(q)
            /\ QueueSet(heap, p, n, b) /\ InLine(b) /\ Items(b) = Items(q) \ {o}
            /\ G = held \cup {o} /\ Oldest(o, Items(q))
      BY <3>3 DEF Accepted
    <3>5. x = o
      BY <3>1, <3>4
    <3>6. Queued(heap, n) = Items(q)
      BY <3>4 DEF Queued
    <3>7. m # n => Queued(heap, m) \cap Queued(heap, n) = {}
      BY <1>2, <2>2, <3>4, ListenerFacts DEF Accept, MapIds
    <3>8. Oldest(x, Queued(heap, n)) /\ x \in Queued(heap, n)
      BY <3>4, <3>5, <3>6 DEF Oldest
    <3> QED
      BY <3>7, <3>8
  <2>3. CASE held' \subseteq held
    BY <1>2, <2>3
  <2>4. \/ Socket \/ (\E y \in held : Accept(y)) \/ held' \subseteq held
    BY <1>2 DEF Next, Connect, Bind, Listen, Close, RxDat
  <2> QED
    BY <2>1, <2>2, <2>3, <2>4
<1>3. SocketsInv /\ [Next]_vars => [\A m \in MapIds : InOrder(m)]_vars
  <2> SUFFICES ASSUME SocketsInv, Next PROVE \A m \in MapIds : InOrder(m)
    OBVIOUS
  <2> QED
    BY <1>1, <1>2
<1> QED
  BY <1>3, SocketsInvariant, PTL DEF Spec, AcceptsOldest

\* No connection is shared or lost, and no socket is lost: a socket that is not
\* held waits in one place.
THEOREM OneOwnerEach == ASSUME Usual, ListensOnce PROVE Spec => []EachHasOneOwner
<1>1. ASSUME SocketsInv PROVE EachHasOneOwner
  <2> SUFFICES ASSUME Running
               PROVE  /\ \A c \in LiveConns : Cardinality(Users(c)) = 1
                      /\ \A x \in LiveSocks :
                           Cardinality(Places(x)) = IF x \in held THEN 0 ELSE 1
    BY DEF EachHasOneOwner
  <2>0. Agree(heap) /\ QueuesHold(heap, held) /\ LiveSocks = Live(heap)
    BY <1>1, AgreesRunning, InvFacts DEF LiveSocks, Live, SockIds
  <2>1. AllHomed(heap, held)
    BY <1>1 DEF SocketsInv, Usual, Running
  <2>2. ASSUME NEW c \in LiveConns PROVE Cardinality(Users(c)) = 1
    <3>1. PICK x \in Live(heap) : c \in Ends(heap.socks[x])
      BY <2>0, <2>2 DEF Agree, OneOwner, LiveConns, ConnIds
    <3>2. c # None
      BY <3>1 DEF Ends
    <3>3. \A y \in Live(heap) : c \in Ends(heap.socks[y]) => y = x
      BY <2>0, <3>1 DEF Agree, OneOwner
    <3>4. Users(c) = {x}
      BY <2>0, <3>1, <3>2, <3>3 DEF Users, Ends
    <3> QED
      BY <3>4, FS_Singleton
  <2>3. ASSUME NEW m \in MapIds PROVE Listed(m)
    BY <1>1, <2>3, WaitingListed
  <2>4. ASSUME NEW x \in LiveSocks, x \in held PROVE Cardinality(Places(x)) = 0
    <3>1. \A m \in MapIds : x \notin Queued(heap, m)
      BY <2>0, <2>4 DEF QueuesHold, MapIds
    <3>2. Places(x) = {}
      BY <2>3, <3>1 DEF Places, Listed
    <3> QED
      BY <3>2, FS_EmptySet
  <2>5. ASSUME NEW x \in LiveSocks, x \notin held PROVE Cardinality(Places(x)) = 1
    <3>1. PICK m \in MapIds : x \in Queued(heap, m)
      BY <2>0, <2>1, <2>5 DEF AllHomed, MapIds
    <3>2. \A n \in MapIds : x \in Queued(heap, n) => n = m
      BY <2>0, <3>1 DEF QueuesHold, MapIds
    <3>3. PICK i \in DOMAIN Waiting(m) : Waiting(m)[i] = x
      BY <2>3, <3>1 DEF Listed
    <3>4. \A j \in DOMAIN Waiting(m) : Waiting(m)[j] = x => j = i
      BY <2>3, <3>1, <3>3 DEF Listed
    <3>5. \A n \in MapIds : \A j \in DOMAIN Waiting(n) :
            Waiting(n)[j] = x => n = m /\ j = i
      BY <2>3, <3>2, <3>4 DEF Listed
    <3>6. i \in 1 .. Backlog
      BY <2>3, <3>1, <3>3 DEF Listed
    <3>7. Places(x) = {<<m, i>>}
      <4>1. <<m, i>> \in Places(x)
        BY <3>1, <3>3, <3>6 DEF Places
      <4>2. ASSUME NEW p \in Places(x) PROVE p = <<m, i>>
        <5>1. /\ p \in MapIds \X (1 .. Backlog) /\ p[2] \in DOMAIN Waiting(p[1])
              /\ Waiting(p[1])[p[2]] = x
          BY <4>2 DEF Places
        <5>2. PICK n \in MapIds, j \in 1 .. Backlog : p = <<n, j>>
          BY <5>1
        <5>3. n = m /\ j = i
          BY <3>5, <5>1, <5>2
        <5> QED
          BY <5>2, <5>3
      <4> QED
        BY <4>1, <4>2
    <3> QED
      BY <3>7, FS_Singleton
  <2> QED
    BY <2>2, <2>4, <2>5
<1> QED
  BY <1>1, SocketsInvariant, PTL
=============================================================================
