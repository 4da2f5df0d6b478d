------------------------------ MODULE Sockets ------------------------------
(***************************************************************************)
(* The sockets of one process: etcpSockApi.c on the tables of              *)
(* etcpState.c, and the look-ups of etcp.c that find a packet's            *)
(* connection.  It owns one hash table of destinations, a hash table of    *)
(* sources for each of them, and a circular queue of sockets not yet       *)
(* accepted for each listening one.                                        *)
(*                                                                         *)
(* heap is everything the process allocated, an object per index; frees    *)
(* counts how often it was freed, so that a pointer left behind shows.     *)
(* Objects that nothing refers to when the call returns are leaks, and     *)
(* left out: the sources of a bind or connect that failed, a listening     *)
(* queue that was replaced.                                                *)
(*                                                                         *)
(* What the windows of a connection hold is the subject of Flow.           *)
(***************************************************************************)
EXTENDS Integers, Sequences, FiniteSets

CONSTANTS
  Addrs,        \* addresses with their ports
  DstBucket,    \* their buckets in a table of destinations (2^17 buckets)
  SrcBucket,    \* and in one of sources (2^10)
  Low32,        \* what 32 bits keep of an address
  None,         \* NULL
  Backlog,      \* 2^backlogLog2 of etcpListen
  Binds,        \* the addresses the application binds
  Connects,     \* the flows it connects, [src, dst]
  Flows,        \* the flows peers send data on
  NoRet,        \* whether the packets of a flow refuse a return path
  BindFails,    \* the allocation that fails in a call, "none" when none does:
  ConnectFails, \*   "map" the sources, "dst" their entry,
  AcceptFails,  \*   "sock" the socket, "conn" the connection, "src" its entry
  ReturnFails,  \*   "queue" the listening queue
  ListenFails,
  MaxSocks,     \* bound on the sockets the application makes
  MaxListens,   \* bound on the etcpListen calls of a socket
  MaxFails,     \* bound on the calls in which an allocation fails
  MaxCloses,    \* bound on the etcpClose calls
  CloseIsLast   \* whether etcpClose is the last call of the process

ASSUME BucketsAssumption == {DstBucket, SrcBucket} \subseteq [Addrs -> Nat]
ASSUME Low32Assumption == Low32 \in [Addrs -> Addrs]
ASSUME NoRetAssumption == NoRet \in [Flows -> BOOLEAN]
ASSUME BacklogAssumption == Backlog \in Nat \ {0}
ASSUME BindsAssumption == Binds \subseteq Addrs
ASSUME FlowsAssumption == Flows \cup Connects \subseteq [src : Addrs, dst : Addrs]

PointerSize == 8

Dst == INSTANCE HashTable WITH Keys <- Addrs, Bucket <- DstBucket, NoValue <- None
Src == INSTANCE HashTable WITH Keys <- Addrs, Bucket <- SrcBucket, NoValue <- None
LQ  == INSTANCE CircularQueue WITH
         SlotCount <- Backlog, SlotDataSize <- PointerSize, Zeroed <- None

\* NULL is not a pointer to an object, nor to a queue.
ASSUME NoneAssumption ==
  None \notin Nat /\ None \notin LQ!QueueType({None} \cup Nat)

VARIABLES
  heap,    \* [dstMap, maps, conns, socks]
  held,    \* the sockets the application has
  listens, \* the sources of each etcpListen call
  fails, closes

vars == <<heap, held, listens, fails, closes>>

Reverse(f) == [src |-> f.dst, dst |-> f.src]

-----------------------------------------------------------------------------
(* Making and freeing                                                      *)

\* etcpLAMap_t
srcsMapNew == [table |-> Src!htNew, listenQ |-> None, frees |-> 0]

\* etcpConn_t, with its three queues.  The flow is what the packets of the
\* connection carry; its source went through a uint32_t parameter.
etcpConnNew(f) == [flow |-> [src |-> Low32[f.src], dst |-> f.dst], frees |-> 0]

\* Seeded fault: a socket that is not zeroed.
etcpSocketNewRaw == [type |-> "UK", la |-> -1, send |-> None, recv |-> None, frees |-> 0]

\* etcpSocket_t
etcpSocketNew == [type |-> "UK", la |-> None, send |-> None, recv |-> None, frees |-> 0]

ConnsFreed(h, C) ==
  [h EXCEPT !.conns = [c \in DOMAIN h.conns |->
      IF c \in C THEN [h.conns[c] EXCEPT !.frees = @ + 1] ELSE h.conns[c]]]

etcpConnDelete(h, c) == ConnsFreed(h, {c} \ {None})

\* The queue, the table and every connection in it.  The structure itself
\* stays, and with it the entry of the destination.
srcsMapDelete(h, m) ==
  ConnsFreed([h EXCEPT !.maps[m].frees = @ + 1], Src!Payload(h.maps[m].table))

etcpSockeDelete(h, x) ==
  LET s == h.socks[x]
      g == CASE s.type = "SR" -> etcpConnDelete(etcpConnDelete(h, s.send), s.recv)
             [] s.type = "LA" -> srcsMapDelete(h, s.la)
             [] s.type = "UK" -> h
  IN [g EXCEPT !.socks[x].frees = @ + 1]

-----------------------------------------------------------------------------
(* Finding a packet's connection                                           *)

Sources(h, a) == Dst!htGet(h.dstMap, a)

ConnOf(h, dst, src) ==
  IF Sources(h, dst) = None THEN None
  ELSE Src!htGet(h.maps[Sources(h, dst)].table, src)

\* etcpOnRxDat and etcpOnRxAck: an acknowledgement travels against the flow
\* it is about.
DatConn(h, f) == ConnOf(h, f.dst, f.src)
AckConn(h, f) == ConnOf(h, f.src, f.dst)

-----------------------------------------------------------------------------
(* Adding a connection: each operator returns the heap and the code        *)

Result(h, e) == [heap |-> h, err |-> e]

\* The sources of the destination, made when it has none
SourcesOrNew(h, dst) ==
  IF Sources(h, dst) # None THEN Sources(h, dst) ELSE Len(h.maps) + 1

WithSources(h, dst) ==
  IF Sources(h, dst) # None THEN h
  ELSE [h EXCEPT !.maps = Append(@, srcsMapNew),
                 !.dstMap = Dst!htAddNew(@, dst, Len(h.maps) + 1, TRUE)]

\* Seeded fault: the other end of the socket is set.
InOtherEnd(h, x, c, isSender) ==
  IF isSender THEN [h EXCEPT !.socks[x].recv = c] ELSE [h EXCEPT !.socks[x].send = c]

InSocket(h, x, c, isSender) ==
  IF isSender THEN [h EXCEPT !.socks[x].send = c] ELSE [h EXCEPT !.socks[x].recv = c]

\* Seeded fault: the key of the destination again.
SrcKeyOfDst(f) == f.dst

SrcKey(f) == f.src

\* Seeded fault: the socket keeps the connection that could not be mapped.
UnmappedInSocket(h, x, c, isSender) == InSocket(etcpConnDelete(h, c), x, c, isSender)

\* "Clean up the mess": the connection goes, the sources stay.
Unmapped(h, x, c, isSender) == etcpConnDelete(h, c)

\* A new connection under its source in sources m, and in the socket.  A source
\* that has one already, or no memory for the entry, takes it down again.
Mapped(h, m, x, f, isSender, fail) ==
  LET c == Len(h.conns) + 1
      mem == fail # "src"
      g == [h EXCEPT !.conns = Append(@, etcpConnNew(f)),
                     !.maps[m].table = Src!htAddNew(@, SrcKey(f), c, mem)]
  IN IF Src!htAddNewErr(h.maps[m].table, SrcKey(f), mem) = "htENOERR"
       THEN Result(InSocket(g, x, c, isSender), "etcpENOERR")
       ELSE Result(Unmapped(g, x, c, isSender), "etcpEALREADY")

addConnMapping(h, x, f, isSender, fail) ==
  IF Sources(h, f.dst) = None /\ fail \in {"map", "dst"}
    THEN Result(h, IF fail = "map" THEN "etcpENOMEM" ELSE "etcpENOTCONN")
  ELSE IF fail = "conn" THEN Result(WithSources(h, f.dst), "etcpENOMEM")
  ELSE Mapped(WithSources(h, f.dst), SourcesOrNew(h, f.dst), x, f, isSender, fail)

-----------------------------------------------------------------------------
(* A packet of a flow without a connection                                 *)

\* The socket goes into the slot that cqGetNextWr handed out; the commit of
\* such a slot does not fail.
Enqueued(h, m, x) ==
  LET q == h.maps[m].listenQ IN
  [h EXCEPT !.maps[m].listenQ =
     LQ!cqCommitSlot([q EXCEPT !.buff[LQ!Idx(q.wrSeq)] = x], q.wrSeq, PointerSize)]

\* Seeded fault: the return path fails without taking the socket down.
acceptSockKept(h, m, f, fail, retFail) ==
  LET x == Len(h.socks) + 1
      g == [h EXCEPT !.socks = Append(@, [etcpSocketNew EXCEPT !.type = "SR"])]
      r == addConnMapping(g, x, f, FALSE, fail)
  IN IF r.err # "etcpENOERR" THEN r
     ELSE Result(Enqueued(r.heap, m, x), "etcpENOERR")

\* The accept socket of flow f.  The return path is made when the packet says
\* that none is wanted: requireReturn is tested the wrong way round.  When it
\* fails the receiving connection is taken down, and again with the socket.
acceptSock(h, m, f, fail, retFail) ==
  LET x == Len(h.socks) + 1
      g == [h EXCEPT !.socks = Append(@, [etcpSocketNew EXCEPT !.type = "SR"])]
      r == addConnMapping(g, x, f, FALSE, fail)
      b == IF NoRet[f] THEN addConnMapping(r.heap, x, Reverse(f), TRUE, retFail) ELSE r
  IN IF r.err # "etcpENOERR" THEN Result(etcpSockeDelete(r.heap, x), r.err)
     ELSE IF b.err # "etcpENOERR" THEN
       Result(etcpSockeDelete(etcpConnDelete(b.heap, b.heap.socks[x].recv), x), b.err)
     ELSE Result(Enqueued(b.heap, m, x), "etcpENOERR")

\* Seeded fault: the connection is mapped before a slot is looked for.
addNewConnFirst(h, m, f, fail, retFail) ==
  IF h.maps[m].listenQ = None THEN Result(h, "etcpEHTERR")
  ELSE IF fail = "sock" THEN Result(h, "etcpENOMEM")
  ELSE acceptSock(h, m, f, fail, retFail)

addNewConn(h, m, f, fail, retFail) ==
  IF h.maps[m].listenQ = None THEN Result(h, "etcpEHTERR")
  ELSE IF LQ!cqGetNextWrErr(h.maps[m].listenQ) # "cqENOERR"
    THEN Result(h, "etcpEREJCONN")
  ELSE IF fail = "sock" THEN Result(h, "etcpENOMEM")
  ELSE acceptSock(h, m, f, fail, retFail)

-----------------------------------------------------------------------------
(* The process                                                             *)

Init ==
  /\ heap = [dstMap |-> Dst!htNew, maps |-> <<>>, conns |-> <<>>, socks |-> <<>>]
  /\ held = {}
  /\ listens = <<>> /\ fails = 0 /\ closes = 0

Running == ~CloseIsLast \/ closes = 0

\* A call in which fail happens
Counted(fail) ==
  IF fail = "none" THEN fails' = fails ELSE fails < MaxFails /\ fails' = fails + 1

Type(x) == heap.socks[x].type

\* etcpSocketNew
Socket ==
  /\ Running
  /\ Cardinality(held) + closes < MaxSocks
  /\ heap' = [heap EXCEPT !.socks = Append(@, etcpSocketNew)]
  /\ held' = held \cup {Len(heap.socks) + 1}
  /\ UNCHANGED <<listens, fails, closes>>

\* The codes of both mappings are dropped, the call returns etcpENOERR.
Connect(x, f, doReturn, fail, retFail) ==
  /\ Running /\ Type(x) = "UK"
  /\ LET r == addConnMapping([heap EXCEPT !.socks[x].type = "SR"], x, f, TRUE, fail)
     IN heap' = IF doReturn
                  THEN addConnMapping(r.heap, x, Reverse(f), FALSE, retFail).heap
                  ELSE r.heap
  /\ Counted(IF fail = "none" THEN retFail ELSE fail)
  /\ UNCHANGED <<held, listens, closes>>

\* Refused when there is no memory for the sources, or when the address has
\* sources already.  No memory for the entry is not looked at: the socket has
\* its sources, no packet finds them.
Bind(x, a, fail) ==
  /\ Running /\ Type(x) = "UK"
  /\ Dst!htAddNewErr(heap.dstMap, a, fail # "dst") # "htEALREADY"
  /\ heap' = [heap EXCEPT
       !.maps = Append(@, srcsMapNew),
       !.dstMap = Dst!htAddNew(@, a, Len(heap.maps) + 1, fail # "dst"),
       !.socks[x].type = "LA", !.socks[x].la = Len(heap.maps) + 1]
  /\ Counted(fail)
  /\ UNCHANGED <<held, listens, closes>>

\* The calls for sources m
ListensOn(m) == Cardinality({i \in DOMAIN listens : listens[i] = m})

\* A second call replaces the queue, and whatever is in it.
Listen(x, fail) ==
  /\ Running /\ Type(x) = "LA"
  /\ ListensOn(heap.socks[x].la) < MaxListens
  /\ heap' = [heap EXCEPT
       !.maps[heap.socks[x].la].listenQ = IF fail = "none" THEN LQ!cqNew ELSE None]
  /\ listens' = Append(listens, heap.socks[x].la)
  /\ Counted(fail)
  /\ UNCHANGED <<held, closes>>

\* doEtcpNetRx runs in etcpAccept and in etcpRecv.
Polled ==
  \E x \in held :
    \/ Type(x) = "LA" /\ heap.maps[heap.socks[x].la].listenQ # None
    \/ Type(x) = "SR" /\ heap.socks[x].recv # None

\* A packet with data: etcpOnRxDat finds the sources of its destination, but
\* not its own among them.
RxDat(f, fail, retFail) ==
  /\ Running /\ Polled
  /\ Sources(heap, f.dst) # None
  /\ DatConn(heap, f) = None
  /\ UNCHANGED <<held, listens, closes>>
  /\ Counted(IF fail = "none" THEN retFail ELSE fail)
  /\ heap' = addNewConn(heap, Sources(heap, f.dst), f, fail, retFail).heap

\* Seeded fault: the socket that came last.
NextToAcceptLast(q) == q.buff[LQ!Idx(q.wrSeq - 1)]

\* What cqPullNext copies out
NextToAccept(q) == q.buff[LQ!Idx(q.rdSeq)]

Accept(x) ==
  /\ Running /\ Type(x) = "LA"
  /\ LET q == heap.maps[heap.socks[x].la].listenQ IN
     /\ q # None
     /\ q.readable # 0
     /\ LQ!cqGetNextRdErr(q) = "cqENOERR"
     /\ held' = held \cup {NextToAccept(q)}
     /\ heap' = [heap EXCEPT !.maps[heap.socks[x].la].listenQ = LQ!cqReleaseSlot(q, q.rdSeq)]
  /\ UNCHANGED <<listens, fails, closes>>

\* The connections are freed, their entries in the tables stay.
Close(x) ==
  /\ Running
  /\ closes < MaxCloses
  /\ heap' = etcpSockeDelete(heap, x)
  /\ held' = held \ {x}
  /\ closes' = closes + 1
  /\ UNCHANGED <<listens, fails>>

Next ==
  \/ Socket
  \/ \E x \in held, f \in Connects, doReturn \in BOOLEAN,
        fail \in ConnectFails, retFail \in ReturnFails :
       Connect(x, f, doReturn, fail, retFail)
  \/ \E x \in held, a \in Binds, fail \in BindFails : Bind(x, a, fail)
  \/ \E x \in held, fail \in ListenFails : Listen(x, fail)
  \/ \E x \in held : Accept(x) \/ Close(x)
  \/ \E f \in Flows, fail \in AcceptFails, retFail \in ReturnFails :
       RxDat(f, fail, retFail)

Spec == Init /\ [][Next]_vars

\* When the first packet of flow f makes a socket, if memory is there
Due(f) ==
  /\ Running /\ Polled
  /\ Sources(heap, f.dst) # None
  /\ DatConn(heap, f) = None
  /\ LET q == heap.maps[Sources(heap, f.dst)].listenQ
     IN q # None /\ LQ!cqGetNextWrErr(q) = "cqENOERR"

\* Peers send their first packet again until it is acknowledged, so that while
\* any is due some such packet comes in the end; and the application polls
\* and accepts (the loop of test.c:81).  The first conjunct
\* is weak fairness of RxDat with Due for its ENABLED, which TLC is slow to
\* work out.
Fairness ==
  /\ <>[](\E f \in Flows : Due(f)) =>
       []<><<\E f \in Flows : RxDat(f, "none", "none")>>_vars
  /\ WF_vars(\E x \in held : Accept(x))

FairSpec == Spec /\ Fairness

-----------------------------------------------------------------------------
(* Properties                                                              *)

ConnIds == DOMAIN heap.conns
SockIds == DOMAIN heap.socks
MapIds  == DOMAIN heap.maps

LiveConns == {c \in ConnIds : heap.conns[c].frees = 0}
LiveSocks == {x \in SockIds : heap.socks[x].frees = 0}

\* The sockets in the queue of sources m, oldest first
Waiting(m) ==
  LET q == heap.maps[m].listenQ IN
  IF q = None THEN <<>> ELSE [i \in 1 .. q.wrSeq - q.rdSeq |-> q.buff[LQ!Idx(q.rdSeq + i - 1)]]

\* Every pointer is to an object of the right kind.
TypeOK ==
  /\ \A a \in Addrs : Sources(heap, a) \in MapIds \cup {None}
  /\ \A m \in MapIds : \A a \in Addrs :
       Src!htGet(heap.maps[m].table, a) \in ConnIds \cup {None}
  /\ \A x \in SockIds :
       /\ heap.socks[x].type \in {"UK", "LA", "SR"}
       /\ heap.socks[x].la \in MapIds \cup {None}
       /\ {heap.socks[x].send, heap.socks[x].recv} \subseteq ConnIds \cup {None}
  /\ held \subseteq LiveSocks

\* "By this point, the connection structure should be properly populated one
\* way or antoher" (etcp.c:84): a connection that a packet finds is there, in
\* sources that are there, is of the packet's flow, and is the end of a
\* socket the packet is meant for: data for a receiver, acknowledgements for
\* a sender.  The tables, the connections and the sockets are three copies of
\* who talks to whom, and only agree if every call keeps them so.
FoundIsMeant ==
  Running /\ Polled => \A f \in [src : Addrs, dst : Addrs] :
    /\ DatConn(heap, f) # None =>
         /\ heap.maps[Sources(heap, f.dst)].frees = 0
         /\ heap.conns[DatConn(heap, f)] = [flow |-> f, frees |-> 0]
    /\ (f \in Flows \/ Reverse(f) \in Connects) /\ DatConn(heap, f) # None =>
         \E x \in LiveSocks : heap.socks[x].recv = DatConn(heap, f)
    /\ Reverse(f) \in Connects /\ AckConn(heap, f) # None =>
         \E x \in LiveSocks : heap.socks[x].send = AckConn(heap, f)

\* The other way round: whatever a socket has is what the packets of its
\* peer find.  A socket without this is deaf and nobody is told.
EndsAreReached ==
  Running => \A x \in LiveSocks :
    /\ heap.socks[x].recv # None =>
         DatConn(heap, heap.conns[heap.socks[x].recv].flow) = heap.socks[x].recv
    /\ heap.socks[x].send # None =>
         AckConn(heap, Reverse(heap.conns[heap.socks[x].send].flow)) = heap.socks[x].send

\* Nothing is freed twice: not by the clean-up of a failed accept, which
\* frees what it made step by step, not by a listening socket, which frees
\* every connection in its table.
FreedOnce ==
  /\ \A c \in ConnIds : heap.conns[c].frees <= 1
  /\ \A m \in MapIds : heap.maps[m].frees <= 1
  /\ \A x \in SockIds : heap.socks[x].frees <= 1

\* Where socket x waits: the sources, and the position in their queue
Places(x) ==
  {p \in MapIds \X (1 .. Backlog) :
    p[2] \in DOMAIN Waiting(p[1]) /\ Waiting(p[1])[p[2]] = x}

\* The sockets that have connection c
Users(c) == {x \in LiveSocks : c \in {heap.socks[x].send, heap.socks[x].recv}}

\* No connection is shared by two sockets or lost to all, and no socket made
\* for a peer is lost: the application has it, or it waits, once, to be
\* accepted.
EachHasOneOwner ==
  Running =>
    /\ \A c \in LiveConns : Cardinality(Users(c)) = 1
    /\ \A x \in LiveSocks : Cardinality(Places(x)) = IF x \in held THEN 0 ELSE 1

\* Sockets are accepted in the order in which the first packets came in.
\* Objects are numbered as they are made.
AcceptsOldest ==
  [][\A m \in MapIds : \A x \in held' \ held : \A i \in DOMAIN Waiting(m) :
       x \in {Waiting(m)[j] : j \in DOMAIN Waiting(m)} => x <= Waiting(m)[i]]_vars

\* The application listens for data on flow f.
Listening(f) ==
  \E x \in held : /\ Type(x) = "LA"
                  /\ heap.socks[x].la = Sources(heap, f.dst)
                  /\ heap.maps[heap.socks[x].la].listenQ # None

Connected(f) == \E x \in held : /\ heap.socks[x].recv # None
                                /\ heap.conns[heap.socks[x].recv].flow = f

\* Whoever keeps sending to an address the application listens on is accepted
\* in the end: a first packet that came when the queue was full, or when
\* memory ran out, leaves nothing behind that would keep the next ones out.
EverySourceAccepted ==
  \A f \in Flows : Listening(f) ~> (Connected(f) \/ closes > 0)

\* "Etcp does not have a connection setup phase, so you can immediately
\* send/recv directly on this socket" (etcpSockApi.c:215): a socket that
\* sends and receives has an end to do it with.
ReadyToUse ==
  \A x \in held : Type(x) = "SR" => heap.socks[x].send # None \/ heap.socks[x].recv # None

\* "Only make a return connection if it is desired" (etcpSockApi.c:505): of
\* the accepted sockets those can send whose peer did not refuse it.
ReturnWhenDesired ==
  \A x \in LiveSocks, f \in Flows \ Connects :
    heap.socks[x].recv # None /\ heap.conns[heap.socks[x].recv].flow = f =>
      (heap.socks[x].send # None <=> ~NoRet[f])

\* "Set the socket to have an inbound address" (etcpSockApi.c:238): packets
\* to the address of a bound socket find its sources.
BoundIsFound ==
  Running => \A x \in held : Type(x) = "LA" =>
    \E a \in Binds : Sources(heap, a) = heap.socks[x].la
=============================================================================
