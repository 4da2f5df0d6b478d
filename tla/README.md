# ETCP: models and proofs

ETCP is a transport protocol over Ethernet in user space (`../src/README.md`). A library keeps
connections, packets and acknowledgements in circular queues; the application decides, in two
callbacks, when to acknowledge and when to transmit. This directory holds TLA+ modules translated
from that code, TLC configurations that check them on small instances, and proofs about the queue
everything rests on, one direction of a connection, the bytes it carries, the hash table that
finds connections and the sockets that own them. Line numbers below are those of `src/` in the repository.

## 1. Inventory

| part | state | operations | hard because | correct when |
|---|---|---|---|---|
| circular queue, `CircularQueue.c` | cursors `rdSeq`, `wrSeq`, six copies and counters that callers read, slots with `valid`, `len`, data | `cqPush`, `cqCommitSlot`, `cqPull`, `cqReleaseSlot`, `cqGet*`; `cqAdvWrSeq`, `cqAdvRdSeq` inside | written and released out of order, cursors that jump over runs, slots shared by numbers a window apart, copies updated in two places | it is a window of sequence numbers; copies and counters agree with the cursors; no panic |
| stale list, `LinkedList.c` | packets in order of number | `llPushSeqOrd`, `llGetFirst`, `llGetNext`, `llReleaseHead` | duplicates, unbounded growth | ordered; each entry answered and removed |
| acknowledgement generation, `etcp.c:423-767` | `seqAck` of the connection, `ackSent` of each packet, the packet under construction | `generateAcks`, `generateStaleAcks`, `pushSackEthPacket` | several packets per pass, a full queue half way, offsets relative to a moving base | only what was received is acknowledged, in order; nothing marked is lost |
| transmission, `etcp.c:770`, `test.c:161` | `txState`, `txAttempts` of each packet | `etcpTxTc`, `doEtcpNetTx` | hardware errors half way, retries, holes left by acknowledgements | what is marked is sent or ready again; gives up in the end |
| reception, `etcp.c:37-382`, `883` | the receive window, the transmit window | `doEtcpNetRx`, `etcpOnRxEthernetFrame`, `etcpOnRxPacket`, `etcpOnRxDat`, `etcpOnRxAck` | loss, duplicates, reordering, late acknowledgements, a window that is full | each number stored once; an acknowledgement releases what it names and nothing else |
| user data, `etcp.c:345-420`, `883-1079` | slots and their lengths, the frame buffer, `seqSnd` | `doEtcpUserRx`, `doEtcpUserTx` | segmentation, short buffers, lengths counted in four places, slots used again | the bytes sent arrive, once, in order, complete; no buffer is overrun |
| sockets, `etcpSockApi.c` with `etcpState.c`, `etcpConn.c` | sockets, `dstMap` of destinations, a table of connections each, `listenQ` | `etcpConnect`, `etcpBind`, `etcpListen`, `etcpAccept`, `etcpSend`, `etcpRecv`, `etcpClose`, `addNewConn`, `addConnMapping`, `remConnMapping` | failure paths, connections made by packets, objects freed while a table holds them | tables, connections and sockets agree; each object has one owner and is freed once; every peer is accepted |
| hash table, `HashTable.c` | chains of entries | `htAddNew`, `htGet`, `htRem`, `htDelete` | collisions, removal in a chain | it is a map |
| hash function, debug output, types, unit tests | | | | not modelled: pure functions, logging |

How they interact: the application calls `etcpSend` and `etcpRecv` in a loop. `etcpSend` cuts data
into packets in the send connection's `txQ`, runs the transmission callback, then sends the
acknowledgements waiting in the receive connection's `txQ` and the packets in the send
connection's. `etcpRecv` empties the network card's ring through the parser into the connections'
`rxQ` (data) or applies it to their `txQ` (acknowledgements), runs the reception callback,
generates acknowledgements into `txQ`, and hands one acknowledged packet to the application. Each
process is a single thread, so that the concurrency is between the two ends and the network.
`PROJECT.json` lists under "hazards" what is hard to test, line by line.

## 2. Modules

| module | models | notes |
|---|---|---|
| `CircularQueue` | `CircularQueue.c` | operators only: `cqX(q, ...)` is the queue a call leaves, `cqXErr` the code it returns |
| `QueueCalls` | one queue, every call at every number | `Spec`; `TypeOK`, `WindowInv`, `ReadLoopSafe` |
| `QueueUses` | the queue in its three uses | `UsesSpec`; receive window, transmit window, first in first out |
| `SeqWindow`, `QueueRefinesWindow` | what a queue promises, and that it keeps it | `Put` and `Drop` on a window of numbers |
| `AckGeneration` | `generateAcks`, `generateStaleAcks`, the stale list | one operator per iteration of a loop |
| `Iteration` | a loop over the elements of a sequence | the state after each iteration, for `TxControl`, `AckGeneration`, `Flow`, `UserData` |
| `TxControl` | `etcpTxTc`, `doEtcpNetTx` | the hardware's answers are an argument |
| `Flow` | client, server and wire | composes the three above; one action per call |
| `Transfer`, `FlowRefinesTransfer` | what a connection promises, and that it keeps it | `Send`, `Accept`, `HandOver`, `Forget` |
| `HashTable` | `HashTable.c` | operators only, like `CircularQueue` |
| `HashCalls` | one hash table, every call | `Spec`; `FoundStays`, `ImplementsMap` |
| `KeyMap` | what a hash table promises | a map; refined by `HashCalls` for keys without collision |
| `Sockets` | `etcpSockApi.c`, `etcpState.c`, `etcpConn.c`, the look-ups of `etcp.c` | two instances of `HashTable` and one of `CircularQueue`; one action per call of the application, one for the first packet of a flow |
| `UserData` | the bytes: `doEtcpUserTx`, `etcpMkEthPkt`, the parser, `doEtcpUserRx` | on `CircularQueue`, with the code's sizes |
| `QueueLemmas`, `QueueProofs` | proofs: the queue | section 6 |
| `IterationProofs`, `FlowLemmas`, `FlowProofs` | proofs: loops, the calls of each side, the connection | |
| `UserDataProofs`, `HashProofs`, `SocketsProofs` | proofs: the bytes, the hash table, the sockets | |
| `MCQueue`, `MCQueueUses`, `MCFlow`, `MCHash`, `MCSockets`, `MCUserData` | instances for TLC | |

`Sockets` finds connections and says who owns them, `Flow` says what a connection's windows do with
packets, `UserData` what is in the packets. The first ends where a packet's connection is found,
and the second begins there.

Definitions keep the code's names where they stand for a function (`cqCommitSlot`, `generateAcks`,
`doEtcpNetTx`, `etcpOnRxDat` ...). Operators marked "Seeded fault" are what the definition after
them must not be; no specification uses them. They are there to confirm that the properties notice.

### The queue

A queue is a record with the fields of `cq_t` that something reads (`rdRng` and `wrRng` are not).
The scans of the cursors are first-stop expressions: `RdScanEnd` is the first number from `rdSeq`
where `cqAdvRdSeq` leaves its loop. The counters change by one per call, as in the code, however
far a cursor moves. Sequence numbers are naturals, `SlotCount` any positive number; the code's
mask is the remainder for powers of two. A slot's data is `Prefix(d, n)`, the first n bytes of
payload d, so that truncation is visible.

### The connection

`snd` is the client's send connection, `rcv` the server's receive connection; the two others carry
nothing in this direction. `call` says where the server's `etcpRecv` stands: its receive loop takes
one frame per step, so that the client's steps interleave with it. Every other call is one step,
which is what a single thread's call looks like from the wire. `Transmit` is the callback and
`doEtcpNetTx` together, as `etcpSend` runs them.

The wire is a set of frames: it reorders by nature, loses with `Lossy`, repeats with `Duplicating`
and delivers the lowest number first with `InOrder`. Time is not modelled: `Late` is the set of
packets whose timeout may be over, and with `Premature` false only packets that neither travel nor
have an answer travelling are among them.

Two parameters say what the parser finds. `DatHeaderFound` and `AckHeaderSized` are FALSE in the
code as it stands (`etcp.c:47` and `215` read fields that only the transmit path fills); with them
TRUE the headers are where the sender puts them, which is what all checks of the rest need.

`Rebased` moves the cursors of the server's acknowledgement queue down by a multiple of the slot
count and forgets what released slots held. Nothing reads either; it keeps the states finite.

### The hash table

A chain is a sequence of `[key, value]`. The positions a call compares are `Compared`: the head, and
then each entry that has a successor, for the loops of `htAddNew`, `htGet` and `htRem` end at the
last entry without looking at it. `Without` links the head to what follows the removed entry, as
`prev` never moves. `Bucket` is any function of the keys.

### The sockets

`heap` holds what the process allocated, an object per index: `maps` (a destination's sources),
`conns`, `socks`, with `dstMap` in front. Freeing counts in `frees`, so that an object freed twice,
or found after it was freed, shows. A listening queue is a `CircularQueue` of sockets whose slots
hold a pointer. `held` are the sockets the application has. An allocation that fails is an input
of each call (`fail`, `retFail`), bounded by `MaxFails`.

`RxDat(f)` is the first packet of a flow, as far as it changes tables: `doEtcpNetRx` runs inside
`etcpAccept` and `etcpRecv` of any socket (`Polled`), and each packet is a step. Later packets of the
flow change windows only. Objects that nothing refers to at the end of a call are leaks and left
out: the sources of a bind or connect that failed, a queue that was replaced.

### The user data

The application sends a stream; a packet is the piece of it that it holds, and the lengths the code
computes. `DatSpace` and `FrameSaid` subtract the size of a pointer where the code does
(`sizeof(pBuff)` with a pointer `pBuff`), `SlotRoom` and `FrameRoom` are what is really there. `Carry`
is a frame from the transmit window to the receive window with every check of the parser; order and
loss are `Flow`'s. The sizes are those of the compiled structures: `pBuff_t` 96, `cqSlot_t` 17,
`etcpMsgHead_t` 56, `etcpMsgDatHdr_t` 16.

### Assumptions of Flow

* The connection exists on both sides and its slots hold a whole receive buffer. `test.c` uses
  smaller slots: the copy is cut, and the copy of an acknowledgement is refused (`etcp.c:268`
  commits the buffer's size), which nothing notices. `UserData` has the lengths.
* Header pointers of stored packets refer to the stored copy. In the code they point into the frame
  buffer of a `doEtcpNetRx` that has returned.
* `doEtcpUserTx` never sets `noAck`; the flag belongs to the protocol (`packets.h:46`), and
  `NoAckSeqs` says which packets have it.
* The reception callback sets no limits, as `etcpRxTc` of `test.c`.
* `AttemptLimit` is 10 in `test.c`, 1 here: what happens after the limit is the same.

## 3. Runs

| run | checks | bounds |
|---|---|---|
| `MCQueueAny` | type, window shape, read loops, refinement of `SeqWindow`, for calls at any number | 4 slots, 6 numbers, 2 payloads: numbers share slots, runs of up to 3 are jumped over |
| `MCQueueUses` | no panic, gaplessness, no skipped number, empty tail, exact counters | 4 slots, 7 numbers, lengths 8 and 9 for slots of 8: each slot is used twice, the ninth byte is cut off on first use and fits on second |
| `MCFlowNetwork` | delivery, acknowledgement, release and numbering invariants, refinement of `Transfer` | 2 slots, 3 packets in calls of up to 2, one of them without acknowledgement, a network that does everything, hardware errors on both sides |
| `MCFlowLive` | every packet acknowledged unless the sender gives up | 2 slots, 3 packets, loss and reordering |
| `MCFlowOrderly` | accepted packets are delivered; acknowledgements take effect | 2 slots, 3 packets, no loss, in order |
| `MCHash` | well-formed chains, found keys stay found, refinement of `KeyMap` | 3 keys, two of them in one bucket, 2 values: chains with a key twice, removals at head and behind it |
| `MCSockets` | tables, connections and sockets agree, nothing is freed twice, one owner each, accepts in order and in the end | 2 sockets of the application, one address to bind, one flow to connect, 3 peers against a backlog of 2, one of them without return path, the connected peer also sending; one `etcpListen` a socket (`MaxListens`); one allocation that fails in a connect, a bind or a first packet; a close as the last call |
| `MCUserData` | bytes in order, no overrun, what is reported sent is received | slots of 2136 bytes, which take the frame of the longest message on every lap; messages of 1, 128 and 1862 bytes; 4 packets in 2 slots, so that each slot is used twice |

Three packets over two slots let the window wrap: number 2 shares its slot with number 0 on both
sides, so that late acknowledgements and repeated data meet a slot in its second use. Two slots
and two sack fields are enough for an acknowledgement with a hole left by a `noAck` packet. More
slots multiply the states without a new kind of step, except for the two cases with their own
configuration (`MCFlowFullSack`, `MCFlowClaims`). `MaxStale` bounds the stale list, which the
code lets grow; a frame that would exceed it stays on the wire (`FlowAssumption`, `ServerRx`).

Every address has a bucket of its own in `MCSockets`: collisions are `MCHash`'s, and what they do to
connections is `MCSocketsCollide`. 1862 bytes are the longest message whose frame fits the frame
buffer; one more is in `MCUserDataClaims`. `test.c` uses slots of 2048 bytes; `MCUserDataSlot` shows what
happens there.

`MCQueueAny` and `MCQueueUses` set `CHECK_DEADLOCK FALSE`, for numbers end at `MaxSeq`; so do `MCHash`,
where a deleted table ends the run, `MCSockets`, where a close does, and `MCUserData`, where the bytes
sent end at `MaxPkts` and `MaxBytes`. The flows check deadlock.

### Fairness

`FairSpec` assumes that both applications keep calling: the client `etcpSend` and `etcpRecv`, the
server `etcpRecv` and `etcpSend`, as the loops of `test.c:48` and `94` do. The client's timeouts
come to an end (`CPumpLate`), and a frame of which there is always another copy on the wire is taken off the
ring in the end: strong fairness, because the receive loop runs only part of the time. Nothing is
assumed of the network; a lossy one may lose everything. The conditions `PumpHasWork`, `AckHere`,
`FrameHere`, `RecvToEnd` and `AcksToSend` are the `ENABLED` of their steps, written out because TLC
takes too long to search for it.

`MCFlowLive` allows premature timeouts: without them repeated answers to a stale packet can keep
the acknowledgement of another one from being taken in for ever, which only an unfair network does.

`Sockets` assumes that the application polls and accepts (`test.c:81`), and that peers send their
first packet again until it is answered: while one that would make a socket is due, such a packet
comes in the end. Memory may fail `MaxFails` times and works again then. `UserData` assumes
that transmissions are repeated and that the receiver keeps receiving (`test.c:48`, `90`).

## 4. What the checks show of the code

Each of these is a run that TLC ends with a counterexample, and a finding in `PROJECT.json`.

* `MCFlowAckHeader`: no acknowledgement is ever accepted (`etcp.c:215`).
* `MCFlowWedge`: a window that other calls filled is never delivered (`etcpSockApi.c:407`).
* `MCFlowReordered`: two packets in the other order count as one readable, and the second is
  stranded (`CircularQueue.c:133`, `etcpSockApi.c:422`).
* `MCFlowHwError`: a hardware error leaves the packets behind it marked `ETCP_TX_NOW`, where the
  callback stops (`etcp.c:839`, `test.c:202`).

Further configurations, kept beside these and violated in the same way (where several rows name one
configuration, TLC stops at the first property violated; `-continue` reports the others too):

| configuration | module | property | shows |
|---|---|---|---|
| `MCFlowDatHeader` | `MCFlow` | `DataHeaderValid` | `etcp.c:47` reads the data header through a pointer nobody set |
| `MCFlowFullSack` | `MCFlow` | `AckTakesEffect` | a packet with all fields used carries a `sackCount` of 0 (`etcp.c:661`, `527`) |
| `MCFlowClaims` | `MCFlow` | `SackFits` | the last packet may have one field more than `ETCP_MAX_SACKS` (`etcp.c:751`) |
| `MCFlowClaims` | `MCFlow` | `AckSentBeforeReleased` | an acknowledgement the hardware had no room for is released (`etcp.c:838`) |
| `MCFlowStale` | `MCFlow` | `StaleAnswered` | the head of the stale list is answered again and again (`etcp.c:550`) |
| `MCQueueClaims` | `MCQueueUses` | `CapacityKept` | a released slot claims its header's bytes too (`CircularQueue.c:413`) |
| `MCQueueClaims` | `MCQueueUses` | `TruncationReported` | a read cut short is not reported (`CircularQueue.c:296`) |
| `MCHashClaims` | `MCHash` | `OneEntryPerKey` | the second key of a chain is not found, and can be added again (`HashTable.c:120`, `171`) |
| `MCHashClaims` | `MCHash` | `FoundStays` | with three keys in a bucket a removal loses another key (`HashTable.c:218`) |
| `MCSocketsClose` | `MCSockets` | `FoundIsMeant`, `FreedOnce` | after `etcpClose` packets find the freed connection (`etcpSockApi.c:57`, `463`); closing a listening socket frees the connections of accepted ones again |
| `MCSocketsReturn` | `MCSockets` | `FreedOnce` | a return path that fails frees the receiving connection twice (`etcpSockApi.c:539`, `543`) |
| `MCSocketsClaims` | `MCSockets` | `EachHasOneOwner` | a second `etcpListen` loses the sockets that wait (`etcpSockApi.c:281`) |
| `MCSocketsClaims` | `MCSockets` | `EndsAreReached` | addresses are cut to 32 bits in a connection's flow (`etcpConn.c:33`) |
| `MCSocketsCollide` | `MCSockets` | `EndsAreReached` | a peer whose key shares a bucket is not found (`HashTable.c:171`) |
| `MCSocketsClaims` | `MCSockets` | `ReadyToUse` | a connect that failed reports success (`etcpSockApi.c:225`) |
| `MCSocketsClaims` | `MCSockets` | `ReturnWhenDesired` | the return path is made for those who refuse it (`etcpSockApi.c:507`) |
| `MCSocketsClaims` | `MCSockets` | `BoundIsFound` | a bind without memory for its entry reports success (`etcpSockApi.c:258`) |
| `MCUserDataLong` | `MCUserData` | `BytesInOrder` | each segment of a long message repeats its beginning (`etcp.c:1030`, `1059`) |
| `MCUserDataSlot` | `MCUserData` | `NoOverrun` | in slots of 2048 bytes, used again, a frame runs over (`CircularQueue.c:413`) |
| `MCUserDataClaims` | `MCUserData` | `NoOverrun` | a frame one byte longer than the frame buffer is taken in (`etcp.c:893`) |
| `MCUserDataClaims` | `MCUserData` | `CopyInFrame` | each packet stored copies 88 bytes from behind the frame buffer (`etcp.c:130`) |
| `MCUserDataHeader` | `MCUserData` | `BytesInOrder` | header pointers of a stored packet find a later frame (`etcp.c:132`) |
| `MCUserDataVlan` | `MCUserData` | `SentIsReceived` | tagged frames are sent with the untagged type (`etcp.c:403`) |
| `MCUserDataSmall` | `MCUserData` | `SentIsReceived` | the error of a slot that is too small is dropped (`etcp.c:1027`, `etcpSockApi.c:344`) |
| `MCUserDataClaims` | `MCUserData` | `LengthTold` | `etcpRecv` leaves the caller's length as it was (`etcp.c:956`) |

Other behaviour met while modelling: a retransmission inside the window ends the receive loop (the
"can this actually happen?" of `etcp.c:136`); after a hole in the transmit window the callback looks
no further; a queue of acknowledgements that is full loses one that is already marked as sent,
until the sender repeats the packet; acknowledgements never report packets beyond a gap, since
`generateAcks` stops at `rdMax`; a slow receiver makes the client give up without any loss.

One more came out of a proof and has no run, for its states are too many. When a field fills a
packet of acknowledgements, `generateStaleAcks` sends the packet (`etcp.c:525`) and leaves
`fieldInProgress` false; the next entry is counted by the other branch, where `expectSeqNum` is not
set to it (`etcp.c:576`), and since the head is looked at again instead of its successor
(`etcp.c:550`), one entry is counted twice. With one field a packet, a list of 0, 2, 4, 4, 4, 4 and
`rdMin` at 5 make an acknowledgement of two packets from 4: the client releases packet 5, which the
server never had. It needs a list of `2 * MaxSacks + 4` entries, 28 with the 12 of
`packets.h`. The proofs about what acknowledgements name assume a shorter one (`NamesKnown`).

## 5. Refinements

`ImplementsWindow` maps a queue to `SeqWindow`: `base` and `front` are the cursors, `held` the valid
slots by number. `ImplementsTransfer` maps a connection to `Transfer`: `sent` is `seqSnd`, `kept`
the packets in `txQ` that want an answer, `accepted` the server's `wrSeq`, `handed` the number of
messages delivered. `Forget` is the step to look at: the sender may forget a message only when the
receiver accepted it, whatever is late, lost or repeated.

`ImplementsMap` maps a hash table to `KeyMap`, for the keys that share no bucket with another:
`MapOf` takes the value at the head of their chain. For the other keys the table is not a map
(`MCHashClaims`); what is left of it there is `FoundStays`.

## 6. Proofs

Each theorem holds for every value of the constants that their assumptions allow
(`SlotCountAssumption` and the like, in the modules that declare them; TLC evaluates them in the
runs). A hypothesis beyond these is named in the theorem.

### The queue: `QueueLemmas`, `QueueProofs`

| theorem | says |
|---|---|
| `QueueInvariant` | `Spec => [](TypeOK /\ WindowInv)`, calls at any number in any order |
| `QueueTypes`, `ReadLoopsStayInWindow` | `TypeOK` and `ReadLoopSafe` follow |
| `QueueImplementsWindow` | `Spec => ImplementsWindow`, the refinement of `SeqWindow` |
| `UsesNeverPanic` | `UsesSpec => []NoPanic` |
| `UsesLeaveNoGap`, `UsesReadEveryNumber`, `UsesLeaveTailEmpty`, `UsesCountExactly` | the other properties of the three uses |

`WindowInv` is inductive together with the type. Its third part, `CursorsAtRest` (the write cursor
stands at an empty slot or at the window's end, the read cursor at a slot in use or at the write
cursor), is what makes it so: without it a scan could begin in the middle of a run and `rdMax`,
which `cqAdvRdSeq` sets to `wrMin + 1`, could lie outside the window. `QueueLemmas` first shows
that the scans end: `FirstStop` finds the least number where a scan stops (`LeastNatural`), and the
full window bounds it, since a number and the one `SlotCount` further share a slot (`IdxPeriod`)
and two numbers less than `SlotCount` apart do not (`IdxSame`). `WrScan` and `RdScan` state what the
cursors' scans return, `AdvWr` and `AdvRd` what a move does to the window, and `PushKeepsWindow`,
`CommitKeepsWindow` and `ReleaseKeepsWindow` that each call keeps it. `QueueProofs` has one step
lemma per action (`WriteStep`, `PullStep`, `ReleaseStep`); `UsesNeverPanic` adds that no use calls
below the window, where `cqPush` and `cqPull` would panic.

The uses have an invariant of their own, `UseInv`: no hole between the cursors for the uses that
release in order, nothing from the write cursor on for those that write in order, and counters
that are sizes where both hold. A cursor then moves by one, which is why counters that change by
one a call are exact. The refinement maps a write to `Put`, a release to `Drop`, and needs of each
that the valid numbers of the window change at that number only, however far a cursor jumps.

### The connection: `IterationProofs`, `FlowLemmas`, `FlowProofs`

| theorem | says | hypothesis |
|---|---|---|
| `FlowInvariant` | `Spec => []FlowInv` | |
| `FlowTypes`, `FlowDeliversInOrder`, `FlowNumbersSlots`, `FlowAcksPrefix`, `FlowSeqAckBehind` | `TypeOK`, `InOrderDelivery`, `NumberedBySlot`, `AckedPrefix`, `SeqAckBehind` | |
| `FlowAcksTruthful`, `FlowReleasesReceived` | `AcksTruthful`, `ReleasedOnlyIfReceived` | `NamesKnown` |
| `FlowImplementsTransfer` | `Spec => ImplementsTransfer` | `NamesKnown` |
| `FlowSendsAcks` | `AckSentBeforeReleased` | no answer "full" |

They hold for windows, packets of acknowledgements, messages and stale lists of any size, with a
network that loses, repeats and reorders, and with any answers of the hardware. `FlowInv` says, of
the client (`TxSide`): the transmit window is a window with nothing behind it, its packets stand in
the slots of their numbers, and `seqSnd` is its write cursor. Of the server (`RxSide`): the receive
window has no hole between its cursors and its packets stand in their slots; there is a number `b`
with all packets below it marked `ackSent` and none from it on, and `seqAck <= b`; what is queued
as an acknowledgement names packets below the window's write cursor only; the stale list holds
numbers below `rdSeq`. Of both: what the server holds was sent, what is on the wire was sent or
names what the server has, what was delivered is 0 .. `rdSeq` - 1 in order, and the client keeps
what it sent, unless it wants no answer or the server has it (`StillKept`). The last is what a
reviewer would ask for: it says that an acknowledgement under way, however old, releases nothing
that is missing on the other side, and it needs all the others.

A loop of the code is `Iteration`: `IterationProofs` proves, once, that what each iteration keeps
holds after all of them (`RunSteps`, by induction on the number of iterations), and the loops of
`doEtcpNetTx`, `generateAcks`, `generateStaleAcks`, `etcpOnRxAck` and `doEtcpUserTx` are instances.
`FlowLemmas` says what each call of the client does to its connection (`Shrunk`: a transmit window
after some packets left it), and what the server's calls do; the invariant of the packet
under construction is `PktInv`. `FlowProofs` has a lemma per action, from which `FlowInvStep` and
the refinement follow.

`NamesKnown` has two parts. The fields that the code may read behind `tmpBuff` (`etcp.c:661`) have
count 0; what lies there is the build's, and a field that names a packet breaks the property at
once. And the stale list is at most `2 * MaxSacks + 1` long: beyond that a packet may be
acknowledged that was never received (section 4). The code bounds neither: these are conditions
under which it is correct, and outside of which it is not. The runs are within both. "full" is the
answer `etcpETRYAGAIN`, after which an acknowledgement is released unsent: `MCFlowClaims`.

### The bytes: `UserDataProofs`

| theorem | says | hypothesis |
|---|---|---|
| `UserDataInvariant` | `Spec => []UserDataInv` | |
| `UserDataTypes` | `TypeOK` | |
| `BuffersSuffice` | `NoOverrun` | `SizesFit` |
| `StreamArrivesInOrder` | `BytesInOrder` | `OnePiece` |

`UserDataInv`: both windows hold packets made by `doEtcpUserTx` without a hole, free slots are as
long as new ones, and the pieces form a `Stream`: those received end where the first one in the
receive window begins, those end where the transmit window begins, and that ends at `pos`, which
is what `etcpSend` reported in all. `SizesFit` compares the sizes the application asks for with the
room there really is; `BuffersSuffice` is about the slots used again, which claim `SlotHeaderSize`
more than they have. `OnePiece` (a message fits one packet, the receiver has room for it, and the
header is found in its slot) is needed: each part fails in a configuration of section 4
(`MCUserDataLong`, `MCUserDataHeader`).

### The hash table: `HashProofs`

* `HashTypes`: `Spec => []TypeOK`, entries hang in the bucket of their key;
* `HashIsMap`: `Spec => ImplementsMap`;
* `FoundIsKept`: `Spec => FoundStays`, if no three keys share a bucket (`Paired`), which
  `MCHashClaims` shows to be needed.

The invariant is `HInv`: the type and `LoneAlone`, that a lone key's chain has one entry at most;
without it the second entry of such a chain would be a state of the table that no map has.
`AddChained` and `RemChained` say that a call touches the chain of its key only, `MapChange` turns
that into one change of the map, and `AddStep`, `GetStep`, `RemStep`, `DeleteStep` are the step
simulation, action by action. For `FoundIsKept`, `AppendKeepsMatch` shows that an entry at the end
hides none before it, and `WithoutKeepsMatch` that the removal of the other key, at the head or
behind it, leaves the first match of this one the first.

### The sockets: `SocketsProofs`

| theorem | says | hypothesis |
|---|---|---|
| `SocketsInvariant` | `Spec => []SocketsInv` | |
| `SocketTypes`, `SocketsAcceptOldest` | `TypeOK`, `AcceptsOldest` | |
| `FreedAtMostOnce`, `PacketsFindTheirs`, `EndsFound` | `FreedOnce`, `FoundIsMeant`, `EndsAreReached` | `Usual` |
| `OneOwnerEach` | `EachHasOneOwner` | `Usual`, `ListensOnce` |

They hold for any number of sockets, addresses, peers and listening sockets, any backlog, and
allocations that fail in any call, as often as they like. Without a hypothesis the invariant says
that every pointer in a table or a socket is to an object of the process (`PointersHold`), and that
the listening queues are in order (`QueuesHold`): each is `InLine`, a window of sockets every one of
which was made after the one in front of it, no socket waits in two queues, and none that waits is
held or freed. The order of acceptance follows, for what is taken out is the one made first
(`ReleaseQ`), and a new socket is younger than all (`EnqueueQ`); both rest on the lemmas of
`QueueLemmas`.

Under `Usual`, and until `etcpClose`, the rest agrees (`Agree`), which is the part a reviewer would
argue about. The tables are plain: one entry a bucket, so that a look-up is a function
(`PlainGet`, `PlainAdd`), and no two destinations have the same sources. What a packet finds is
there and of its flow (`FoundAgrees`), and the other way round (`LiveFound`): a connection that was
not freed is found by its own flow. Each such connection is an end of one socket (`OneOwner`), and
which end, its flow says: a socket sends from addresses of the process and receives from those of
others (`EndsAgree`). `ReturnsFollow` is needed for the failure path of `addNewConn`: the return path
of a flow without connection cannot be there already, so that making it does not fail and the
clean-up that frees twice (`etcpSockApi.c:539`, `543`) is not reached. The proof follows the code's
helpers: `AddCases` names the outcomes of `addConnMapping`, `AddAgrees` shows that each keeps the
agreement, `DeletesSock` says what `etcpSockeDelete` frees, and each action has a lemma
(`ConnectKeeps`, `BindKeeps` ... `CloseKeeps`).

`Usual` has five parts, which all hold in `MCSockets`. Without four of them a configuration of section 4
shows a property broken: no two addresses share a bucket (`MCSocketsCollide`), addresses fit 32 bits
(`MCSocketsClaims`), no return path fails for want of memory and `etcpClose` is the last call
(`MCSocketsReturn`, `MCSocketsClose`). The fifth is `TwoSides`: a process does not talk
to itself, and it does not connect to a peer whose packets refuse a return path, since the return
path made for those (`etcpSockApi.c:507`) would meet the connection that is there, and fail.
`ListensOnce` is one `etcpListen` a socket; a second one loses sockets (`MCSocketsClaims`).

### Model-checked only

* liveness: `AckedOrGivenUp`, `AcceptedDelivered`, `AckTakesEffect`,
  `EverySourceAccepted`, `SentIsReceived`. Fairness and ENABLED are out of the prover's reach.

## 7. Not modelled, and the plan

Left out: time stamps; limits set by the reception callback; the links of `LinkedList.c`; the hash
function; width of sequence numbers (64 bits, 400 years by `../src/README.md`); leaks; the
alternatives to polling inside `etcpSend` and `etcpRecv` (`eventTriggeredRx` and `eventTriggeredTx`
FALSE, for which there is no thread in the repository); `remConnMapping` and `deleteEtcpState`, which
the program never reaches with anything to remove.

In this order:

1. `LinkedList` with its links, and the refinement of the sequence that `AckGeneration` uses.
2. `TxControl` and `AckGeneration` with the limits a reception callback may set.
3. Proofs about calls after an `etcpClose`, should the code take the entries of a freed connection
   out of the tables (`remConnMapping`, which nothing calls).
