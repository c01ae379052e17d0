# MCSB in TLA+

MCSB is a publish/subscribe message bus for one machine. Messages lie in shared
memory and are never copied: a manager process keeps track of who may write and
who still reads every piece of it, and clients exchange short control messages
with the manager over a Unix socket. This directory holds TLA+ modules for that
bookkeeping, for the socket protocol, for connections and for the mapping of the
memory, TLC configurations that check them on small instances, and proofs that
TLAPS checks for every instance.

## 1. The system

Shared memory is a number of *buffers*; a buffer has `slabsPerBuf` *slabs*, a
slab has `blocksPerSlab` *blocks*. A published message is one or more
*segments*; a segment occupies consecutive blocks and is named by the first.

| Component | State | Operations | Talks to |
|---|---|---|---|
| `SlabManager` | three intrusive lists `freeSlabs`, `heldSlabs`, `wantedSlabs`; per slab `heldRefcnt` and `wantedSegs`; `numSlabsReserved` | reserve, release, get free slabs, change refcounts, get and release wanted segments, add buffers | called by Manager and ClientProxy; calls back `HandleSlabStateChange` when a slab becomes free |
| `SlabRequestManager` | one FIFO list of requests per nice level | add, front, pop | Manager |
| `ProxySlabTracker` | reservation, producer slabs held, per-slab `uint16_t` consumer refcounts | insert/erase producer slabs, take/decrement consumer slabs | one per ClientProxy |
| `DropReporter` | `needReport`, `throttle` | dropped, get report, ack | one per ClientProxy |
| `ClientProxy` | tracker, `registeredMsgIDs`, group, nice level, `pendingFreeSlabRqsts`, `wantedQueue`, drop reporter | one handler per control message; destructor | called by the event loop; calls Manager |
| `Manager` | the clients map, the managers above | reservation and growth, greedy and nice slab requests, harvest, delivery to all clients, registrations to watchers | everything above |
| `SocketDaemon` | clients map, next client ID | accept, refuse, delete a client | libev |
| `GroupManager` | names, IDs and counts of groups | get, increment, decrement | ClientProxy |
| `ClientSendManager` | slabs to fill, blocks in use per slab | get a message, send, retire a slab | ClientImpl |
| `ClientRecvManager`, `MessageDescriptors` | received segments, reference-counted descriptors | add, assemble, release | ClientImpl |
| `ClientImpl`, `BaseClient`, `Client` | connection, registrations and callbacks | connect, register, send, receive, poll | user program, SocketEndpoint |
| `SocketEndpoint` | socket, receive buffer, `validPeer`, `sendFailed` | send/parse control messages and IDs | both sides |
| `ShmMapper`, `ShmClient` | mapped buffers | create, publish, map | operating system, each other through the header of buffer 0 |
| `ManagerParams` | sizes | check and round | Manager, ShmMapper |

The manager is single threaded: one handler runs at a time. What is hard is
inside and between handlers, and between processes:

* a slab that becomes free in the middle of a loop calls back into
  `ServiceSlabRequests`, which changes the lists that the loop works on;
* a segment that a consumer cannot take yet is on two intrusive lists, and four
  different paths remove it (sent, overage, harvest, disconnection);
* clients come, stop reading and go at any point, holding any mixture of things;
* greedy producers take memory from slow consumers, nice ones wait for it;
* counters are unsigned and narrow (`uint32_t`, `uint16_t`, `char`);
* buffers are added in the middle of traffic, and clients map them without a lock;
* sockets take and yield parts of messages;
* a client connects in several steps with callbacks in between, in which the
  program may register, ask for a group or close; connections break, and the
  manager may be stopped, killed and started again.

What makes it correct: no slab is handed to a producer while someone reads it or
has it queued; every reference and every reservation is given back exactly once;
delivery is in order and losses are reported; a producer's request is neither
lost nor doubled, and is served; both sides of a socket, and both mappings of a
buffer, mean the same; what the applications registered is what the manager has,
and what a watcher is told.

## 2. The modules

| Module | Models | Composition |
|---|---|---|
| `SlabManager` | `SlabManager.cc/.h` | a record and operators on it; also a specification of its own |
| `SlabRequestManager` | `SlabRequestManager.cc/.h` | operators |
| `ProxySlabTracker` | `ProxySlabTracker.cc/.h` | operators |
| `Manager` | `Manager.cc`, `ClientProxy.cc`, `DropReporter.cc`, connect and delete of `SocketDaemon.cc` | instantiates the three operator modules |
| `Loops` | a loop: so many rounds of a body | used by `Manager` and `ProxySlabTracker` |
| `ClientSend` | `ClientSendManager.cc/.h`, the sending part of `ClientImpl.cc` | a specification of its own; the manager is two external actions |
| `ClientRecv` | `ClientRecvManager.cc/.h`, `RecvMessageDescriptor`, the receiving part of `ClientImpl.cc`, `Client::Poll` | a specification of its own, with the queue that the proxy keeps for this client |
| `SocketEndpoint` | `SocketEndpoint.cc`, `SocketProtocol.h` | one sending and one reading endpoint and the socket between them |
| `Session` | `BaseClient.cc`, the connection part of `ClientImpl.cc`, `SocketDaemon.cc`, `GroupManager.cc`, groups and registrations of `ClientProxy.cc` and `Manager.cc`, the state of `mcsb_regs.cc` | several clients and the manager, with a FIFO for each direction of a socket |
| `ShmBuffers` | `ShmMapper.cc`, `ShmClient.cc`, `ShmDefs`, `ManagerParams::ParamCheck`, `Manager::IncreaseNumBuffers` | several clients and the manager, step by system call |
| `MCSlabManager`, `MCManager`, `MCSocketEndpoint`, `MCSession`, `MCShmBuffers` | values for the constants | |
| `SlabLifeCycle` | what `SlabManager` promises: the state changes of a slab that `SlabManager.h` names | abstract specification, which `SlabManager` implements |
| `CommonFacts`, `LoopFacts` | lemmas about lists, counts and least numbers; the rule for loops | used by the proof modules |
| `SlabManagerProofs`, `ManagerProofs`, `ClientSendProofs`, `ClientRecvProofs`, `SessionProofs`, `ShmBuffersProofs` | theorems about the module of that name | each extends its module |

**SlabManager.** The variable `slabMgr` is a record with the fields of the class
(`SlabState`). Each operation is an operator from record to record that keeps the
name of the method; operations on an array of slab IDs are given for one slab,
since the state-change callback runs between iterations. Exceptions are
predicates of their own (`DecrementThrows`, ...). `NumSlabsNonreservable` is
computed in exact arithmetic for whole percentages; the program computes it in
`float`. `SlabLifeCycle` says the same without lists and refcounts: a slab is
absent, free, held or wanted and has a set of queued segments, and one action
stands for each change of state. `Life` instantiates it with the state read off
the lists, and `FollowsLifeCycle` says that every step of `SlabManager` is a step
of the life cycle or none.

**Manager.** The variable `mgr` is the manager object: slab manager, slab
requests, a proxy per client, the `BlockInfo` of the segments in use, and the
fill level of slabs that have a producer. Each handler of `ClientProxy` is one
action whose next state is a composition of operators, one per function it
calls, so that everything it does happens in one step and in the order of the
code. `WithSlabs` is the callback `HandleSlabStateChange`. The clients are the
environment: `Setups` says how the manager is started and what each client may
send. They behave as the client library does: the nice level is sent before the
reservation and registrations after it (`BaseClient::Connect`), at least one
producer and one consumer slab is reserved (`ClientImpl::ComputeAndSendNumSlabs`),
blocks are published from slabs held, and segments and slabs are returned once.
Deleting a client is possible at any time.

A loop of the program is `Iterate` of its body (module `Loops`), with a number of
rounds that no run of it exceeds; a loop that stops early has a body that changes
nothing from then on. The loop over the clients map runs over the client IDs up to
`MaxClientID` (`kMaxClientID`) in their order.

A block, and the segment that begins there, is a slab and a place in it; which of
two segments was published first is history (`older`). `Done`, at the end of a
handler, forgets the `BlockInfo` and the history of segments that nobody refers to
any more and the fill level of slabs without a producer, none of which is read
again, so that behaviours of any length have finitely many states. The numbers of
slabs that a client asks for (`Asked`) are those whose differences fit in the `int`
that `HandleNumSlabs` computes them in. History fields record what the properties need and the program does not keep:
`owed`, `lost` and `inOrder` of a client, `intact`, `err`.

Data that is abstracted: message contents and sizes, byte counts in drop reports,
group names (a group is its ID), statistics, client names.

**ClientSend.** `sendMgr` is the `ClientSendManager`: its four lists and the
fields of each `SlabInfo`. The lists of full and of retired slabs are sets: they are
never searched in order and are given back together. A message of several slabs first
gets its part of a slab, then whole slabs from the front of the free list, the loop
over which is written in closed form (`AddWholeSlabs`). A descriptor is the sequence of its segments (slab,
first block, number of blocks). A `GetSendMsgDesc` call is several steps (`call`),
because it returns to `Poll` while it waits for slabs, and slabs arrive meanwhile.
The socket is two sequences: control messages to the manager, slab IDs from it;
`HandleSlabIDs` takes any prefix, as `Parse` does. `SendMessage` gives the retired
slabs back before the descriptor itself is released: a slab that the release
retires goes back with a later message. `handed` (segments cut from a slab since it
arrived) and `needless` (a call failed that could have been served) are history.
Message contents and the recycling of segment objects are left out.

**ClientRecv.** `recvMgr` is the `ClientRecvManager`; a descriptor is the sequence
of its segments, and a program has some variables of type `RecvMessageDescriptor`
that it copies, assigns (to themselves too) and destroys. `Client::Poll` reads the
stream one item at a time. The check for a message (`PendingRecvMessage`), each
iteration of the loop in `GetRecvMsgDesc` that discards one (`DiscardMessage`) and
the call of a handler are steps of their own, because each of them sends on the
socket what it releases. A handler may itself poll, keep a copy, and drop others. Each segment lies in a slab of its own,
which is the worst case for the consumer's reservation. A segment carries whether
its checksum is right when it is read, since a producer may write to a block it has
published. A null descriptor, which is what is left when the message that was announced
is discarded and no other is there, kills the client (`crashed`) before any handler is
called; its proxy goes on for a while. `published`, `delivered` and `dropped` are
history.

**SocketEndpoint.** The stream consists of words, the socket of their bytes, and a
byte knows which word it is part of, so that a reader that loses its place sees a
`Torn` word. A call of the owner (`Call`) becomes one or more messages, each an
array of IDs or the iovec of a control message; `Send` is one system call that
takes any part of the message, and continues as the code's two loops do. `Poll`
reads any part of what the socket holds and parses it. The loops handle some
partial sends wrongly (see below); `cut` marks those states, and the model goes no
further. `sent` and `handled` are history: what the owner passed in, and what the
reader's handlers were told.

**Session.** A client is `idle`, has its socket open, waits in the loop of
`Connect`, is up, or waits in `RequestGroupID`. Each socket has a FIFO in each
direction and an end at the manager that is in the listener's backlog, open, shut
down or closed. `proxies` is the manager's map of clients with what `ClientProxy`
keeps of groups and registrations; `SendBy` separates the proxy that sends from
the socket it sends through, because `SendRegistrationsToFD` does. The program
calls at any time, also from the `kPoll` callback while connecting. A `Close` from
there, or a `RequestGroupID` whose send fails, deletes `cimpl` under the loop that
called back: in `Connect`, which goes on with a null pointer, the client is then
`crashed`; in `RequestGroupID`, which goes on in a deleted object, what happens is
undefined, and the model has both a crash and a connection that is simply closed.
Other calls that poll from within the callback are not modelled. `view` is what
`mcsb_regs` makes of what it is told. Slabs and messages are not in this module:
a reservation is granted.

**ShmBuffers.** `ParamCheck` and `ShmHeader` compute the layout of a buffer in
bytes; the addresses that both sides compute are a segment and an offset.
`segs` are the segments that exist, `names` the names in the file system, which
are not the same: a name can be unlinked and used again while a client still has
the old segment mapped. The manager opens, truncates, fills in the header,
publishes the number of buffers, locks and announces, a step each; a client opens,
validates, maps, checks and asks for slabs, a step each. `Stop` runs the
destructors (SIGINT and SIGTERM, and SIGSEGV and SIGBUS, whose handlers do the same);
`Killed` is SIGKILL or any signal without a handler. A fatal signal while a buffer is
being made is not modelled. What goes through the socket is the name of the
memory, the reservation, a slab, and a block of it.

## 3. What the runs check

| Run | Instance | Result |
|---|---|---|
| `SlabManager` | 2 buffers of 2 slabs (one created on demand), 2 wanted segments, up to 2 references, 30 % nonreservable, so that growth raises the share from 1 to 2 slabs, and requests up to the largest that does not wrap the sum | `TypeOK`, `ListsMatchState`, `ReservationBound` and the refinement `FollowsLifeCycle` hold |
| `ManagerMixed` | in real time, a greedy producer (2 slabs) and a nice producer-consumer, 5 slabs; in playback mode, two producers, one of which consumes and may stop reading, 4 slabs; queue of 2 | `GreedyIsFilled`, `PendingIsRequested`, `NoIdleFreeSlab`, `NeverThrows`, `OverReturnRefused`, `PlaybackLossless` and, under fairness, `RequestsServed` hold |
| `ManagerFanout` | a producer-consumer and a consumer that may deregister, or a producer and a consumer that may join the same group; 4 slabs of 2 blocks, batches of 2, queue of 1 | `WantedListsAgree`, `TrackersCount`, `RefcntConserved`, `ContentIntact`, `NoSilentLoss` hold |
| `ManagerGrowth` | 3 clients, two of them producers, slabs of 2 blocks, 1 of 2 buffers at first, a client that can be denied, client-to-client messages | `ReservedIsSum`, `DeliveryInOrder` hold |
| `ManagerGrowthGreedy` | a nice producer that waits while a greedy client's reservation adds a buffer | `GreedyIsFilled` is violated |
| `ClientSend` | 2 slabs of 2 blocks, messages of 0 bytes to more than 2 slabs | `SlabsAccounted`, `RetiredWhenIdle`, `BlocksApart`, `PublishedBeforeReturn`, `NoNeedlessFailure` and, under fairness, `CallEnds` hold |
| `ClientRecv` | 2 consumer slabs, a queue of 1 that overflows, 3 messages of 1 to 3 segments with right or wrong checksums, two variables | `SegmentsConserved`, `KeptWhileUsed`, `WholeUnlessDropped`, `DeliveredInOrder` and, under fairness and unless a wrong checksum kills the client, `AllDelivered` and `QueueDrains` hold |
| `ClientRecvSplice` | a queue of 1 that overflows, multi-segment messages | `DeliveredWhole` is violated |
| `SocketEndpoint` | words of 2 bytes, 3 calls of 8 shapes, payloads of up to 4 words, a socket of 12 bytes, peers of this and of another version | `FramedUnlessCut`, `NoFalseFailure`, `AllHandledWhenQuiet` hold |
| `Session` | a watcher and another client with two sockets, one message ID, one group, 2 client IDs, sockets of 3 messages, 2 calls or restarts | `GroupsCounted`, `RegistrationsAgree`, `ViewAgrees` and, under fairness and for clients that have not crashed, `Settles` hold |
| `SessionSkipped` | the same | `SkippedIsNotified` is violated |
| `ShmBuffers` | 2 clients, 1 of 2 buffers at first, sizes that need rounding, with and without `force`, a stale name, 2 starts of the manager, 3 connections | `AccessesMapped`, `SameBytes`, `NoLeftovers` hold |

*Bounds.* The slab counts of the `Manager` runs are the smallest at which the
reservations of all clients fit and yet a consumer that is behind keeps a producer
waiting, so that wanted slabs, harvests, overage and pending requests all occur. A
queue bound of 1 or 2 makes the queue overflow; two blocks in a slab make a slab
wanted and held at once, and held by several segments; with two producers as well
(`ManagerGrowth`), a later segment in a slab that the consumer already holds could
overtake a queued one. Two clients suffice for the interaction of producer and
consumer; growth uses three. Each client ID connects once, so a behaviour can end
with all clients gone; the manager then waits for connections, which is why the
Manager configurations switch off the deadlock check. The `SlabManager` run keeps
it on.

In `ClientSend`, two slabs of two blocks make every case of `GetMessageDescriptor`
occur: part of a slab, a slab, a part and a whole slab, more than the reservation,
and a request that fits only after the working slab was given up. An exception
closes the client, which ends a behaviour. In the `ClientRecv` runs `MaxMsgs`
bounds what is published, which ends a behaviour as well; three messages are
enough for one to be in a handler, one pending and one queued or dropped.
A message of more segments than the reservation is among them, since the client
must drop it rather than wait for ever. These runs too switch off the deadlock
check.

In `SocketEndpoint` the payload limit is so small that arrays of three elements
need several messages, the receive buffer holds just the longest message, and the
socket is smaller than two calls. `Session` lets the other client reconnect before the manager
has noticed that its old connection is gone, reuses client IDs and group IDs, and
fills the watcher's socket; two calls allow a registration and a close, a
registration and a restart, or a group and any of them, at any step. There are as
many group IDs as groups: with fewer, `Connect` never returns, as in the code. In
`ShmBuffers` one reservation fits into the first buffer, so that the second
client's makes the manager add one while the first maps, and three connections
let one of them come back. In all three the last call, connection or start ends a
behaviour, so that the deadlock check is off.

*Fairness.* In `ManagerMixed`, two things are assumed: a client
that holds received segments goes on returning some (a user program that stops
consuming can block producers in playback mode by design), and a client whose
socket the manager has shut down is deleted by the event loop (libev reports the
readable end of file). Nothing is assumed about producers.
The assumptions are weak fairness with the enabling condition written out.

In `ClientSend`, the thread goes on with a call it has begun (a blocked `Poll`
returns when the socket is readable), and the manager reads its sockets and hands
out the slabs it owes, which is what `RequestsServed` shows of it. Nothing is
assumed about the program between calls. In `ClientRecv`, the program polls when the
socket is readable, handlers return, the manager reads its sockets, and time and
again the program has released all its descriptors: one that keeps copies for ever
keeps consumer slabs for ever, by design. Once the client has crashed nothing is
expected of it any more. Nobody is made to publish. In `Session`,
applications poll, the event loop serves readable descriptors and the listener, and
a stopped manager is started again. `Settles` is about what happens after the last
call and the last restart, of which there are finitely many; the five-second
timeout of `RequestGroupID` may strike or not. A client that has crashed in a `kPoll`
callback does not come back; the manager must be rid of it, and the other client must
settle all the same.

*Findings.*

1. `ManagerGrowthGreedy`: `IncreaseNumBuffers` adds free slabs without serving
   waiting requests (`Manager.cc:202`). If then a greedy client harvests, the
   first slab that becomes free makes `ServiceSlabRequests` give all free slabs to
   the waiting producer, the unsigned difference in `Manager.cc:161` wraps, the
   loop ends, and the greedy client stays short of its reservation: its
   `pendingFreeSlabRqsts` says the slabs were requested, so it never asks again.
   The comment at `Manager.cc:105` says this is "guaranteed/enforced by
   reservation". `ManagerMixed` shows that it holds without growth.
2. `ClientRecvSplice`: `GetMessageDescriptor` puts segments together whose message
   ID and numbering agree (`ClientRecvManager.cc:124`). When the proxy drops the
   second segment of one message and the first of the next of the same ID, the
   handler gets one message made of both, although `MessageDescriptors.h:158` says
   that the segments "have been received as a single message".
3. `SessionSkipped`: to tell a watcher of the current registrations, every proxy
   sends its own through the watcher's socket by putting that descriptor into its
   `sockFD` (`ClientProxy.cc:555`). If that send fails, `sendFailed` is set in the
   proxy that sends. Its own client's socket works, but `TakeBlocksAndInfo` skips
   the client from then on (`Manager.cc:278`), without the drop report that
   `README.md:30` promises, until the client sends something that is answered.

Seen while modelling, and without a run of their own:

* `PopWantedQueue` discards queued segments whose message ID is not registered
  (`ClientProxy.cc:355`), and the ID of client-to-client messages can never be
  registered: one that is queued is lost without a drop report. `ManagerFanout`,
  which checks `NoSilentLoss`, has no such messages; with `CCI` in its setup the
  property fails.
* `Close` from the `kPoll` callback of `Connect` leaves the loop with a null `cimpl`
  (`BaseClient.cc:113`), that of `RequestGroupID` in a deleted object
  (`ClientImpl.cc:310`), and so does a `RequestGroupID` from there whose send fails.
  `Session` reaches both (`crashed`), and `Settles` exempts the client that did it.
* `PendingRecvMessage` announces a message without looking at its checksum, although
  the comment there says that it "retired any invalid segments (checksum or multi-seg
  problems)" (`ClientImpl.cc:332`). `GetRecvMsgDesc` discards it if the checksum is
  wrong (`ClientImpl.cc:345`), and returns null if no other message is there.
  `Client::Poll` passes that to `HandleRecvMessage`, which calls `rmd.MessageID()` first
  (`Client.cc:174`); that dereferences the null pointer (`MessageDescriptors.cc:112`),
  and the client dies (`crashed`). `AllDelivered` and `QueueDrains` exempt this death
  and no other.
* The loops for partial sends (`SocketEndpoint.cc:425` and `:456`) compare the wrong
  quantities: an array of IDs of which the socket took half or more is not sent to
  its end, and an iovec that was cut within a part is advanced beyond its array.
  Such a send needs a socket that is nearly full. `FramedUnlessCut` shows that this
  is all that can disturb the stream.
* `SendBlocksAndInfo` compares bytes with a number of blocks (`SocketEndpoint.cc:523`);
  for some messages of more than a thousand segments they are equal, and the rest is
  not sent. The instance is too small for it.
* The assertion at `ShmClient.cc:113` fails if the manager adds another buffer while
  the client maps; the model reaches the state (`aborted`). When a killed manager is
  started again with `force`, a client of the old one may open a segment by name that
  the new one has created and not yet given its size (`ShmClient.cc:172`): it dies of
  SIGBUS (`bus`). The theorem
  `OnlyRestartsKill` says that this is the only way to that death; `AccessesMapped`,
  which the run checks, ends with that start.
* `ShmClient.h:56` multiplies two `uint32_t`: in a buffer of more than 4 GiB the
  client's address of a block differs from the manager's. The constant `Word` stands
  for 2^32; `SameBytes` fails if a buffer is larger than it.
* When the constructor of `ClientImpl` throws (the manager refuses), `Connect` leaks
  the descriptor and the program, told of a connection, is not told of its end
  (`BaseClient.cc:97`). `Session` forgets the descriptor.
* With all group IDs in use `Connect` never returns (`BaseClient.cc:108`).

*Mutants.* For every property of a passing run the modules hold a definition,
marked "Mutant", that changes one operation as a plausible mistake would
(`PROJECT.json` lists which replaces which); TLC then finds the property violated.

## 4. What is proved

TLAPS checks the following for every value of the constants that satisfies the
named assumptions. Where a run checks the same property, TLC shows it on a small
instance and the theorem shows it for all.

| Module | Theorem | Property |
|---|---|---|
| `SlabManagerProofs` | `TypeCorrect` | `TypeOK` |
| | `ListsAlwaysMatch` | `ListsMatchState`: a slab is on the list that its refcount and segments call for, once |
| | `ListedAlwaysUsable` | the exceptions for a "deeper problem" are never thrown |
| | `ReservationAlwaysBounded` | `ReservationBound`, if no request wraps (`AskedFits`) |
| | `LifeCycleFollowed` | `FollowsLifeCycle`: `SlabManager` implements `SlabLifeCycle` |
| | `SegmentsAlwaysSafe` | no free slab has a queued segment, every wanted one does, no segment is in two slabs |
| | `QueuedAlwaysKept` | the same first two facts, of `SlabLifeCycle` itself |
| `ManagerProofs` | `RefcntAlwaysConserved` | `RefcntConserved` |
| | `TrackersAlwaysCount` | `TrackersCount` |
| | `WantedListsAlwaysAgree` | `WantedListsAgree` |
| | `ContentAlwaysIntact` | `ContentIntact` |
| | `NothingEverThrown` | `NothingThrown`: none of the exceptions marked as impossible is thrown, which is the first half of `NeverThrows` |
| | `OverReturnAlwaysRefused` | `OverReturnRefused` |
| | `DeliveryAlwaysInOrder` | `DeliveryInOrder` |
| | `NothingLostSilently` | `NoSilentLoss`, if `NoClientMessages` |
| | `PlaybackNeverReports` | `PlaybackLossless`, that no drop report is due or sent, if `PlaybackWaits` |
| | `PlaybackLosesNothing` | `PlaybackLossless` and `NoSilentLoss`, if `PlaybackWaits` and `NoClientMessages`: in playback mode what is wanted is sent |
| | `ReservedAlwaysSum` | `ReservedIsSum`, if `AsksFit` |
| | `ManagerConsistent` | the inductive invariant they follow from |
| `ClientSendProofs` | `SlabsAlwaysAccounted` | `SlabsAccounted` |
| | `RetiredOnlyWhenIdle` | `RetiredWhenIdle` |
| | `BlocksNeverShared` | `BlocksApart` |
| | `BlocksPublishedFirst` | `PublishedBeforeReturn` |
| | `NeverRefusedNeedlessly` | `NoNeedlessFailure` |
| `ClientRecvProofs` | `EachReturnedOnce` | `SegmentsConserved` |
| | `CountsAreReferences` | `KeptWhileUsed` |
| | `WholeMessages` | `WholeUnlessDropped` |
| | `DeliveryOrdered` | `DeliveredInOrder`, an action property |
| `SessionProofs` | `GroupsAreCounted` | `GroupsCounted` |
| | `RegistrationsDoAgree` | `RegistrationsAgree` |
| | `ClientIDsDistinct` | no two connected clients have the same ID |
| `ShmBuffersProofs` | `MemoryMapped` | `AccessesMapped`, if `InitialBuffers`: what a client looks into is there, until another manager is started |
| | `OnlyRestartsKill` | `OnlyRestartKills`, an action property, if `InitialBuffers` |
| | `BytesAgree` | `SameBytes`, if `InitialBuffers` and `SizesFit` |
| | `NamesCleanedUp` | `NoLeftovers` |

*Assumptions.* Each module's ASSUME gives types and what the program itself
guarantees: sizes are positive, slab numbers fit in a `uint32_t`
(`BufferAssumption`), the nonreservable percentage is below 100 (`PctAssumption`,
the constructor's assertion), a producer has at least one slab and the length of a
message plus one block does not wrap (`SendAssumption`), a consumer has at least one
slab and a program finitely many variables (`RecvAssumption`), there are at least as
many client IDs as clients are admitted (`SessionAssumption`); `ManagerAssumption`
and `SlabsAssumption` say the same of `Manager`, and that a slab has fewer blocks
than a `uint16_t` counts. Six hypotheses are
stated with their theorems because the code does not enforce them:

* `AskedFits` and `AsksFit`: no reservation, and neither what a client asks for in one
  message, added to the number of slabs reaches 2^32. In the runs of `Manager`, where
  `UIntRange` stands for 2^32, the latter holds.
* `InitialBuffers`: the manager is started with at least one buffer and no more than it
  may have (`ParamCheck` does not look, and the constructor ignores the refusal).
* `SizesFit`: 32 bits address a buffer (see the remark on `ShmClient.h:56` above).
* `NoClientMessages`: clients publish only under IDs that one can register for. A
  client-to-client message has another one, and is lost when it has to wait in the
  queue (`ClientProxy.cc:355`). `ManagerFanout`, which checks `NoSilentLoss`, has none.
* `PlaybackWaits`: no producer asks, in playback mode, for a nice level that is -1 as a
  `signed char`. Playback mode adds one to it (`Manager.cc:87`), and a producer of
  level 0 is greedy: it drops what is queued for others instead of waiting.
  `ManagerMixed`, which checks `PlaybackLossless`, has no such producer.

*SlabManager.* The inductive invariant is `Matched`: the type together with
`ListsMatch`, which has three parts. `ListsAgree` says on which list a slab is; to
preserve it, removing a slab from a list must remove its only occurrence, hence
`ListsDistinct` (no list holds an element twice, a slab's segments included);
and a slab that a new buffer adds must not be in use already, hence `InUseExists`.
One lemma per operation (`GetFreeSlabMatched`, `DecrementMatched`, ...) shows that
it maps matched states to matched states. `ReservationBound` is preserved by growth
because the nonreservable share grows by no more than the slabs that are added
(`NonreservableGrows`). For the refinement: in a matched state the list a slab is on
can be computed from its refcount and segments (`StatusOf`), an operation changes
these for one slab only, and so each operation is one action of the life cycle or
leaves it as it is. `SegmentsAlwaysSafe` carries `QueuedAlwaysKept` over to
`SlabManager` through the refinement.

*Manager.* A handler first changes what a proxy counts and then, slab by slab, what
the slab manager counts, and in the middle of it the slab manager calls back and
gives free slabs to other clients. What every step preserves is therefore
`Ok(m, e)`: all is consistent up to the debt `e`, the number of references to each
slab that the handler has given up and the slab manager still counts. Handlers
begin and end without debt and with everything `Settled`; that is the inductive
invariant `Inv`. `Ok` has these parts.
`Matched` is the invariant of `SlabManagerProofs`, and the lemmas about each slab
manager operation are used as they are. `References` is `RefcntConserved` with the
debt; `Trackers` and `Queues` are `TrackersCount` and `WantedListsAgree`; `Gone` says
that a client that is not connected holds nothing. From these it follows that a slab
on the free list has no readers and no queued segments, so that nothing in use is
handed out; `Filled` says that what is referred to in a slab that has a producer lies
below its fill level, so that nothing in use is overwritten by its own producer
either. Every operator has a lemma that it preserves `Ok(m, e)` for every `e`, since
it may run in the middle of another handler, and that says what it leaves alone:
`Frame` (a callback only hands out slabs), `Others` (only client c's segments move),
`Kept` (segments only leave queues), `Based` (all of these). A loop is proved by
instantiating `LoopFacts` with its body and its invariant; the debt of a loop that
returns references is what the rest of its array still counts (`Left`, `ProdLeft`,
`ConsLeft`). The rule, `LoopInvariant`, needs that one counts up from 0 to any number;
`CountUp` of `CommonFacts` proves that from the least element of a set of naturals
instead of an induction rule.

`Settled` is what holds between the operators, and not in the middle of one. No client
reads what it has queued (`Apart`), and one that is not connected has neither a queue
nor a reservation (`Bare`). `Delivering`: what is queued and still registered is owed,
the queue is in the order of publishing (`older`), and a report is withheld only while
another is not acknowledged. `NothingLost`: nothing else is owed. The two together
make `DeliveryInOrder` and `NoSilentLoss` inductive: what is sent is
the oldest of its queue, and what leaves a queue otherwise is dropped with a report or
no longer registered.
Sending what has just been published is the step that could break them; the loop over
the clients therefore carries `NotYet` and `Serial`: the segments still to be sent are
newer than everything that a client reads or has queued. `Undropped`: in playback mode
no client is greedy and no report is due, because the queue is never cut short and
nothing harvests. That alone does not say that nothing is lost (queued client-to-client
messages go without a report in playback mode, too); together with `NoSilentLoss`, and
thus without such messages, it does. `Booked`: what is reserved is the number of pairs of a client and one
of its reserved slabs (`Reservations`), and with the nonreservable share it is no more
than the slabs that there are (`Bounded`); hence the sums do not wrap.

*ClientSend.* `SendInv` says that the four lists are disjoint, `slabsHeld` counts
them and a slab's refcount counts the descriptors that point into it (`MgrOK`,
`DescsOK`); that a slab the manager counts is on a list or on one of the two
sockets (`NetOK`); that blocks precede the return of their slab on the socket
(`Published`); and that `blocksUsed` is the end of everything cut from a slab since
it arrived (`HandedOK`), from which it follows that no block is handed out twice.
`NoNeedlessFailure` needs arithmetic besides: if the manager owes nothing and there is
nothing left to give back, every slab of the reservation is free, and the slabs that a
message needs are its blocks divided by the blocks of a slab, rounded up.

*ClientRecv.* `RecvInv` has ten parts, none of which is inductive without the
others. Three lists hold the segments on their way: the proxy's queue, the socket
and `pendingSegs`. `OrderInv` says that each is sorted and lies before the next;
`PlaceInv` that a segment is in one place and that `consSegs` is all but the queue;
`CountInv` that the reservation is not exceeded; `KnownInv` that message and number
tell segments apart. `GaplessInv` says that no segment is missing among those that
wait unless one was dropped, which makes the descriptors whole; `DescInv` that
different descriptors in use share no segment and that the counter of each is the
number of its users, with `FirstInv` for one that is about to be made;
`DeliveredInv` that what was delivered lies before all that waits; `ControlInv` when
there is a pending message at all. The steps are proved by kind: those of
descriptors only (an assignment is a reference added and one taken away, in the
code's order, so that assigning a variable to itself frees nothing), those that move
segments from `pendingSegs` into a new descriptor, those that give back, and those
of the proxy.

*Session.* `SessionInv` has a part of the manager (proxies have distinct IDs and
match the open ends of sockets, group counts are the numbers of members) and one
for each client (what it has registered is what its proxy has, followed by the
messages under way). Most handlers touch one socket and one proxy, and the lemmas
say so once. That `GetNewClientID` and `NewGroupStr` find a number that is not in use
rests on the pigeonhole principle and on taking a least number.

*ShmBuffers.* `ManagerOK` is kept by the manager's steps whatever clients do; `CltOK`
relates one client to the manager and to the segments it has opened. A client may be
connected to a manager that is gone, hence `StartOK`, which says of which start it is.
The heart of it is `InboxOK`: an ID on the socket lies in a buffer that the client has
mapped, or a message ahead of it makes the client map as many buffers as the header
names, and these are enough; `LiveOK` says that `slabManager` never hands out more than
that. That the memory is initialised must also hold when the manager of a client has
died, perhaps in the middle of a growth, and no other was started: nothing of
`ManagerOK` says so any more. `Complete` therefore speaks of segments and names only:
the buffers that the first header counts are sized and initialised, and their names
lead to them or nowhere. It follows from `ManagerOK` while the manager runs, and an end
keeps it. `MappedOK` says that a client of the last start has mapped such buffers only;
and such a client, which opens no more buffers than the header counts, never meets a
segment without a size. `BytesAgree` computes with the layout that
`ParamCheck` produces: the sizes divide each other and offsets of different IDs lie
at least a block apart, for every page size and every size that a user gives.

*Only model-checked.*

* `Manager`: that a harvest always finds what it needs (the second half of
  `NeverThrows`), `GreedyIsFilled`, `PendingIsRequested` and `NoIdleFreeSlab`. The
  first three need sums over all clients; `GreedyIsFilled` and `NoIdleFreeSlab` fail
  when buffers are added.
* `SocketEndpoint`: parsing a stream and splitting an array are recursive.
* `ViewAgrees` of `Session`: it folds the messages on the watcher's socket into its
  view, which needs induction over the sequence.
* Liveness: `RequestsServed`, `CallEnds`, `AllDelivered`, `QueueDrains`, `Settles`.

## 5. What is not modelled, and the plan

Not modelled: parsing of options, printing and statistics, the tools other than
`mcsb_regs`, examples and Python bindings, which keep no protocol state; the
pointer manipulation of `IntrusiveList` (lists are sequences); the computation of
checksums; socket options and timeouts other than that of `RequestGroupID`. A
descriptor that outlives its `ClientImpl`, and callbacks that poll again from
within `Parse`, are hazards without a property.

The order of work:

1. *(done)* slab manager, slab requests, tracker, manager with client proxies;
   first theorems.
2. *(done)* the sending and the receiving half of the client library.
3. *(done)* `GroupManager`, registrations and their notification, connecting and
   reconnecting (`Session`).
4. *(done)* `SocketEndpoint`, and the mapping of buffers while they are added
   (`ShmBuffers`).
5. Proofs. *(done)* the life cycle of a slab and its refinement; the invariants of
   `ClientSend`, `ClientRecv`, `Session` and `ShmBuffers` that need no induction over
   data; the references, trackers, queues, deliveries, drops and reservations of
   `Manager`, whose loops are written as `Iterate` for that. Left: the counting over all clients that the guarantee to
   greedy producers rests on; parts of `SocketEndpoint` once its parsing is written
   in the same way.
6. `ClientSend` composed with an abstract manager that promises what `Manager` was
   shown to do, and a client that consumes its own stream in playback mode.
