------------------------------ MODULE Manager ------------------------------
(***************************************************************************)
(* The MCSB manager: one process, one event loop                           *)
(* (apps/MCSBManager/Manager.cc, ClientProxy.cc).  Clients connect over a  *)
(* socket, reserve slabs, publish segments that lie in slabs they hold as  *)
(* producers, receive the segments they registered for, and give slabs and *)
(* segments back.  The event loop runs one handler at a time, so each      *)
(* handler is one action, with every call it makes: slab manager, slab     *)
(* requests, trackers, wanted queues and drop reports of all the clients.  *)
(*                                                                         *)
(* A handler is a composition of operators on mgr, the manager object.     *)
(* The slab manager calls back into ServiceSlabRequests in the middle of   *)
(* its loops (HandleSlabStateChange), and so do the operators below.       *)
(***************************************************************************)
EXTENDS Integers, Sequences, FiniteSets, SequencesExt, Loops

CONSTANTS
  Clients,            \* client IDs; an ID connects once
  MaxClientID,        \* kMaxClientID, 9999 in the program
  Setups,             \* how the manager is started and what clients ask of it, see Setup
  MsgIDs,             \* message IDs a client can register for
  CCIMessageID,       \* kCCIMessageID, the reserved message ID
  CCIBcastID,         \* kCCIBcastID
  MaxWantedQueueSize, \* maxWantedQueueSize, 1024 in the program
  BlocksPerSlab,      \* segments that a producer can put in one slab
  MaxBatch,           \* bound: elements of one message's array
  SlabsPerBuf, InitBuffers, MaxBuffers, PctNonreservable, UIntRange,
  MaxLevel, UInt16Range

TotalNumSlabs == SlabsPerBuf * MaxBuffers
Slabs == 0..(TotalNumSlabs - 1)

\* A block, and the segment in it, is named by its slab and its place there.
Blocks == Slabs \X (1..BlocksPerSlab)

Kinds == (MsgIDs \cup {CCIMessageID}) \X (Clients \cup {0, CCIBcastID})

\* Numbers of slabs that clients ask for: their differences fit an int.
Asked == {n \in Nat : 2 * n < UIntRange}

OptionSet ==
  [numSlabs : SUBSET (Asked \X Asked), \* producer and consumer slabs of a NumSlabs message
   nice     : SUBSET Int,            \* levels of a ProdNiceLevel message
   groups   : SUBSET Nat,            \* groups of a GroupID request
   register : SUBSET MsgIDs,
   deregister : SUBSET MsgIDs,
   sendFails : BOOLEAN,              \* whether the client can stop reading its socket
   publish  : SUBSET Kinds]

Setup ==
  [options  : [Clients -> OptionSet],
   playback : {0, 1},                \* playbackMode
   numBuffers : InitBuffers..MaxBuffers, maxNumBuffers : InitBuffers..MaxBuffers]

ASSUME ManagerAssumption ==
  /\ MaxClientID \in Nat /\ Clients \subseteq 1..MaxClientID
  /\ \A setup \in Setups : setup \in Setup
  /\ CCIMessageID \notin MsgIDs
  /\ MaxLevel \in Nat \ {0}
  /\ MaxWantedQueueSize \in Nat /\ UInt16Range \in Nat \ {0} /\ MaxBatch \in Nat
  /\ BlocksPerSlab \in Nat \ {0} /\ BlocksPerSlab < UInt16Range

\* What SlabManager assumes of its parameters.
ASSUME SlabsAssumption ==
  /\ SlabsPerBuf \in Nat \ {0}
  /\ InitBuffers \in Nat \ {0}
  /\ MaxBuffers \in Nat /\ InitBuffers <= MaxBuffers
  /\ UIntRange \in Nat /\ SlabsPerBuf * MaxBuffers < UIntRange
  /\ PctNonreservable \in 0..99

VARIABLE mgr

SM == INSTANCE SlabManager
        WITH slabMgr <- mgr.sm, Segments <- Clients \X Blocks,
             MaxRefcnt <- 0, AskedSlabs <- {}
T == INSTANCE ProxySlabTracker WITH TrackedSlabs <- Slabs
RQ == INSTANCE SlabRequestManager

(***************************************************************************)
(* A client's proxy.  The last three fields are history: the segments that *)
(* the client wanted when they were published and that were neither sent   *)
(* nor reported as dropped nor, by deregistering, forgone; whether one of  *)
(* them left the queue all the same; and whether each segment sent was the *)
(* oldest one owed.                                                        *)
(***************************************************************************)
NewProxy ==
  [state |-> "up",         \* "new" before the connection, "gone" after it
   sendFailed |-> FALSE,
   group |-> 0,
   regs |-> {},            \* registeredMsgIDs
   nice |-> 0,             \* prodNiceLevel
   pending |-> 0,          \* pendingFreeSlabRqsts
   slabs |-> T!NewTracker,
   holding |-> {},         \* segments sent to the client and not returned
   wantedQueue |-> <<>>,
   needReport |-> FALSE,   \* dropReporter: segments were dropped and not reported yet
   throttle |-> FALSE,     \* dropReporter: a report is not acknowledged yet
   owed |-> {}, lost |-> FALSE, inOrder |-> TRUE]

Absent(state) == [NewProxy EXCEPT !.state = state]

\* The BlockInfo of a block that nobody refers to.
NoInfo == <<CCIMessageID, 0>>

Init ==
  \E setup \in Setups :
  mgr = [setup |-> setup,
         sm |-> SM!NumBuffers(SM!NewSlabManager, setup.numBuffers),
         rq |-> RQ!NoRequests,
         px |-> [c \in Clients |-> Absent("new")],
         info |-> [x \in Blocks |-> NoInfo], \* BlockInfo: message ID and destination
         fill |-> [s \in Slabs |-> 0],    \* blocks its producer has used in a slab
         older |-> {},             \* history: <<x, y>> if x was published before y
         intact |-> TRUE,          \* history: no such segment was overwritten
         err |-> FALSE,            \* history: a refcount or a list was found wrong
         ranOut |-> FALSE]         \* history: a harvest found no wanted slab

Up(m, c) == m.px[c].state = "up"
Connected(m) == {c \in Clients : Up(m, c)}
Queued(m, c) == Range(m.px[c].wantedQueue)
SlabOf(x) == x[1]
NumFreeSlabs(m) == Len(m.sm.free)

\* an exception that the code documents as never happening
Expect(m, ok) == [m EXCEPT !.err = @ \/ ~ok]

\* segments that some client reads or has queued
Referenced(m) == UNION {m.px[c].holding \cup Queued(m, c) : c \in Clients}

(***************************************************************************)
(* The end of a handler.  Nothing reads the BlockInfo of an unreferenced   *)
(* segment, nor the fill of a slab without a producer: they are forgotten, *)
(* so that behaviours of any length have finitely many states.             *)
(***************************************************************************)
Done(m) ==
  LET live  == Referenced(m)
      info  == [x \in Blocks |-> IF x \in live THEN m.info[x] ELSE NoInfo]
      older == m.older \cap (live \X live)
      fill  == [s \in Slabs |->
                  IF \E c \in Clients : s \in m.px[c].slabs.prod THEN m.fill[s] ELSE 0]
      px    == [c \in Clients |->
                  [m.px[c] EXCEPT
                     !.owed = m.px[c].owed \cap Queued(m, c),
                     !.lost = m.px[c].lost \/ ~(m.px[c].owed \subseteq Queued(m, c))]]
  IN  [m EXCEPT !.info = info, !.older = older, !.fill = fill, !.px = px]

-----------------------------------------------------------------------------
(***************************************************************************)
(* Free slabs for producers.                                               *)
(***************************************************************************)
\* The front of freeSlabs goes to a client, which is sent its ID and may fill it.
TakeFreeSlab(m, c) ==
  LET s == Head(m.sm.free)
      p == m.px[c]
      q == [p EXCEPT !.slabs = T!InsertProdSlab(p.slabs, s),
                     !.pending = IF p.pending = 0 THEN 0 ELSE p.pending - 1]
  IN  Expect([m EXCEPT
                !.sm = SM!GetFreeSlab(m.sm), !.px[c] = q, !.fill[s] = 0,
                !.intact = m.intact /\ \A x \in Referenced(m) : SlabOf(x) # s],
             ~SM!GetFreeSlabThrows(m.sm) /\ s \notin p.slabs.prod)

GetFreeSlabs(m, c, count) == Iterate(LAMBDA n, i : TakeFreeSlab(n, c), m, count)

\* One slab for the lowest level's first request; the rest of it goes to the back.
ServiceRequest(m) ==
  LET level == RQ!LowestLevelPending(m.rq)
      req   == RQ!FrontRequest(m.rq, level)
      m1    == [m EXCEPT !.rq = RQ!PopFrontRequest(@, level)]
      m2    == TakeFreeSlab(m1, req.id)
  IN  IF ~Up(m, req.id) THEN m1
      ELSE IF req.numSlabs = 1 THEN m2
      ELSE [m2 EXCEPT !.rq = RQ!AddRequest(@, level, req.numSlabs - 1, req.id)]

\* Every round takes a free slab away or a request.
ServiceSlabRequests(m) ==
  LET round(n, i) ==
        IF RQ!HasRequests(n.rq) /\ NumFreeSlabs(n) > 0 THEN ServiceRequest(n) ELSE n
  IN  Iterate(round, m, RQ!NumRequests(m.rq) + NumFreeSlabs(m))

\* Mutant: nobody is told that a slab became free.
WithSlabsQuietly(m, sm) == [m EXCEPT !.sm = sm]

\* HandleSlabStateChange: the slab manager's state becomes sm, and a freed slab is given away.
WithSlabs(m, sm) ==
  LET m1 == [m EXCEPT !.sm = sm]
  IN  IF SM!BecameFree(m.sm, sm) THEN ServiceSlabRequests(m1) ELSE m1

DecrementHeldRefcnt(m, s, amount) ==
  WithSlabs(Expect(m, ~SM!DecrementThrows(m.sm, s, amount)),
            SM!DecrementHeldRefcnt(m.sm, s, amount))

DecrementHeldRefcnts(m, ids) ==
  Iterate(LAMBDA n, i : DecrementHeldRefcnt(n, ids[i], 1), m, Len(ids))

\* kWantedToHeld is not handled.
IncrementHeldRefcnt(m, s) ==
  Expect([m EXCEPT !.sm = SM!IncrementHeldRefcnt(m.sm, s)], ~SM!IncrementThrows(m.sm, s))

\* Mutant: kWantedToFree is not handled.
ReleaseWantedQuietly(m, c, x) ==
  [m EXCEPT !.sm = SM!ReleaseWantedSegment(@, <<c, x>>, SlabOf(x))]

ReleaseWantedSegment(m, c, x) ==
  WithSlabs(m, SM!ReleaseWantedSegment(m.sm, <<c, x>>, SlabOf(x)))

-----------------------------------------------------------------------------
(***************************************************************************)
(* Drops.                                                                  *)
(***************************************************************************)
\* DropReporter::Dropped, then GetReport unless a report is outstanding
DropReporter(px, dropped) ==
  LET needReport == px.needReport \/ dropped
      report     == needReport /\ ~px.throttle
  IN  [px EXCEPT !.needReport = needReport /\ ~report, !.throttle = @ \/ report]

SendDropReport(m, c, segs) ==
  LET p == DropReporter(m.px[c], segs # {})
  IN  [m EXCEPT !.px[c] = [p EXCEPT !.owed = p.owed \ segs]]

EraseWantedSegment(m, c, x) ==
  SendDropReport(
    ReleaseWantedSegment([m EXCEPT !.px[c].wantedQueue = RemoveFirst(@, x)], c, x),
    c, {x})

\* Mutant: the slabs that were free before count as harvested.
HarvestedAll(m, count, origNumFreeSlabs) == NumFreeSlabs(m) >= count

\* The sizes are unsigned: were freeSlabs to shrink below its original size, the
\* difference would be huge and the loop would end.
Harvested(m, count, origNumFreeSlabs) ==
  NumFreeSlabs(m) < origNumFreeSlabs \/ NumFreeSlabs(m) - origNumFreeSlabs >= count

HarvestSegment(m) ==
  LET seg == SM!FrontWantedSegment(m.sm)
  IN  IF Up(m, seg[1]) THEN EraseWantedSegment(m, seg[1], seg[2])
                       ELSE ReleaseWantedSegment(m, seg[1], seg[2])

\* Drops wanted segments until freeSlabs has grown by count.
HarvestWantedSlabs(m, count) ==
  LET goal == Min({count, Len(m.sm.wanted)})
      round(n, i) == IF Harvested(n, goal, NumFreeSlabs(m)) THEN n
                     ELSE IF n.sm.wanted = <<>> THEN [n EXCEPT !.ranOut = TRUE]
                     ELSE HarvestSegment(n)
  IN  Iterate(round, m, SM!NumWantedSegs(m.sm) + 1)

-----------------------------------------------------------------------------
(***************************************************************************)
(* Requesting slabs: nice producers (all of them in playback mode) wait    *)
(* for free slabs, the others take them, dropping wanted segments.         *)
(***************************************************************************)
RequestFreeSlabs(m, c, numSlabs) ==
  LET niceLevel == m.px[c].nice + m.setup.playback
      short     == IF numSlabs > NumFreeSlabs(m) THEN numSlabs - NumFreeSlabs(m) ELSE 0
      m1        == HarvestWantedSlabs(m, short)
  IN  IF niceLevel # 0
      THEN ServiceSlabRequests([m EXCEPT !.rq = RQ!AddRequest(@, niceLevel, numSlabs, c)])
      ELSE GetFreeSlabs(m1, c, Min({numSlabs, NumFreeSlabs(m1)}))

\* Mutant: asks again for slabs already requested.
FillAgain(m, c) ==
  LET need == T!ProdSlabsNeeded(m.px[c].slabs)
  IN  IF need = 0 THEN m ELSE RequestFreeSlabs([m EXCEPT !.px[c].pending = need], c, need)

FillProducerSlabs(m, c) ==
  LET need == T!ProdSlabsNeeded(m.px[c].slabs)
      toRequest == need - m.px[c].pending
  IN  IF toRequest <= 0
      THEN m
      ELSE RequestFreeSlabs([m EXCEPT !.px[c].pending = need], c, toRequest)

\* IncreaseNumBuffers, one buffer at a time, until the reservation fits or none can be added
MakeRoom(m, n) ==
  LET room == IF m.setup.maxNumBuffers > m.sm.numBuffers
              THEN m.setup.maxNumBuffers - m.sm.numBuffers ELSE 0
      round(k, i) == IF SM!CanReserve(k.sm, n) THEN k
                     ELSE [k EXCEPT !.sm = SM!NumBuffers(@, k.sm.numBuffers + 1)]
  IN  Iterate(round, m, room)

GetSlabReservation(m, n) ==
  LET m1 == MakeRoom(m, n)
      granted == SM!CanReserve(m1.sm, n)
  IN  [failed |-> ~granted,
       m |-> IF granted THEN [m1 EXCEPT !.sm = SM!GetSlabReservation(@, n)] ELSE m1]

-----------------------------------------------------------------------------
(***************************************************************************)
(* Segments for consumers.                                                 *)
(***************************************************************************)
\* TakeConsSlab, IncrementHeldRefcnt and SendBlockIDs for one segment
SendBlockID(m, c, x) ==
  LET p == m.px[c]
      q == [p EXCEPT !.slabs = T!TakeConsSlab(p.slabs, SlabOf(x)),
                     !.holding = p.holding \cup {x},
                     !.inOrder = p.inOrder /\ x \in p.owed
                                 /\ \A y \in (p.owed \cap Queued(m, c)) \ {x} : <<x, y>> \in m.older,
                     !.owed = p.owed \ {x}]
  IN  [IncrementHeldRefcnt(m, SlabOf(x)) EXCEPT !.px[c] = q]

FrontWanted(m, c) == Head(m.px[c].wantedQueue)

PopFront(m, c) ==
  ReleaseWantedSegment([m EXCEPT !.px[c].wantedQueue = Tail(@)], c, FrontWanted(m, c))

\* Mutant: the segment is released before its slab is held.
SendReleased(m, c) == SendBlockID(PopFront(m, c), c, FrontWanted(m, c))

SendFront(m, c) == PopFront(SendBlockID(m, c, FrontWanted(m, c)), c)

\* Mutant: a segment dropped for the queue's size is not reported.
DropFrontSilently(m, c) == PopFront(m, c)

DropFront(m, c) == PopFront(SendDropReport(m, c, {FrontWanted(m, c)}), c)

\* Mutant: the size is enforced in playback mode too.
OverfullAlways(m, c) == Len(m.px[c].wantedQueue) > MaxWantedQueueSize

Overfull(m, c) == Len(m.px[c].wantedQueue) > MaxWantedQueueSize /\ m.setup.playback = 0

\* One round of PopWantedQueue; a round that leaves the front where it is ends the loop.
PopWanted(m, c) ==
  LET x == FrontWanted(m, c)
  IN  IF m.px[c].wantedQueue = <<>> THEN m
      ELSE IF m.info[x][1] \notin m.px[c].regs THEN PopFront(m, c)
      ELSE IF T!CanTakeConsSlab(m.px[c].slabs, SlabOf(x)) THEN SendFront(m, c)
      ELSE IF Overfull(m, c) THEN DropFront(m, c)
      ELSE m

PopWantedQueue(m, c) ==
  Iterate(LAMBDA n, i : PopWanted(n, c), m, Len(m.px[c].wantedQueue))

WantsSegment(m, c, x) ==
  IF m.info[x][1] = CCIMessageID
  THEN m.info[x][2] \in {c, CCIBcastID}
  ELSE m.info[x][1] \in m.px[c].regs

\* Mutant: a segment overtakes those in the wanted queue.
SendableNow(m, c, x) == T!CanTakeConsSlab(m.px[c].slabs, SlabOf(x))

\* tookSlab: nothing is queued, of earlier messages or of this one
Sendable(m, c, x) ==
  m.px[c].wantedQueue = <<>> /\ T!CanTakeConsSlab(m.px[c].slabs, SlabOf(x))

QueueSegment(m, c, x) ==
  Expect([m EXCEPT !.sm = SM!GetWantedSegment(m.sm, <<c, x>>, SlabOf(x)),
                   !.px[c].wantedQueue = Append(m.px[c].wantedQueue, x)],
         ~SM!GetWantedThrows(m.sm, SlabOf(x)))

SendOrQueue(m, c, x) ==
  LET m1 == [m EXCEPT !.px[c].owed = @ \cup {x}]
  IN  IF ~WantsSegment(m, c, x) THEN m
      ELSE IF Sendable(m, c, x) THEN SendBlockID(m1, c, x)
      ELSE QueueSegment(m1, c, x)

(***************************************************************************)
(* SendSegments: the leading wanted segments whose slabs the tracker takes *)
(* are sent; from the first one it refuses on, and whenever earlier ones   *)
(* are still queued, they go to the wanted queue.  The code sorts them     *)
(* into two arrays first and then works these off in this order.           *)
(***************************************************************************)
SendSegments(m, c, xs) ==
  PopWantedQueue(Iterate(LAMBDA n, i : SendOrQueue(n, c, xs[i]), m, Len(xs)), c)

\* Every connected client but those of the sender's group, in the order of the clients map.
TakeBlocksAndInfo(m, src, xs) ==
  LET gid == m.px[src].group
      takes(n, c) == /\ c \in Clients
                     /\ Up(n, c) /\ ~n.px[c].sendFailed
                     /\ gid = 0 \/ gid # n.px[c].group
  IN  Iterate(LAMBDA n, c : IF takes(n, c) THEN SendSegments(n, c, xs) ELSE n, m, MaxClientID)

\* Mutant: one reference is given back for a consumer's slab, not one per segment.
ReleaseOnce(m, t) ==
  LET unprod(n, i) == IF i - 1 \in t.prod THEN DecrementHeldRefcnt(n, i - 1, 1) ELSE n
      uncons(n, i) == IF t.cons[i - 1] > 0 THEN DecrementHeldRefcnt(n, i - 1, 1) ELSE n
  IN  Iterate(uncons, Iterate(unprod, m, TotalNumSlabs), TotalNumSlabs)

\* GetAndEraseProdSlabs, GetAndEraseConsSlabs and DecrementHeldRefcnt of what they return
ReleaseSlabs(m, t) ==
  LET unprod(n, i) == IF i - 1 \in t.prod THEN DecrementHeldRefcnt(n, i - 1, 1) ELSE n
      uncons(n, i) == IF t.cons[i - 1] > 0 THEN DecrementHeldRefcnt(n, i - 1, t.cons[i - 1]) ELSE n
  IN  Iterate(uncons, Iterate(unprod, m, TotalNumSlabs), TotalNumSlabs)

\* the destructor empties the wanted queue
ReleaseQueue(m, c) ==
  Iterate(LAMBDA n, i : PopFront(n, c), m, Len(m.px[c].wantedQueue))

(***************************************************************************)
(* DeleteClient: the client leaves the map, then its proxy's destructor    *)
(* empties the wanted queue and gives back the reservation and the slabs.  *)
(* What else the proxy knows is gone with it.                              *)
(***************************************************************************)
DestroyProxy(m, c) ==
  LET p  == m.px[c]
      m1 == ReleaseQueue([m EXCEPT
              !.px[c] = [Absent("gone") EXCEPT !.wantedQueue = p.wantedQueue]], c)
      reserved == p.slabs.numProdSlabs + p.slabs.numConsSlabs
      m2 == [m1 EXCEPT !.sm = SM!ReleaseSlabReservation(@, reserved)]
  IN  ReleaseSlabs(m2, p.slabs)

-----------------------------------------------------------------------------
(***************************************************************************)
(* The handlers.  A message of a client is one that the client library     *)
(* sends: it returns and publishes what it holds.                          *)
(***************************************************************************)
Arrays(S) == {ids \in BoundedSeq(S, MaxBatch) : ids # <<>> /\ IsInjective(ids)}

AddConnectedClient(c) ==
  /\ mgr.px[c].state = "new"
  /\ mgr' = [mgr EXCEPT !.px[c] = NewProxy]

\* shrinking is refused
MoreSlabs(asked, have) == IF asked > have THEN asked - have ELSE 0

HandleNumSlabs(c, prodSlbs, consSlbs) ==
  LET t  == mgr.px[c].slabs
      dProdSlabs == MoreSlabs(prodSlbs, t.numProdSlabs)
      dConsSlabs == MoreSlabs(consSlbs, t.numConsSlabs)
      result == GetSlabReservation(mgr, dProdSlabs + dConsSlabs)
      p == [mgr.px[c] EXCEPT !.slabs.numProdSlabs = t.numProdSlabs + dProdSlabs,
                             !.slabs.numConsSlabs = t.numConsSlabs + dConsSlabs]
  IN  /\ Up(mgr, c)
      /\ mgr' = Done(IF result.failed
                     THEN DestroyProxy(result.m, c)
                     ELSE FillProducerSlabs([result.m EXCEPT !.px[c] = p], c))

\* prodNiceLevel is a char
HandleProdNiceLevel(c, level) ==
  /\ Up(mgr, c)
  /\ mgr' = [mgr EXCEPT !.px[c] = [mgr.px[c] EXCEPT !.nice = ((level + 128) % 256) - 128]]

HandleGroupIDStr(c, gid) ==
  /\ Up(mgr, c)
  /\ mgr' = IF mgr.px[c].regs # {} \/ mgr.px[c].group # 0
            THEN Done(DestroyProxy(mgr, c))
            ELSE [mgr EXCEPT !.px[c] = [mgr.px[c] EXCEPT !.group = gid]]

\* the segments of message id that are queued for client c
QueuedOf(m, c, id) == {x \in Queued(m, c) : m.info[x][1] = id}

Register(c, id) ==
  /\ Up(mgr, c)
  /\ mgr' = [mgr EXCEPT !.px[c] = [mgr.px[c] EXCEPT
                                     !.regs = @ \cup {id},
                                     !.owed = @ \cup QueuedOf(mgr, c, id)]]

Deregister(c, id) ==
  /\ Up(mgr, c)
  /\ mgr' = [mgr EXCEPT !.px[c] = [mgr.px[c] EXCEPT
                                     !.regs = @ \ {id},
                                     !.owed = @ \ QueuedOf(mgr, c, id)]]

\* The client fills the next blocks of its slabs, and their names are sent in an array.
Uses(ids, s, k) == Cardinality({i \in 1..k : ids[i] = s})

NextBlocks(fill, ids) == [i \in 1..Len(ids) |-> <<ids[i], fill[ids[i]] + Uses(ids, ids[i], i)>>]

HandleBlocksAndInfo(c, ids, kind) ==
  LET xs    == NextBlocks(mgr.fill, ids)
      new   == Range(xs)
      fill  == [s \in Slabs |-> mgr.fill[s] + Uses(ids, s, Len(ids))]
      info  == [x \in Blocks |-> IF x \in new THEN kind ELSE mgr.info[x]]
      older == mgr.older \cup (Referenced(mgr) \X new)
                 \cup {xy \in new \X new :
                         \E i, j \in 1..Len(ids) : i < j /\ xy = <<xs[i], xs[j]>>}
      intact == mgr.intact /\ new \cap Referenced(mgr) = {}
      filled == [mgr EXCEPT !.fill = fill, !.info = info, !.older = older, !.intact = intact]
  IN  /\ Up(mgr, c)
      /\ \A s \in Slabs : fill[s] <= BlocksPerSlab
      /\ mgr' = Done(TakeBlocksAndInfo(filled, c, xs))

HandleBlockIDs(c, xs) ==
  LET p   == mgr.px[c]
      ids == [i \in 1..Len(xs) |-> SlabOf(xs[i])]
      q   == [p EXCEPT !.slabs = T!DecrementConsSlabs(p.slabs, ids),
                       !.holding = p.holding \ Range(xs)]
      m1  == Expect([mgr EXCEPT !.px[c] = q], ~T!DecrementErrs(p.slabs, ids))
  IN  /\ Up(mgr, c)
      /\ mgr' = Done(PopWantedQueue(DecrementHeldRefcnts(m1, ids), c))

HandleSlabIDs(c, ids) ==
  LET p  == mgr.px[c]
      q  == [p EXCEPT !.slabs = T!EraseProdSlabs(p.slabs, ids)]
      m1 == Expect([mgr EXCEPT !.px[c] = q], ~T!EraseThrows(p.slabs, ids))
  IN  /\ Up(mgr, c)
      /\ mgr' = Done(FillProducerSlabs(DecrementHeldRefcnts(m1, ids), c))

\* The client acknowledges the report that is outstanding.
HandleDropReportAck(c) ==
  /\ Up(mgr, c)
  /\ mgr.px[c].throttle
  /\ mgr' = SendDropReport([mgr EXCEPT !.px[c] = [mgr.px[c] EXCEPT !.throttle = FALSE]], c, {})

\* HandleSendWouldBlock: a send to the client has failed; the proxy stays until it is read.
SendFails(c) ==
  /\ Up(mgr, c)
  /\ mgr.setup.options[c].sendFails
  /\ ~mgr.px[c].sendFailed
  /\ mgr' = [mgr EXCEPT !.px[c] = [mgr.px[c] EXCEPT !.sendFailed = TRUE]]

DeleteClient(c) ==
  /\ Up(mgr, c)
  /\ mgr' = Done(DestroyProxy(mgr, c))

\* BaseClient::Connect: the nice level comes before the reservation, registrations after it.
Reserved(c) == mgr.px[c].slabs.numProdSlabs > 0

ClientStep(c) ==
  \/ AddConnectedClient(c)
  \/ \E n \in mgr.setup.options[c].numSlabs : HandleNumSlabs(c, n[1], n[2])
  \/ \E level \in mgr.setup.options[c].nice : ~Reserved(c) /\ HandleProdNiceLevel(c, level)
  \/ \E gid \in mgr.setup.options[c].groups : HandleGroupIDStr(c, gid)
  \/ \E id \in mgr.setup.options[c].register : Reserved(c) /\ Register(c, id)
  \/ \E id \in mgr.setup.options[c].deregister : Deregister(c, id)
  \/ \E kind \in mgr.setup.options[c].publish, ids \in BoundedSeq(mgr.px[c].slabs.prod, MaxBatch) \ {<<>>} :
       HandleBlocksAndInfo(c, ids, kind)
  \/ \E xs \in Arrays(mgr.px[c].holding) : HandleBlockIDs(c, xs)
  \/ \E ids \in Arrays(mgr.px[c].slabs.prod) :
       mgr.setup.options[c].publish # {} /\ HandleSlabIDs(c, ids)
  \/ HandleDropReportAck(c)
  \/ SendFails(c)
  \/ DeleteClient(c)

Next == \E c \in Clients : ClientStep(c)

Spec == Init /\ [][Next]_mgr

(***************************************************************************)
(* Weak fairness of two steps, written out with the condition that enables *)
(* each: consumers go on returning the segments they were sent, and the    *)
(* event loop deletes a client whose socket it has shut down.              *)
(***************************************************************************)
Fairness ==
  \A c \in Clients :
    /\ \/ []<>(mgr.px[c].holding = {})
       \/ []<><<\E xs \in Arrays(mgr.px[c].holding) : HandleBlockIDs(c, xs)>>_mgr
    /\ \/ []<>~mgr.px[c].sendFailed
       \/ []<><<DeleteClient(c)>>_mgr

FairSpec == Spec /\ Fairness

-----------------------------------------------------------------------------
Proxy(c)   == mgr.px[c]
Tracker(c) == mgr.px[c].slabs
\* the slabs that client c's requests ask for
Requested(c) ==
  LET asks(level) == {i \in 1..Len(mgr.rq[level]) : mgr.rq[level][i].id = c}
  IN  UNION {UNION {{<<level, i>>} \X (1..mgr.rq[level][i].numSlabs) : i \in asks(level)} :
               level \in RQ!Levels}

\* clients that fill slab s, and segments of it that clients read
Producers(m, s) == {c \in Clients : s \in m.px[c].slabs.prod}
Readers(m, s) ==
  {cx \in Clients \X Blocks : cx[2] \in m.px[cx[1]].holding /\ SlabOf(cx[2]) = s}

(***************************************************************************)
(* Reference counting across clients: SlabInfo::heldRefcnt of a slab is    *)
(* the number of its producers and of the segments in it that consumers    *)
(* were sent and have not returned.  A handler that releases twice, or     *)
(* loses a reference when it disconnects a client halfway, breaks it       *)
(* (IncrementHeldRefcnt and DecrementHeldRefcnt in ClientProxy.cc).        *)
(***************************************************************************)
RefcntConserved ==
  \A s \in Slabs :
    mgr.sm.heldRefcnt[s] = Cardinality(Producers(mgr, s)) + Cardinality(Readers(mgr, s))

\* every slab that a connected client has reserved
Reservations(m) ==
  UNION {{c} \X (1..(m.px[c].slabs.numProdSlabs + m.px[c].slabs.numConsSlabs)) : c \in Clients}

(***************************************************************************)
(* numSlabsReserved counts what the connected clients reserved:            *)
(* HandleNumSlabs and the destructor reserve and release in balance, also  *)
(* for a repeated or refused NumSlabs message.                             *)
(***************************************************************************)
ReservedIsSum == mgr.sm.reserved = Cardinality(Reservations(mgr))

(***************************************************************************)
(* The tracker's counters count: prodSlabsHeld and consSlabsHeld are the   *)
(* numbers of slabs held, a consumer stays within its reservation, and its *)
(* refcounts are the segments it has not returned (ProxySlabTracker.cc).   *)
(***************************************************************************)
TrackersCount ==
  \A c \in Connected(mgr) :
    /\ Tracker(c).prodSlabsHeld = Cardinality(Tracker(c).prod)
    /\ Tracker(c).consSlabsHeld = Cardinality({s \in Slabs : Tracker(c).cons[s] > 0})
    /\ Tracker(c).consSlabsHeld <= Tracker(c).numConsSlabs
    /\ \A s \in Slabs :
         Tracker(c).cons[s] = Cardinality({x \in Proxy(c).holding : SlabOf(x) = s})

(***************************************************************************)
(* "if there are any errors, throw and don't decrement anything"           *)
(* (ProxySlabTracker.cc:135): DecrementConsSlabs throws for exactly the    *)
(* arrays that return more segments of some slab than the client holds,    *)
(* in whatever order and mixed with slabs it does hold, and its second     *)
(* pass then undoes the first, also where a refcount wrapped below zero:   *)
(* the destructor that follows gives back what the tracker counts.         *)
(***************************************************************************)
OverReturnRefused ==
  \A c \in Connected(mgr), ids \in [1..2 -> Slabs] :
    LET t == Tracker(c)
        over == \E s \in ToSet(ids) :
                  Cardinality({i \in 1..Len(ids) : ids[i] = s}) > t.cons[s]
    IN  /\ T!DecrementErrs(t, ids) <=> over
        /\ over => T!DecrementConsSlabs(t, ids) = t

(***************************************************************************)
(* A WantedSegment is on two intrusive lists, its client's wantedQueue and *)
(* its slab's wantedSegs, and on both or on neither: no list keeps a       *)
(* segment that the other has given back to the pool.                      *)
(***************************************************************************)
WantedListsAgree ==
  \A s \in Slabs :
    /\ IsInjective(mgr.sm.wantedSegs[s])
    /\ Range(mgr.sm.wantedSegs[s]) =
         {cx \in Connected(mgr) \X Blocks :
            cx[2] \in Queued(mgr, cx[1]) /\ SlabOf(cx[2]) = s}

(***************************************************************************)
(* Zero copy: no producer is given a slab to fill while a segment in it is *)
(* being read by a consumer or is queued for one.  The block that a        *)
(* BlockIDs message names, and the BlockInfo that PopWantedQueue reads     *)
(* long after the segment was published, are still those of that segment.  *)
(***************************************************************************)
ContentIntact == mgr.intact

(***************************************************************************)
(* Segments are sent to a client in the order in which they were           *)
(* published, none twice, and none queued is older than one already sent,  *)
(* whichever way each one took (SendSegments, PopWantedQueue).             *)
(***************************************************************************)
DeliveryInOrder ==
  \A c \in Connected(mgr) :
    /\ Proxy(c).inOrder
    /\ \A i, j \in 1..Len(Proxy(c).wantedQueue) :
         i < j => <<Proxy(c).wantedQueue[i], Proxy(c).wantedQueue[j]>> \in mgr.older

(***************************************************************************)
(* "such consumers are reliably notified if messages were dropped"         *)
(* (README.md:30): a segment that a client wanted when it was published    *)
(* leaves the client's wanted queue only when it is sent, handed to the    *)
(* client's drop reporter, or forgone by deregistering; and the reporter   *)
(* holds a report back only while an earlier one is not acknowledged.      *)
(***************************************************************************)
NoSilentLoss ==
  \A c \in Connected(mgr) : ~Proxy(c).lost /\ (Proxy(c).needReport => Proxy(c).throttle)

(***************************************************************************)
(* The exceptions the code marks as impossible do not occur: a refcount    *)
(* below zero, a reference to a free slab, a wanted segment in a free slab *)
(* and a slab given to a producer that has it.                             *)
(***************************************************************************)
NothingThrown == ~mgr.err

(***************************************************************************)
(* Nor does a harvest run out of wanted slabs because pending requests     *)
(* took those that it freed.                                               *)
(***************************************************************************)
NeverThrows == NothingThrown /\ ~mgr.ranOut

(***************************************************************************)
(* "this is supposed to be guaranteed/enforced by reservation"             *)
(* (Manager.cc:105): a greedy producer holds every slab that it reserved   *)
(* after any handler, however many of them other clients read, have queued *)
(* or wait for; RequestFreeSlabs leaves nothing for later.                 *)
(***************************************************************************)
Greedy(c) == Proxy(c).nice + mgr.setup.playback = 0

GreedyIsFilled ==
  \A c \in Connected(mgr) :
    Greedy(c) => Tracker(c).prodSlabsHeld = Tracker(c).numProdSlabs

(***************************************************************************)
(* No request is lost and none is made twice: pendingFreeSlabRqsts is the  *)
(* number of slabs that the producer lacks, and that many are asked for in *)
(* the slab request manager's lists, also while a request is split and     *)
(* put back by ServiceSlabRequests in the middle of another handler.       *)
(***************************************************************************)
PendingIsRequested ==
  \A c \in Connected(mgr) :
    /\ Proxy(c).pending = T!ProdSlabsNeeded(Tracker(c))
    /\ ~Greedy(c) => Proxy(c).pending = Cardinality(Requested(c))

(***************************************************************************)
(* A request waits only while no slab is free: every slab that becomes     *)
(* free in the middle of a handler is given to a waiting producer before   *)
(* the handler ends (HandleSlabStateChange).                               *)
(***************************************************************************)
NoIdleFreeSlab == RQ!HasRequests(mgr.rq) => NumFreeSlabs(mgr) = 0

(***************************************************************************)
(* "playback/non-realtime mode (don't drop blocks)" (ManagerParams.cc:178):*)
(* in playback mode no client is ever sent a drop report.                  *)
(***************************************************************************)
PlaybackLossless ==
  mgr.setup.playback = 1 => \A c \in Clients : ~Proxy(c).needReport /\ ~Proxy(c).throttle

(***************************************************************************)
(* A producer that waits for a slab gets one, or disconnects, as long as   *)
(* consumers return what they hold: no cycle of wanted slabs, queues and   *)
(* requests of the same nice level blocks it for good                      *)
(* (ServiceSlabRequests, PopWantedQueue).                                  *)
(***************************************************************************)
RequestsServed ==
  \A c \in Clients :
    (Up(mgr, c) /\ Proxy(c).pending > 0) ~> (~Up(mgr, c) \/ Tracker(c).prod # {})
=============================================================================
