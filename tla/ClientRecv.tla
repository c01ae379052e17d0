---------------------------- MODULE ClientRecv ----------------------------
(*************************************************************************)
(* The receiving half of the client library: ClientRecvManager, which    *)
(* puts messages together from the segments that arrive, the counted     *)
(* RecvMessageDescriptor objects of the program, and Client::Poll, which *)
(* calls the program's message handlers.  At the other end, the part of  *)
(* ClientProxy that sends segments to one consumer and drops those that  *)
(* are too many.  Every segment lies in a slab of its own, so that it    *)
(* needs a consumer slab of its own.                                     *)
(*************************************************************************)
EXTENDS Integers, Sequences, FiniteSets, SequencesExt

CONSTANTS
  MaxMsgs,         \* bound: number of messages published
  Sizes,           \* numbers of segments a message may have
  MsgIDs,          \* message IDs
  CrcOutcomes,     \* may the contents differ from the checksum when read?
  VerifyCrcs,      \* crcPolicy has eVerifyCrcs
  NumConsSlabs,    \* the consumer slabs reserved
  MaxWantedQueueSize,
  Vars             \* the program's RecvMessageDescriptor variables

ASSUME RecvAssumption ==
  /\ MaxMsgs \in Nat /\ NumConsSlabs \in Nat \ {0} /\ MaxWantedQueueSize \in Nat
  /\ Sizes \subseteq Nat \ {0} /\ IsFiniteSet(Vars)
  /\ CrcOutcomes \subseteq BOOLEAN /\ VerifyCrcs \in BOOLEAN

VARIABLES
  recvMgr,      \* the ClientRecvManager
  held,         \* descriptor in each of the program's variables
  rmd,          \* descriptor that a message handler was called with
  pc,           \* where the client is
  segsAtEntry,  \* local variable of Client::Poll
  toMgr,        \* block IDs returned and echoes, on their way to the manager
  fromMgr,      \* segments and echoes on their way to the client
  wantedQueue,  \* segments that the client's proxy has queued
  consSegs,     \* segments whose slabs the proxy counts against the reservation
  published,    \* history: the messages published, in order
  delivered,    \* history: messages that a handler was called with
  dropped       \* history: the proxy has dropped a segment

vars == <<recvMgr, held, rmd, pc, segsAtEntry, toMgr, fromMgr, wantedQueue, consSegs,
          published, delivered, dropped>>
clientVars == <<recvMgr, held, rmd, pc, segsAtEntry, delivered>>

\* Outside the library; in Client::Poll reading the socket, in its loop, in
\* GetRecvMsgDesc, in a message handler; dead.
Phases == {"idle", "poll", "service", "get", "handler", "crashed"}

Msgs == 1 .. MaxMsgs
\* A segment and its BlockInfo: message published, message ID, segmentNumber,
\* numSegments, and whether the checksum is right.
Segment == [msg : Msgs, id : MsgIDs, num : Nat, of : Sizes, crc : BOOLEAN]
Echo == [type |-> "echo"]
SegItem(seg) == [type |-> "seg", seg |-> seg]

Null == <<>>                     \* the null descriptor
\* The segments among the items of a socket
SegsIn(items) == {items[k].seg : k \in {j \in DOMAIN items : items[j] # Echo}}

-----------------------------------------------------------------------------
(* ClientRecvManager; a descriptor is the sequence of its segments.  refcnt   *)
(* is that of a message's first segment.  retiredSegs holds what the next     *)
(* SendRetiredSegments returns.                                               *)

RecvState ==
  [pendingSegs : Seq(Segment), busySegs : SUBSET Segment, retiredSegs : Seq(Segment),
   pendingMsg : Seq(Segment), refcnt : [Msgs -> Nat], numSegmentsRcvd : Nat]

InitRecvManager ==
  [pendingSegs |-> <<>>, busySegs |-> {}, retiredSegs |-> <<>>, pendingMsg |-> Null,
   refcnt |-> [m \in Msgs |-> 0], numSegmentsRcvd |-> 0]

\* Mutant: what arrives goes before what is pending.
AddSegmentFirst(rm, seg) ==
  [rm EXCEPT !.pendingSegs = <<seg>> \o @,
             !.refcnt = IF seg.num = 0 THEN [@ EXCEPT ![seg.msg] = 1] ELSE @,
             !.numSegmentsRcvd = @ + 1]

\* AddSegments, for one segment
AddSegment(rm, seg) ==
  [rm EXCEPT !.pendingSegs = Append(@, seg),
             !.refcnt = IF seg.num = 0 THEN [@ EXCEPT ![seg.msg] = 1] ELSE @,
             !.numSegmentsRcvd = @ + 1]

\* The segments at the head of segs make up a message.
Matches(segs) ==
  \A i \in 2 .. segs[1].of :
    segs[i].of = segs[1].of /\ segs[i].num = i - 1 /\ segs[i].id = segs[1].id

\* Mutant: messages of more segments than we can hold are waited for.
DropsHeadMismatch(segs) ==
  \/ segs[1].num # 0
  \/ segs[1].of <= Len(segs) /\ ~Matches(segs)

\* GetMessageDescriptor drops the head segment: it is not the first of a message,
\* or of more than we can hold, or what follows does not match.
DropsHead(segs) ==
  \/ segs[1].num # 0 \/ segs[1].of > NumConsSlabs
  \/ segs[1].of <= Len(segs) /\ ~Matches(segs)

From(segs, k) == SubSeq(segs, k + 1, Len(segs))

\* The number of segments that the loop drops
NumDropped(segs) ==
  CHOOSE k \in 0 .. Len(segs) :
    /\ k = Len(segs) \/ ~DropsHead(From(segs, k))
    /\ \A j \in 0 .. k - 1 : DropsHead(From(segs, j))

\* Mutant: does not wait for all segments.
GetPartialDescriptor(rm) ==
  LET k    == NumDropped(rm.pendingSegs)
      rest == From(rm.pendingSegs, k)
      n    == IF rest = <<>> THEN 0
              ELSE IF rest[1].of > Len(rest) THEN Len(rest) ELSE rest[1].of
      desc == SubSeq(rest, 1, n)
  IN  IF rm.pendingMsg # Null
      THEN [rm |-> [rm EXCEPT !.pendingMsg = Null], desc |-> rm.pendingMsg]
      ELSE [rm   |-> [rm EXCEPT !.pendingSegs = From(rest, n),
                                !.busySegs    = @ \cup Range(desc),
                                !.retiredSegs = @ \o SubSeq(rm.pendingSegs, 1, k)],
            desc |-> desc]

GetMessageDescriptor(rm) ==
  LET k    == NumDropped(rm.pendingSegs)
      rest == From(rm.pendingSegs, k)
      n    == IF rest = <<>> \/ rest[1].of > Len(rest) THEN 0 ELSE rest[1].of
      desc == SubSeq(rest, 1, n)
  IN  IF rm.pendingMsg # Null
      THEN [rm |-> [rm EXCEPT !.pendingMsg = Null], desc |-> rm.pendingMsg]
      ELSE [rm   |-> [rm EXCEPT !.pendingSegs = From(rest, n),
                                !.busySegs    = @ \cup Range(desc),
                                !.retiredSegs = @ \o SubSeq(rm.pendingSegs, 1, k)],
            desc |-> desc]

\* PendingMessage keeps the message for the next GetMessageDescriptor.
PendingMessage(rm) ==
  LET got == GetMessageDescriptor(rm)
  IN  IF rm.pendingMsg # Null THEN rm ELSE [got.rm EXCEPT !.pendingMsg = got.desc]

\* Mutant: only the first segment is retired.
ReleaseFirstSegment(rm, desc) ==
  [rm EXCEPT !.busySegs = @ \ Range(desc), !.retiredSegs = Append(@, desc[1])]

ReleaseMessageDescriptor(rm, desc) ==
  [rm EXCEPT !.busySegs = @ \ Range(desc), !.retiredSegs = @ \o desc]

-----------------------------------------------------------------------------
(* ClientImpl and the descriptors *)

\* SendRetiredSegments: what goes to the manager, and what is left
RetiredItems(rm) == [k \in DOMAIN rm.retiredSegs |-> SegItem(rm.retiredSegs[k])]
SendRetired(rm) ==
  /\ recvMgr' = [rm EXCEPT !.retiredSegs = <<>>]
  /\ toMgr' = toMgr \o RetiredItems(rm)

ValidCRC(desc) == \A g \in Range(desc) : g.crc

\* GetRecvMsgDesc releases messages with a wrong checksum and tries the next.
Discards(desc) == VerifyCrcs /\ desc # Null /\ ~ValidCRC(desc)

\* RecvMessageDescriptor::inc and dec; the last one releases the segments.
Inc(rm, desc) == IF desc = Null THEN rm ELSE [rm EXCEPT !.refcnt[desc[1].msg] = @ + 1]
Dec(rm, desc) ==
  LET less == [rm EXCEPT !.refcnt[desc[1].msg] = @ - 1]
  IN  IF desc = Null THEN rm
      ELSE IF less.refcnt[desc[1].msg] # 0 THEN less
      ELSE ReleaseMessageDescriptor(less, desc)

\* Mutant: the reference of the temporary is not replaced by one of its own.
AssignUncounted(rm, old, new) == Dec(Dec(Inc(rm, new), old), new)

\* operator=: the temporary copy keeps the source alive while the old one goes.
Assign(rm, old, new) == Dec(Inc(Dec(Inc(rm, new), old), new), new)

-----------------------------------------------------------------------------
(* Client::Poll *)

\* Parse hands over one message of the stream.
HandleItem ==
  /\ fromMgr # <<>>
  /\ fromMgr' = Tail(fromMgr)
  /\ recvMgr' = IF Head(fromMgr) = Echo THEN recvMgr ELSE AddSegment(recvMgr, Head(fromMgr).seg)
  /\ UNCHANGED <<held, rmd, segsAtEntry, toMgr, wantedQueue, consSegs,
                 published, delivered, dropped>>

\* The socket is readable: read part of the stream,
Poll == pc \in {"idle", "poll"} /\ HandleItem /\ pc' = "poll"

\* then service the messages.
StartService ==
  /\ pc = "poll"
  /\ pc' = "service" /\ segsAtEntry' = recvMgr.numSegmentsRcvd
  /\ UNCHANGED <<recvMgr, held, rmd, toMgr, fromMgr, wantedQueue, consSegs,
                 published, delivered, dropped>>

EntrySegsDone ==
  segsAtEntry + Len(recvMgr.pendingSegs) < recvMgr.numSegmentsRcvd

\* One iteration: PendingRecvMessage finds a message,
PendingRecvMessage ==
  /\ pc = "service" /\ ~EntrySegsDone
  /\ LET rm == PendingMessage(recvMgr)
     IN  rm.pendingMsg # Null /\ SendRetired(rm)
  /\ pc' = "get"
  /\ UNCHANGED <<held, rmd, segsAtEntry, fromMgr, wantedQueue, consSegs,
                 published, delivered, dropped>>

\* GetRecvMsgDesc takes it, and the next one if its checksum is wrong,
DiscardMessage ==
  /\ pc = "get"
  /\ LET got == GetMessageDescriptor(recvMgr)
     IN  /\ Discards(got.desc)
         /\ SendRetired(ReleaseMessageDescriptor(got.rm, got.desc))
  /\ UNCHANGED <<held, rmd, pc, segsAtEntry, fromMgr, wantedQueue, consSegs,
                 published, delivered, dropped>>

\* and HandleRecvMessage calls the handlers.  If there was no next one the
\* descriptor is null, and the client dies of looking up its message ID.
CallHandler ==
  /\ pc = "get"
  /\ LET got == GetMessageDescriptor(recvMgr)
     IN  /\ ~Discards(got.desc)
         /\ SendRetired(got.rm)
         /\ rmd' = got.desc
         /\ delivered' = delivered \cup {g.msg : g \in Range(got.desc)}
         /\ pc' = IF got.desc = Null THEN "crashed" ELSE "handler"
  /\ UNCHANGED <<held, segsAtEntry, fromMgr, wantedQueue, consSegs, published, dropped>>

\* Mutant: no echo is sent.
LeavesNothing(rm) == FALSE

\* Segments left behind: an echo makes the socket readable again.
LeavesWork(rm) == rm.pendingSegs # <<>> \/ rm.pendingMsg # Null

\* The end of the loop.  When EntrySegsDone ends it, PendingRecvMessage is called
\* only if no segments are pending, and then does nothing.
PollReturns ==
  /\ pc = "service"
  /\ EntrySegsDone \/ PendingMessage(recvMgr).pendingMsg = Null
  /\ LET rm == IF EntrySegsDone THEN recvMgr ELSE PendingMessage(recvMgr)
     IN  /\ recvMgr' = [rm EXCEPT !.retiredSegs = <<>>]
         /\ toMgr' = toMgr \o RetiredItems(rm)
                     \o (IF LeavesWork(rm) THEN <<Echo>> ELSE <<>>)
  /\ pc' = "idle" /\ segsAtEntry' = 0
  /\ UNCHANGED <<held, rmd, fromMgr, wantedQueue, consSegs,
                 published, delivered, dropped>>

\* A handler may itself wait in Poll, to send for example; messages are not
\* serviced then.
NestedPoll == pc = "handler" /\ HandleItem /\ UNCHANGED pc

\* The handler keeps a copy of the descriptor.
KeepCopy(v) ==
  /\ pc = "handler"
  /\ SendRetired(Assign(recvMgr, held[v], rmd))
  /\ held' = [held EXCEPT ![v] = rmd]
  /\ UNCHANGED <<rmd, pc, segsAtEntry, fromMgr, wantedQueue, consSegs,
                 published, delivered, dropped>>

\* The program assigns one of its variables to another, or to itself.
AssignVar(v, w) ==
  /\ pc \in {"idle", "handler"}
  /\ SendRetired(Assign(recvMgr, held[v], held[w]))
  /\ held' = [held EXCEPT ![v] = held[w]]
  /\ UNCHANGED <<rmd, pc, segsAtEntry, fromMgr, wantedQueue, consSegs,
                 published, delivered, dropped>>

\* A variable goes out of scope.
Destroy(v) ==
  /\ pc \in {"idle", "handler"} /\ held[v] # Null
  /\ SendRetired(Dec(recvMgr, held[v]))
  /\ held' = [held EXCEPT ![v] = Null]
  /\ UNCHANGED <<rmd, pc, segsAtEntry, fromMgr, wantedQueue, consSegs,
                 published, delivered, dropped>>

\* All handlers have returned, and the loop's descriptor goes out of scope.
HandlerReturns ==
  /\ pc = "handler"
  /\ SendRetired(Dec(recvMgr, rmd))
  /\ rmd' = Null
  /\ pc' = "service"
  /\ UNCHANGED <<held, segsAtEntry, fromMgr, wantedQueue, consSegs,
                 published, delivered, dropped>>

-----------------------------------------------------------------------------
(* The client's proxy in the manager.  It goes on for a while when the client *)
(* has died: until the manager sees the hang-up (module Manager).             *)

\* PopWantedQueue: send what the reservation allows, drop what is too much.
PopWantedQueue(queue, taken) ==
  LET room == NumConsSlabs - Cardinality(taken)
      n    == IF Len(queue) < room THEN Len(queue) ELSE room
      rest == From(queue, n)
      over == IF Len(rest) > MaxWantedQueueSize THEN Len(rest) - MaxWantedQueueSize ELSE 0
  IN  /\ fromMgr' = fromMgr \o [k \in 1 .. n |-> SegItem(queue[k])]
      /\ consSegs' = taken \cup {queue[k] : k \in 1 .. n}
      /\ wantedQueue' = From(rest, over)
      /\ dropped' = (dropped \/ over > 0)

\* A producer publishes a message; SendSegments sends segments directly while
\* none wait and queues the others, which comes to the same as queueing all.
Publish(id, of, crc) ==
  /\ Len(published) < MaxMsgs
  /\ LET m == Len(published) + 1
     IN  PopWantedQueue(wantedQueue \o [k \in 1 .. of |->
                          [msg |-> m, id |-> id, num |-> k - 1, of |-> of, crc |-> crc]],
                        consSegs)
  /\ published' = Append(published, [of |-> of, crc |-> crc])
  /\ UNCHANGED <<clientVars, toMgr>>

ProxyHandles ==
  /\ toMgr # <<>>
  /\ toMgr' = Tail(toMgr)
  /\ IF Head(toMgr) = Echo
     THEN fromMgr' = Append(fromMgr, Echo) /\ UNCHANGED <<wantedQueue, consSegs, dropped>>
     ELSE PopWantedQueue(wantedQueue, consSegs \ {Head(toMgr).seg})
  /\ UNCHANGED <<clientVars, published>>

-----------------------------------------------------------------------------

Init ==
  /\ recvMgr = InitRecvManager
  /\ held = [v \in Vars |-> Null] /\ rmd = Null
  /\ pc = "idle" /\ segsAtEntry = 0
  /\ toMgr = <<>> /\ fromMgr = <<>> /\ wantedQueue = <<>> /\ consSegs = {}
  /\ published = <<>> /\ delivered = {} /\ dropped = FALSE

Next ==
  \/ Poll \/ StartService \/ PendingRecvMessage \/ DiscardMessage \/ CallHandler \/ PollReturns
  \/ NestedPoll \/ HandlerReturns
  \/ \E v \in Vars : KeepCopy(v) \/ Destroy(v)
  \/ \E v, w \in Vars : AssignVar(v, w)
  \/ \E id \in MsgIDs, of \in Sizes, crc \in CrcOutcomes : Publish(id, of, crc)
  \/ ProxyHandles

\* The program polls when the socket is readable, its handlers return, and time
\* and again, while it lives, it has released all descriptors; the manager reads
\* its sockets.  Nothing makes anybody publish.
Fairness ==
  /\ WF_vars(Poll) /\ WF_vars(StartService)
  /\ WF_vars(PendingRecvMessage \/ DiscardMessage \/ CallHandler \/ PollReturns)
  /\ WF_vars(HandlerReturns) /\ WF_vars(ProxyHandles)
  /\ []<>(pc = "crashed" \/ \A v \in Vars : held[v] = Null)

Spec == Init /\ [][Next]_vars /\ Fairness

-----------------------------------------------------------------------------

\* Descriptors in the hands of the program or about to be
InUse == {held[v] : v \in Vars} \cup {rmd, recvMgr.pendingMsg}

\* Every segment that the proxy counts against the client's reservation is in
\* exactly one place: on its way, pending, in use, or on its way back.  So each is
\* returned once, and none is forgotten.
SegmentsConserved ==
  LET once(items) == \A i, j \in DOMAIN items : items[i] = items[j] /\ items[i] # Echo => i = j
      places == <<SegsIn(fromMgr), Range(recvMgr.pendingSegs), recvMgr.busySegs,
                  Range(recvMgr.retiredSegs), SegsIn(toMgr)>>
  IN  /\ once(fromMgr) /\ once(toMgr)
      /\ IsInjective(recvMgr.pendingSegs) /\ IsInjective(recvMgr.retiredSegs)
      /\ \A p, q \in DOMAIN places : p # q => places[p] \cap places[q] = {}
      /\ UNION Range(places) = consSegs

\* The segments of a descriptor stay with the client as long as some variable, or
\* the running handler, has the descriptor, and no longer.
KeptWhileUsed ==
  /\ recvMgr.busySegs = UNION {Range(d) : d \in InUse}
  /\ \A d \in InUse \ {Null} :
       recvMgr.refcnt[d[1].msg] =
         Cardinality({v \in Vars : held[v] = d}) + (IF rmd = d THEN 1 ELSE 0)
                                                + (IF recvMgr.pendingMsg = d THEN 1 ELSE 0)

\* "one or more segments that have been received as a single message": a handler
\* gets all the segments of one published message, in order, and nothing else.
DeliveredWhole ==
  \A d \in InUse \ {Null} :
    /\ Len(d) = published[d[1].msg].of
    /\ \A i \in DOMAIN d : d[i].msg = d[1].msg /\ d[i].num = i - 1

\* As long as the proxy drops nothing, handlers get whole messages, also when
\* messages that are too long for the client are among them.
WholeUnlessDropped == ~dropped => DeliveredWhole

\* Handlers are called with messages in the order of publication, and with none
\* twice.
DeliveredInOrder ==
  [][pc # "handler" /\ pc' = "handler" => \A m \in delivered : m < rmd'[1].msg]_vars

\* What a client may die of: it verifies checksums, and there was a wrong one.
DiedOfChecksum ==
  pc = "crashed" /\ VerifyCrcs /\ \E m \in DOMAIN published : ~published[m].crc

\* Unless the proxy drops something or a wrong checksum kills the client, every
\* message that the client can hold and that has the right checksum is delivered, also
\* behind one with a wrong checksum (which is passed over when the next message is
\* there already, and kills the client otherwise), and also when segments arrive while a handler runs and Client::Poll
\* leaves them for later: the echo that it sends itself makes the socket readable
\* again.
AllDelivered ==
  \A m \in Msgs :
    (/\ m \in DOMAIN published /\ published[m].of <= NumConsSlabs
     /\ VerifyCrcs => published[m].crc)
      ~> (m \in delivered \/ dropped \/ DiedOfChecksum)

\* A client that keeps polling and releasing is never stuck, unless it dies of a wrong
\* checksum: segments of
\* which others were dropped do not fill its reservation for good.
QueueDrains == wantedQueue # <<>> ~> (wantedQueue = <<>> \/ DiedOfChecksum)
===========================================================================
