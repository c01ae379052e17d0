---------------------------- MODULE ClientSend ----------------------------
(*************************************************************************)
(* The sending half of the client library: ClientSendManager, which cuts *)
(* segments out of the slabs that a client was given to fill, and the    *)
(* methods of ClientImpl that use it.  The manager at the other end of   *)
(* the socket is external: it hands out slabs up to the reservation and  *)
(* takes back what is returned.                                          *)
(*************************************************************************)
EXTENDS Integers, Sequences, FiniteSets, SequencesExt

CONSTANTS
  Slabs,            \* IDs of the slabs in shared memory
  BlocksPerSlab,
  BlockSize,        \* bytes in a block
  UIntRange,        \* number of values of a uint32_t
  NumProdSlabs,     \* the reservation that the manager confirmed
  MaxWorking,       \* maxWorkingSlabs, 1 in the constructor
  Lens              \* message lengths, in bytes, that the program asks for

ASSUME SendAssumption ==
  /\ Slabs \subseteq Nat /\ IsFiniteSet(Slabs)
  /\ BlocksPerSlab \in Nat \ {0} /\ BlockSize \in Nat \ {0} /\ UIntRange \in Nat
  /\ NumProdSlabs \in 1 .. Cardinality(Slabs)
  /\ MaxWorking \in Nat
  /\ Lens \subseteq Nat
  /\ \A len \in Lens : len + BlockSize <= UIntRange

VARIABLES
  sendMgr,    \* the ClientSendManager
  descs,      \* send descriptors that the program has got and not given back
  call,       \* the GetSendMsgDesc call in progress, or NoCall
  closed,     \* BaseClient::Close() was called
  toMgr,      \* control messages on their way to the manager
  fromMgr,    \* slab IDs on their way to the client
  mgrHeld,    \* slabs that the manager has recorded as this producer's
  handed,     \* history: the segments cut from each slab since it arrived
  needless    \* history: a call failed although it could have been served

vars == <<sendMgr, descs, call, closed, toMgr, fromMgr, mgrHeld, handed, needless>>

Segment == [slab : Slabs, first : 0 .. BlocksPerSlab - 1, n : 1 .. BlocksPerSlab]
NoCall == [state |-> "none"]

SlabsOf(desc) == {desc[i].slab : i \in DOMAIN desc}

-----------------------------------------------------------------------------
(* ClientSendManager *)

\* The fields of the class; blocksUsed, refcount and working are those of the
\* SlabInfo objects.  fullSlabs and retiredSlabs are never searched and retired
\* slabs go back together, so the order of these two lists is left out, and so is
\* the recycling of SendMsgSegment objects.
SendState ==
  [freeSlabs    : Seq(Slabs), workingSlabs : Seq(Slabs),
   fullSlabs    : SUBSET Slabs, retiredSlabs : SUBSET Slabs,
   blocksUsed   : [Slabs -> 0 .. BlocksPerSlab],
   refcount     : [Slabs -> Nat],
   working      : SUBSET Slabs,
   slabsHeld    : Nat]

InitSendManager ==
  [freeSlabs |-> <<>>, workingSlabs |-> <<>>, fullSlabs |-> {}, retiredSlabs |-> {},
   blocksUsed |-> [s \in Slabs |-> 0], refcount |-> [s \in Slabs |-> 0],
   working |-> {}, slabsHeld |-> 0]

AddFreeSlabs(sm, ids) ==
  [sm EXCEPT !.freeSlabs  = @ \o ids,
             !.blocksUsed = [s \in Slabs |-> IF s \in Range(ids) THEN 0 ELSE @[s]],
             !.refcount   = [s \in Slabs |-> IF s \in Range(ids) THEN 0 ELSE @[s]],
             !.working    = @ \ Range(ids),
             !.slabsHeld  = @ + Len(ids)]

\* Mutant: slabsHeld is not reduced.
TakeRetiredUncounted(sm) == [sm EXCEPT !.retiredSlabs = {}]

\* GetRetiredSlabs, always called for all of them
TakeRetired(sm) ==
  [sm EXCEPT !.retiredSlabs = {}, !.slabsHeld = @ - Cardinality(sm.retiredSlabs)]

\* Mutant: the reference count is not looked at.
MaxWorkingSlabsRetires(sm, max) ==
  LET excess == IF Len(sm.workingSlabs) > max THEN Len(sm.workingSlabs) - max ELSE 0
      out    == Range(SubSeq(sm.workingSlabs, 1, excess))
  IN  [sm EXCEPT !.workingSlabs = SubSeq(@, excess + 1, Len(@)),
                 !.working      = @ \ out,
                 !.retiredSlabs = @ \cup out]

\* MaxWorkingSlabs(max): the oldest working slabs beyond max are given up.
MaxWorkingSlabs(sm, max) ==
  LET excess == IF Len(sm.workingSlabs) > max THEN Len(sm.workingSlabs) - max ELSE 0
      out    == Range(SubSeq(sm.workingSlabs, 1, excess))
  IN  [sm EXCEPT !.workingSlabs = SubSeq(@, excess + 1, Len(@)),
                 !.working      = @ \ out,
                 !.fullSlabs    = @ \cup {s \in out : sm.refcount[s] > 0},
                 !.retiredSlabs = @ \cup {s \in out : sm.refcount[s] = 0}]

FlushWorkingSlabs(sm) == MaxWorkingSlabs(MaxWorkingSlabs(sm, 0), MaxWorking)

\* Mutant: blocksUsed does not advance.
AllocInPlace(sm, s, n) == [sm EXCEPT !.refcount[s] = @ + 1]

Alloc(sm, s, n) ==
  [sm EXCEPT !.blocksUsed[s] = @ + n, !.refcount[s] = @ + 1]

\* An allocation that exhausts the slab moves it to fullSlabs.
FileIfFull(sm, s) ==
  IF sm.blocksUsed[s] # BlocksPerSlab THEN sm
  ELSE [sm EXCEPT !.workingSlabs = RemoveFirst(@, s),
                  !.working      = @ \ {s},
                  !.fullSlabs    = @ \cup {s}]

\* Harvest the first free slab.
OpenFreeSlab(sm) ==
  [sm EXCEPT !.freeSlabs    = Tail(@),
             !.workingSlabs = Append(@, Head(sm.freeSlabs)),
             !.working      = @ \cup {Head(sm.freeSlabs)}]

\* The places in workingSlabs of the slabs with room for n blocks
WithRoom(sm, n) ==
  {i \in DOMAIN sm.workingSlabs :
     n < BlocksPerSlab /\ BlocksPerSlab - sm.blocksUsed[sm.workingSlabs[i]] >= n}

\* A segment of n blocks of slab s, which is working
CutSegment(sm, s, n) ==
  [sm   |-> MaxWorkingSlabs(FileIfFull(Alloc(sm, s, n), s), MaxWorking),
   desc |-> <<[slab |-> s, first |-> sm.blocksUsed[s], n |-> n]>>]

\* A segment of n blocks from the first working slab with room, or else from the
\* first free slab; no segment (an empty descriptor) when there is neither.
GetSegment(sm, n, noFreeSlabs) ==
  IF WithRoom(sm, n) # {} THEN CutSegment(sm, sm.workingSlabs[Min(WithRoom(sm, n))], n)
  ELSE IF sm.freeSlabs = <<>> \/ noFreeSlabs THEN [sm |-> sm, desc |-> <<>>]
  ELSE CutSegment(OpenFreeSlab(sm), Head(sm.freeSlabs), n)

\* uint32_t arithmetic; even an empty message needs a block
NumBlocks(len) ==
  LET n == ((len - 1 + BlockSize) % UIntRange) \div BlockSize
  IN  IF n = 0 THEN 1 ELSE n

\* The call throws: GetSegment is asked for more than a slab.
TooLong(len, contiguous) == contiguous /\ NumBlocks(len) > BlocksPerSlab

\* The whole slabs of a multi-slab message, after its part of a slab: GetSegment
\* takes them from the front of freeSlabs, one by one, and files each as full.
AddWholeSlabs(got, whole) ==
  LET sm  == got.sm
      ids == SubSeq(sm.freeSlabs, 1, whole)
      new == Range(ids)
  IN  [sm   |-> [sm EXCEPT
                   !.freeSlabs  = SubSeq(@, whole + 1, Len(@)),
                   !.fullSlabs  = @ \cup new,
                   !.blocksUsed = [s \in Slabs |-> IF s \in new THEN @[s] + BlocksPerSlab ELSE @[s]],
                   !.refcount   = [s \in Slabs |-> IF s \in new THEN @[s] + 1 ELSE @[s]]],
       desc |-> got.desc \o [i \in 1 .. whole |->
                               [slab |-> ids[i], first |-> sm.blocksUsed[ids[i]],
                                n |-> BlocksPerSlab]]]

GetMessageDescriptor(sm, len, contiguous) ==
  LET n     == NumBlocks(len)
      whole == n \div BlocksPerSlab
      part  == n % BlocksPerSlab
      none  == [sm |-> sm, desc |-> <<>>]
      got   == IF part = 0 THEN none
               ELSE GetSegment(sm, part, whole = Len(sm.freeSlabs))
  IN  IF contiguous \/ n <= BlocksPerSlab THEN GetSegment(sm, n, FALSE)
      ELSE IF whole > Len(sm.freeSlabs) THEN none
      ELSE IF part > 0 /\ got.desc = <<>> THEN none
      ELSE AddWholeSlabs(got, whole)

\* The segments of a descriptor lie in different slabs, so the iterations of the
\* loop do not affect each other.
ReleaseMessageDescriptor(sm, desc) ==
  LET mine    == SlabsOf(desc)
      refcnt  == [s \in Slabs |-> IF s \in mine THEN sm.refcount[s] - 1 ELSE sm.refcount[s]]
      retired == {s \in mine : s \notin sm.working /\ refcnt[s] = 0}
  IN  [sm EXCEPT !.refcount     = refcnt,
                 !.fullSlabs    = @ \ retired,
                 !.retiredSlabs = @ \cup retired]

-----------------------------------------------------------------------------
(* ClientImpl *)

BlocksMsg(desc) == [type |-> "blocks", segs |-> desc]
SlabsMsg(ids) == [type |-> "slabs", ids |-> ids]

\* The control message that SendRetiredSlabs sends, if any
RetiredMsg(sm) == IF sm.retiredSlabs = {} THEN <<>> ELSE <<SlabsMsg(sm.retiredSlabs)>>

\* Mutant: working slabs are not flushed.
SqueezeRetiredOnly(sm) == sm

\* "squeeze": only when nothing is retired are the working slabs flushed
Squeeze(sm) == IF sm.retiredSlabs = {} THEN FlushWorkingSlabs(sm) ELSE sm

\* The calls of the program: the copying SendMessage, or a descriptor
StartGetSendMsgDesc ==
  /\ ~closed /\ call = NoCall
  /\ \E len \in Lens, contiguous \in BOOLEAN, poll \in BOOLEAN, copy \in BOOLEAN :
       /\ copy => ~contiguous /\ poll
       /\ call' = [state |-> "try", len |-> len, contiguous |-> contiguous,
                   poll |-> poll, copy |-> copy]
  /\ UNCHANGED <<sendMgr, descs, closed, toMgr, fromMgr, mgrHeld, handed, needless>>

\* The segment of a descriptor that lies in slab s
SegmentIn(desc, s) == desc[CHOOSE i \in DOMAIN desc : desc[i].slab = s]

\* What GetMessageDescriptor returns to the call in progress
Got == GetMessageDescriptor(sendMgr, call.len, call.contiguous)
Trying == call.state = "try" /\ ~TooLong(call.len, call.contiguous)

GetSucceeds ==
  /\ Trying /\ Got.desc # <<>>
  /\ sendMgr' = Got.sm
  /\ descs' = descs \cup {Got.desc}
  /\ handed' = [s \in Slabs |-> IF s \in SlabsOf(Got.desc)
                                THEN Append(handed[s], SegmentIn(Got.desc, s))
                                ELSE handed[s]]
  /\ call' = NoCall
  /\ UNCHANGED <<closed, toMgr, fromMgr, mgrHeld, needless>>

\* Mutant: >= instead of >
GetWaitsWhenFull ==
  /\ Trying /\ Got.desc = <<>>
  /\ NumProdSlabs >= sendMgr.slabsHeld
  /\ call' = IF call.poll THEN [call EXCEPT !.state = "poll"] ELSE NoCall
  /\ UNCHANGED <<sendMgr, descs, closed, toMgr, fromMgr, mgrHeld, handed, needless>>

\* The manager still owes slabs: wait in Poll(), or return null.
GetWaits ==
  /\ Trying /\ Got.desc = <<>>
  /\ NumProdSlabs > sendMgr.slabsHeld
  /\ call' = IF call.poll THEN [call EXCEPT !.state = "poll"] ELSE NoCall
  /\ UNCHANGED <<sendMgr, descs, closed, toMgr, fromMgr, mgrHeld, handed, needless>>

\* Nothing is owed: return slabs to be owed some, and try again.
GetSqueezes ==
  /\ Trying /\ Got.desc = <<>>
  /\ NumProdSlabs <= sendMgr.slabsHeld
  /\ LET sm == Squeeze(sendMgr)
     IN  /\ sm.retiredSlabs # {}
         /\ sendMgr' = TakeRetired(sm)
         /\ toMgr' = toMgr \o RetiredMsg(sm)
  /\ UNCHANGED <<descs, call, closed, fromMgr, mgrHeld, handed, needless>>

\* The client has all the slabs it will get, and none to give back.
NoHelp ==
  /\ Trying /\ Got.desc = <<>>
  /\ NumProdSlabs <= sendMgr.slabsHeld
  /\ Squeeze(sendMgr).retiredSlabs = {}

\* The exceptions.  BaseClient::GetSendMessageDescriptor closes the connection,
\* the copying BaseClient::SendMessage returns -1.
GetThrows ==
  /\ call.state = "try"
  /\ \/ TooLong(call.len, call.contiguous) /\ UNCHANGED sendMgr
     \/ NoHelp /\ sendMgr' = Squeeze(sendMgr)
  /\ closed' = ~call.copy
  /\ needless' = (needless \/ (/\ descs = {}
                               /\ ~TooLong(call.len, call.contiguous)
                               /\ call.len <= NumProdSlabs * BlocksPerSlab * BlockSize))
  /\ call' = NoCall
  /\ UNCHANGED <<descs, toMgr, fromMgr, mgrHeld, handed>>

\* The number of segments that a message of len bytes fills
Bytes(segs) == BlockSize * FoldLeft(LAMBDA t, g : t + g.n, 0, segs)
SegmentsUsed(desc, len) == Min({k \in 1 .. Len(desc) : len <= Bytes(SubSeq(desc, 1, k))})

\* Mutant: the descriptor is released, and slabs are returned, before its blocks
\* are sent.
SendMessageReturnsFirst(desc, len) ==
  /\ ~closed /\ call = NoCall /\ len <= Bytes(desc)
  /\ LET sm == ReleaseMessageDescriptor(sendMgr, desc)
     IN  /\ sendMgr' = TakeRetired(sm)
         /\ toMgr' = toMgr \o RetiredMsg(sm) \o
                     <<BlocksMsg(SubSeq(desc, 1, SegmentsUsed(desc, len)))>>
  /\ descs' = descs \ {desc}
  /\ UNCHANGED <<call, closed, fromMgr, mgrHeld, handed, needless>>

\* The descriptor is released when the call returns, after SendRetiredSlabs: a
\* slab that the release retires goes back with a later message.
SendMessage(desc, len) ==
  /\ ~closed /\ call = NoCall /\ len <= Bytes(desc)
  /\ toMgr' = Append(toMgr, BlocksMsg(SubSeq(desc, 1, SegmentsUsed(desc, len))))
              \o RetiredMsg(sendMgr)
  /\ sendMgr' = ReleaseMessageDescriptor(TakeRetired(sendMgr), desc)
  /\ descs' = descs \ {desc}
  /\ UNCHANGED <<call, closed, fromMgr, mgrHeld, handed, needless>>

\* The message does not fit: an exception that BaseClient catches; the
\* descriptor is released all the same.
SendMessageThrows(desc, len) ==
  /\ ~closed /\ call = NoCall /\ ~(len <= Bytes(desc))
  /\ sendMgr' = ReleaseMessageDescriptor(sendMgr, desc)
  /\ descs' = descs \ {desc}
  /\ UNCHANGED <<call, closed, toMgr, fromMgr, mgrHeld, handed, needless>>

ReleaseSendMsgDesc(desc) ==
  /\ ~closed /\ call = NoCall
  /\ LET sm == ReleaseMessageDescriptor(sendMgr, desc)
     IN  /\ sendMgr' = TakeRetired(sm)
         /\ toMgr' = toMgr \o RetiredMsg(sm)
  /\ descs' = descs \ {desc}
  /\ UNCHANGED <<call, closed, fromMgr, mgrHeld, handed, needless>>

\* Poll() reads part of the stream; Parse passes consecutive slab IDs on in one
\* call, whichever messages they came in.
HandleSlabIDs(k) ==
  /\ ~closed /\ call.state # "try"
  /\ LET ids == SubSeq(fromMgr, 1, k)
         sm  == AddFreeSlabs(sendMgr, ids)
     IN  /\ sendMgr' = TakeRetired(sm)
         /\ toMgr' = toMgr \o RetiredMsg(sm)
         /\ handed' = [s \in Slabs |-> IF s \in Range(ids) THEN <<>> ELSE handed[s]]
  /\ fromMgr' = SubSeq(fromMgr, k + 1, Len(fromMgr))
  /\ call' = IF call = NoCall THEN NoCall ELSE [call EXCEPT !.state = "try"]
  /\ UNCHANGED <<descs, closed, mgrHeld, needless>>

-----------------------------------------------------------------------------
(* The manager: ClientProxy::HandleBlocksAndInfo, HandleSlabIDs, SendSlabIDs.  *)
(* Whom the published blocks go to does not matter here.                       *)

ManagerReceives ==
  /\ toMgr # <<>>
  /\ toMgr' = Tail(toMgr)
  /\ mgrHeld' = IF Head(toMgr).type = "slabs" THEN mgrHeld \ Head(toMgr).ids
                ELSE mgrHeld
  /\ UNCHANGED <<sendMgr, descs, call, closed, fromMgr, handed, needless>>

\* A slab that somebody has no more use for, up to the reservation
ManagerSends ==
  /\ ~closed /\ Cardinality(mgrHeld) < NumProdSlabs
  /\ \E s \in Slabs \ mgrHeld :
       /\ fromMgr' = Append(fromMgr, s)
       /\ mgrHeld' = mgrHeld \cup {s}
  /\ UNCHANGED <<sendMgr, descs, call, closed, toMgr, handed, needless>>

-----------------------------------------------------------------------------

Init ==
  /\ sendMgr = InitSendManager
  /\ descs = {} /\ call = NoCall /\ closed = FALSE
  /\ toMgr = <<>> /\ fromMgr = <<>> /\ mgrHeld = {}
  /\ handed = [s \in Slabs |-> <<>>]
  /\ needless = FALSE

Next ==
  \/ StartGetSendMsgDesc \/ GetSucceeds \/ GetWaits \/ GetSqueezes \/ GetThrows
  \/ \E desc \in descs, len \in Lens : SendMessage(desc, len) \/ SendMessageThrows(desc, len)
  \/ \E desc \in descs : ReleaseSendMsgDesc(desc)
  \/ \E k \in 1 .. Len(fromMgr) : HandleSlabIDs(k)
  \/ ManagerReceives \/ ManagerSends

\* The client's thread goes on with a call it has begun and Poll() returns when
\* the socket is readable; the manager reads its sockets and serves what it owes.
Fairness ==
  /\ WF_vars(GetSucceeds \/ GetWaits \/ GetSqueezes \/ GetThrows)
  /\ WF_vars(call # NoCall /\ \E k \in 1 .. Len(fromMgr) : HandleSlabIDs(k))
  /\ WF_vars(ManagerReceives)
  /\ WF_vars(ManagerSends)

Spec == Init /\ [][Next]_vars /\ Fairness

-----------------------------------------------------------------------------

\* Where a slab of this producer can be: on its way here, on one of the four lists,
\* or on its way back in one of the messages
Places ==
  <<Range(fromMgr), Range(sendMgr.freeSlabs), Range(sendMgr.workingSlabs),
    sendMgr.fullSlabs, sendMgr.retiredSlabs>>
    \o [i \in DOMAIN toMgr |-> IF toMgr[i].type = "slabs" THEN toMgr[i].ids ELSE {}]

\* Every slab the manager counts as this producer's is in exactly one place: on
\* its way here, on one of the four lists, or on its way back; and SlabsHeld(),
\* by which GetSendMsgDesc decides whether slabs are owed, counts the lists.
SlabsAccounted ==
  /\ sendMgr \in SendState
  /\ \A q \in {fromMgr, sendMgr.freeSlabs, sendMgr.workingSlabs} : IsInjective(q)
  /\ \A i, j \in DOMAIN Places : i # j => Places[i] \cap Places[j] = {}
  /\ UNION Range(Places) = mgrHeld
  /\ sendMgr.slabsHeld = Len(sendMgr.freeSlabs) + Len(sendMgr.workingSlabs)
                          + Cardinality(sendMgr.fullSlabs) + Cardinality(sendMgr.retiredSlabs)

\* A slab is retired exactly when it is no longer working and its last segment
\* was given back: fullSlabs holds those that descriptors still point into, and
\* no descriptor points into a slab that is retired or already returned.
RetiredWhenIdle ==
  /\ \A s \in Range(sendMgr.freeSlabs) \cup Range(sendMgr.workingSlabs) \cup sendMgr.fullSlabs :
       sendMgr.refcount[s] = Cardinality({d \in descs : s \in SlabsOf(d)})
  /\ \A s \in sendMgr.fullSlabs : sendMgr.refcount[s] > 0
  /\ \A d \in descs : SlabsOf(d) \subseteq Range(sendMgr.workingSlabs) \cup sendMgr.fullSlabs

\* No block is handed out twice while the client has the slab: a message that
\* was sent, or is being written, is not overwritten by the next.  The segments of
\* one descriptor lie in different slabs.
BlocksApart ==
  /\ \A s \in Slabs : \A i, j \in DOMAIN handed[s] :
       LET a == handed[s][i]
           b == handed[s][j]
       IN  /\ a.first + a.n <= BlocksPerSlab
           /\ i < j => a.first + a.n <= b.first
  /\ \A d \in descs : \A i, j \in DOMAIN d : i # j => d[i].slab # d[j].slab

\* On the socket, the blocks of a slab are published before the slab is returned:
\* the manager never sees blocks of a slab that is no longer the producer's.
PublishedBeforeReturn ==
  \A i \in DOMAIN toMgr : toMgr[i].type = "blocks" =>
    \A g \in Range(toMgr[i].segs) :
      /\ g.slab \in mgrHeld
      /\ \A j \in 1 .. i - 1 : toMgr[j].type = "slabs" => g.slab \notin toMgr[j].ids

\* GetSendMsgDesc fails only for want of slabs: a program that holds no other
\* descriptor and asks for no more than MaxSendMessageSize() is never refused,
\* however the slabs it holds are fragmented.
NoNeedlessFailure == ~needless

\* A call of GetSendMsgDesc returns, or fails, provided the manager hands out
\* what it owes.
CallEnds == call # NoCall ~> call = NoCall
===========================================================================
