--------------------------- MODULE ManagerProofs ---------------------------
(***************************************************************************)
(* Proofs about the manager: references, trackers, wanted queues, lists    *)
(* and reservations agree after every handler, no segment in use is        *)
(* overwritten, segments are delivered in order and (but for client-to-    *)
(* client messages) dropped only with a report, and none of the exceptions *)
(* marked as impossible is thrown.                                         *)
(*                                                                         *)
(* A handler first changes what a proxy counts and then what the slab      *)
(* manager counts, slab by slab, and in the middle of that the slab        *)
(* manager calls back and hands free slabs to other clients.  So what its  *)
(* steps preserve is Ok(m, e): all is consistent up to e, the references   *)
(* that the handler has given up and the slab manager still counts.        *)
(* Handlers begin and end with Ok(m, Zero), and with Settled(m), which is  *)
(* about the clients' histories and reservations.  An operator that may    *)
(* run while another handler is under way is shown to preserve Ok(m, e)    *)
(* for every e; each has a lemma, <operator>Ok, which also says what it    *)
(* leaves alone (Frame, Others, Kept, Based).  Loops go by LoopFacts.      *)
(***************************************************************************)
EXTENDS Manager, CommonFacts

P == INSTANCE SlabManagerProofs
       WITH slabMgr <- mgr.sm, Segments <- Clients \X Blocks,
            MaxRefcnt <- 0, AskedSlabs <- {}

(***************************************************************************)
(* The states of the manager.                                              *)
(***************************************************************************)
TrackerState ==
  [numProdSlabs : Asked, numConsSlabs : Asked,
   prodSlabsHeld : Nat, consSlabsHeld : Nat,
   prod : SUBSET Slabs, cons : [Slabs -> Nat]]

ProxyState ==
  [state : {"new", "up", "gone"}, sendFailed : BOOLEAN, group : Nat, regs : SUBSET MsgIDs,
   nice : Int, pending : Nat, slabs : TrackerState,
   holding : SUBSET Blocks, wantedQueue : Seq(Blocks),
   needReport : BOOLEAN, throttle : BOOLEAN,
   owed : SUBSET Blocks, lost : BOOLEAN, inOrder : BOOLEAN]

Request == [id : Clients, numSlabs : Nat \ {0}]

MgrState ==
  [setup : Setups, sm : SM!SlabState, rq : [RQ!Levels -> Seq(Request)],
   px : [Clients -> ProxyState], info : [Blocks -> Kinds],
   fill : [Slabs -> 0..BlocksPerSlab], older : SUBSET (Blocks \X Blocks),
   intact : BOOLEAN, err : BOOLEAN, ranOut : BOOLEAN]

\* the segments of H in slab s
In(H, s) == {x \in H : SlabOf(x) = s}

\* a tracker counts its producer slabs, and the segments H that its client reads
Counts(t, H) ==
  /\ t.prodSlabsHeld = Cardinality(t.prod)
  /\ t.consSlabsHeld = Cardinality({s \in Slabs : t.cons[s] > 0})
  /\ t.consSlabsHeld <= t.numConsSlabs
  /\ \A s \in Slabs : t.cons[s] = Cardinality(In(H, s))

Matched(sm) == sm \in SM!SlabState /\ SM!ListsMatch(sm)

\* references: those of producers and readers, and e, which the handler has yet to give back
References(m, e) ==
  \A s \in Slabs :
    m.sm.heldRefcnt[s] = Cardinality(Producers(m, s)) + Cardinality(Readers(m, s)) + e[s]

Trackers(m) == \A c \in Clients : Counts(m.px[c].slabs, m.px[c].holding)

\* wanted queues and wanted segments are the same, and no queue has a segment twice
Queues(m) ==
  /\ \A c \in Clients : IsInjective(m.px[c].wantedQueue)
  /\ \A s \in Slabs, c \in Clients, x \in Blocks :
       Contains(m.sm.wantedSegs[s], <<c, x>>) <=>
         Contains(m.px[c].wantedQueue, x) /\ SlabOf(x) = s

\* a client that is not connected has no slab and reads nothing
Gone(m) ==
  \A c \in Clients : ~Up(m, c) => m.px[c].slabs.prod = {} /\ m.px[c].holding = {}

Refers(p, x) == x \in p.holding \/ Contains(p.wantedQueue, x)

\* what is referred to in a slab that has a producer is one of the blocks it has used
Filled(m) ==
  \A c, d \in Clients, x \in Blocks :
    Refers(m.px[c], x) /\ SlabOf(x) \in m.px[d].slabs.prod => x[2] <= m.fill[SlabOf(x)]

Ok(m, e) ==
  /\ m \in MgrState /\ e \in [Slabs -> Nat]
  /\ Matched(m.sm) /\ References(m, e) /\ Trackers(m) /\ Queues(m) /\ Gone(m) /\ Filled(m)
  /\ m.intact /\ ~m.err

-----------------------------------------------------------------------------
(***************************************************************************)
(* What SlabManagerProofs shows of the slab manager's operations.          *)
(***************************************************************************)
LEMMA SlabsAre ==
  /\ SM!Slabs = Slabs /\ P!Slabs = Slabs
  /\ SM!SlabState = P!SlabState
  /\ 0 \in Nat /\ {} \subseteq 0..(UIntRange - 1)
  BY DEF SM!Slabs, P!Slabs, Slabs, TotalNumSlabs, SM!SlabState, P!SlabState

\* Both instances mean the same by their lists.
LEMMA ListsAre ==
  ASSUME NEW q, NEW x
  PROVE  /\ SM!Contains(q, x) <=> Contains(q, x)
         /\ P!Contains(q, x) <=> Contains(q, x)
         /\ SM!IsInjective(q) <=> IsInjective(q)
         /\ P!IsInjective(q) <=> IsInjective(q)
  BY DEF SM!Contains, P!Contains, Contains, SM!IsInjective, P!IsInjective, IsInjective

LEMMA RemoveIs ==
  ASSUME NEW q, NEW x
  PROVE  SM!RemoveFirst(q, x) = RemoveFirst(q, x) /\ P!RemoveFirst(q, x) = RemoveFirst(q, x)
  BY DEF SM!RemoveFirst, P!RemoveFirst, RemoveFirst, SM!RemoveAt, P!RemoveAt, RemoveAt,
         SM!SelectInSeq, P!SelectInSeq, SelectInSeq, SM!Min, P!Min, Min

LEMMA SameState ==
  ASSUME NEW sm
  PROVE  P!Matched(sm) <=> Matched(sm)
  <1>1. \A s : /\ P!Held(sm, s) <=> SM!Held(sm, s)
               /\ P!Wanted(sm, s) <=> SM!Wanted(sm, s)
    BY DEF P!Held, SM!Held, P!Wanted, SM!Wanted
  <1>2. P!NumSlabs(sm) = SM!NumSlabs(sm)
    BY DEF P!NumSlabs, SM!NumSlabs
  <1>3. P!ListsDistinct(sm) <=> SM!ListsDistinct(sm)
    BY ListsAre, SlabsAre DEF P!ListsDistinct, SM!ListsDistinct
  <1>4. P!ListsAgree(sm) <=> SM!ListsAgree(sm)
    BY <1>1, <1>2, ListsAre, SlabsAre DEF P!ListsAgree, SM!ListsAgree
  <1>5. P!InUseExists(sm) <=> SM!InUseExists(sm)
    BY <1>1, <1>2, SlabsAre DEF P!InUseExists, SM!InUseExists
  <1> QED  BY <1>3, <1>4, <1>5, SlabsAre DEF P!Matched, Matched, P!ListsMatch, SM!ListsMatch

\* What the lists say of a slab.
LEMMA MatchedLists ==
  ASSUME NEW sm, Matched(sm)
  PROVE  /\ sm \in SM!SlabState
         /\ sm.free \in Seq(Slabs) /\ IsInjective(sm.free)
         /\ sm.wanted \in Seq(Slabs) /\ IsInjective(sm.wanted)
         /\ sm.heldRefcnt \in [Slabs -> Nat]
         /\ sm.wantedSegs \in [Slabs -> Seq(Clients \X Blocks)]
         /\ \A s \in Slabs : IsInjective(sm.wantedSegs[s])
         /\ \A s \in Slabs : Contains(sm.free, s) => sm.heldRefcnt[s] = 0 /\ sm.wantedSegs[s] = <<>>
         /\ \A s \in Slabs : Contains(sm.wanted, s) => sm.heldRefcnt[s] = 0 /\ sm.wantedSegs[s] # <<>>
  <1>1. sm \in SM!SlabState /\ SM!ListsDistinct(sm) /\ SM!ListsAgree(sm)
    BY DEF Matched, SM!ListsMatch
  <1>2. /\ sm.free \in Seq(Slabs) /\ sm.wanted \in Seq(Slabs) /\ sm.heldRefcnt \in [Slabs -> Nat]
        /\ sm.wantedSegs \in [Slabs -> Seq(Clients \X Blocks)]
    BY <1>1, SlabsAre DEF SM!SlabState
  <1>3. /\ IsInjective(sm.free) /\ IsInjective(sm.wanted)
        /\ \A s \in Slabs : IsInjective(sm.wantedSegs[s])
    BY <1>1, ListsAre, SlabsAre DEF SM!ListsDistinct
  <1>4. \A s \in Slabs : /\ Contains(sm.free, s) => ~SM!Held(sm, s) /\ ~SM!Wanted(sm, s)
                         /\ Contains(sm.wanted, s) => ~SM!Held(sm, s) /\ SM!Wanted(sm, s)
    BY <1>1, ListsAre, SlabsAre DEF SM!ListsAgree
  <1> QED  BY <1>1, <1>2, <1>3, <1>4 DEF SM!Held, SM!Wanted

LEMMA GetFreeSlabMatched ==
  ASSUME NEW sm, Matched(sm), sm.free # <<>>
  PROVE  LET n == SM!GetFreeSlab(sm)
             s == Head(sm.free)
         IN  /\ Matched(n) /\ s \in Slabs
             /\ sm.heldRefcnt[s] = 0 /\ sm.wantedSegs[s] = <<>>
             /\ n.heldRefcnt = [sm.heldRefcnt EXCEPT ![s] = 1]
             /\ n.wantedSegs = sm.wantedSegs /\ n.wanted = sm.wanted
             /\ n.numBuffers = sm.numBuffers /\ n.reserved = sm.reserved
             /\ Len(n.free) = Len(sm.free) - 1
  <1> DEFINE n == SM!GetFreeSlab(sm)
             s == Head(sm.free)
  <1>1. Matched(n)
    <2>1. P!GetFreeSlab(sm) = SM!GetFreeSlab(sm)
      BY DEF P!GetFreeSlab, SM!GetFreeSlab
    <2> QED  BY <2>1, SameState, P!GetFreeSlabMatched, SlabsAssumption, SlabsAre
  <1>2. s \in Slabs /\ Contains(sm.free, s)
    BY MatchedLists, TailList
  <1>3. sm.heldRefcnt[s] = 0 /\ sm.wantedSegs[s] = <<>>
    BY <1>2, MatchedLists
  <1>4. /\ n.heldRefcnt = [sm.heldRefcnt EXCEPT ![s] = sm.heldRefcnt[s] + 1]
        /\ n.wantedSegs = sm.wantedSegs /\ n.wanted = sm.wanted
        /\ n.numBuffers = sm.numBuffers /\ n.reserved = sm.reserved
        /\ n.free = Tail(sm.free)
    BY MatchedLists DEF SM!SlabState, SM!GetFreeSlab
  <1>5. Len(Tail(sm.free)) = Len(sm.free) - 1
    BY MatchedLists
  <1> QED  BY <1>1, <1>2, <1>3, <1>4, <1>5

LEMMA IncrementMatched ==
  ASSUME NEW sm, Matched(sm), NEW s \in Slabs, sm.heldRefcnt[s] > 0 \/ sm.wantedSegs[s] # <<>>
  PROVE  LET n == SM!IncrementHeldRefcnt(sm, s)
         IN  /\ Matched(n) /\ ~SM!IncrementThrows(sm, s)
             /\ n.heldRefcnt = [sm.heldRefcnt EXCEPT ![s] = @ + 1]
             /\ n.wantedSegs = sm.wantedSegs /\ n.free = sm.free
             /\ n.numBuffers = sm.numBuffers /\ n.reserved = sm.reserved
  <1>1. P!IncrementHeldRefcnt(sm, s) = SM!IncrementHeldRefcnt(sm, s)
    BY RemoveIs DEF P!IncrementHeldRefcnt, SM!IncrementHeldRefcnt, P!Held, SM!Held
  <1>2. ~P!IncrementThrows(sm, s) /\ ~SM!IncrementThrows(sm, s)
    BY DEF P!IncrementThrows, SM!IncrementThrows, P!Held, SM!Held, P!Wanted, SM!Wanted
  <1>3. Matched(SM!IncrementHeldRefcnt(sm, s))
    BY <1>1, <1>2, SameState, P!IncrementMatched, SlabsAssumption, SlabsAre
  <1>4. sm \in SM!SlabState
    BY DEF Matched
  <1> QED  BY <1>2, <1>3, <1>4 DEF SM!SlabState, SM!IncrementHeldRefcnt

LEMMA DecrementMatched ==
  ASSUME NEW sm, Matched(sm), NEW s \in Slabs, NEW amount \in Nat \ {0}, amount <= sm.heldRefcnt[s]
  PROVE  LET n == SM!DecrementHeldRefcnt(sm, s, amount)
         IN  /\ Matched(n) /\ ~SM!DecrementThrows(sm, s, amount)
             /\ n.heldRefcnt = [sm.heldRefcnt EXCEPT ![s] = @ - amount]
             /\ n.wantedSegs = sm.wantedSegs
             /\ n.numBuffers = sm.numBuffers /\ n.reserved = sm.reserved
  <1>1. P!DecrementHeldRefcnt(sm, s, amount) = SM!DecrementHeldRefcnt(sm, s, amount)
    BY DEF P!DecrementHeldRefcnt, SM!DecrementHeldRefcnt, P!Wanted, SM!Wanted
  <1>4. sm \in SM!SlabState /\ sm.heldRefcnt[s] \in Nat
    BY MatchedLists DEF Matched
  <1>2. ~P!DecrementThrows(sm, s, amount) /\ ~SM!DecrementThrows(sm, s, amount)
    BY <1>4 DEF P!DecrementThrows, SM!DecrementThrows
  <1>3. Matched(SM!DecrementHeldRefcnt(sm, s, amount))
    BY <1>1, <1>2, SameState, P!DecrementMatched, SlabsAssumption, SlabsAre
  <1> QED  BY <1>2, <1>3, <1>4 DEF SM!SlabState, SM!DecrementHeldRefcnt

LEMMA GetWantedMatched ==
  ASSUME NEW sm, Matched(sm), NEW s \in Slabs, NEW seg \in Clients \X Blocks,
         sm.heldRefcnt[s] > 0 \/ sm.wantedSegs[s] # <<>>, ~Contains(sm.wantedSegs[s], seg)
  PROVE  LET n == SM!GetWantedSegment(sm, seg, s)
         IN  /\ Matched(n) /\ ~SM!GetWantedThrows(sm, s)
             /\ n.heldRefcnt = sm.heldRefcnt /\ n.free = sm.free
             /\ n.numBuffers = sm.numBuffers /\ n.reserved = sm.reserved
             /\ \A t \in Slabs : \A y : Contains(n.wantedSegs[t], y) <=>
                                          Contains(sm.wantedSegs[t], y) \/ (t = s /\ y = seg)
  <1> DEFINE n == SM!GetWantedSegment(sm, seg, s)
  <1>1. P!GetWantedSegment(sm, seg, s) = SM!GetWantedSegment(sm, seg, s)
    BY DEF P!GetWantedSegment, SM!GetWantedSegment
  <1>2. ~P!GetWantedThrows(sm, s) /\ ~SM!GetWantedThrows(sm, s)
    BY DEF P!GetWantedThrows, SM!GetWantedThrows, P!Held, SM!Held, P!Wanted, SM!Wanted
  <1>3. Matched(n)
    BY <1>1, <1>2, SameState, ListsAre, P!GetWantedMatched, SlabsAssumption, SlabsAre
  <1>4. sm \in SM!SlabState /\ sm.wantedSegs \in [Slabs -> Seq(Clients \X Blocks)]
    BY MatchedLists
  <1>5. /\ n.heldRefcnt = sm.heldRefcnt /\ n.free = sm.free
        /\ n.numBuffers = sm.numBuffers /\ n.reserved = sm.reserved
        /\ n.wantedSegs = [sm.wantedSegs EXCEPT ![s] = Append(@, seg)]
    BY <1>4 DEF SM!SlabState, SM!GetWantedSegment
  <1>6. \A y : Contains(Append(sm.wantedSegs[s], seg), y) <=> Contains(sm.wantedSegs[s], y) \/ y = seg
    BY <1>4, AppendList
  <1> HIDE DEF n
  <1>7. ASSUME NEW t \in Slabs, NEW y
        PROVE  Contains(n.wantedSegs[t], y) <=> Contains(sm.wantedSegs[t], y) \/ (t = s /\ y = seg)
    <2>1. CASE t = s
      BY <1>4, <1>5, <1>6, <2>1
    <2>2. CASE t # s
      BY <1>4, <1>5, <2>2
    <2> QED  BY <2>1, <2>2
  <1> QED  BY <1>2, <1>3, <1>5, <1>7 DEF n

LEMMA ReleaseWantedMatched ==
  ASSUME NEW sm, Matched(sm), NEW s \in Slabs, NEW seg \in Clients \X Blocks,
         Contains(sm.wantedSegs[s], seg)
  PROVE  LET n == SM!ReleaseWantedSegment(sm, seg, s)
         IN  /\ Matched(n)
             /\ n.heldRefcnt = sm.heldRefcnt
             /\ n.numBuffers = sm.numBuffers /\ n.reserved = sm.reserved
             /\ \A t \in Slabs : \A y : Contains(n.wantedSegs[t], y) <=>
                                          Contains(sm.wantedSegs[t], y) /\ ~(t = s /\ y = seg)
  <1> DEFINE n == SM!ReleaseWantedSegment(sm, seg, s)
             q == RemoveFirst(sm.wantedSegs[s], seg)
  <1>0. /\ P!Held(sm, s) <=> SM!Held(sm, s)
        /\ P!RemoveFirst(sm.wantedSegs[s], seg) = SM!RemoveFirst(sm.wantedSegs[s], seg)
        /\ P!RemoveFirst(sm.wanted, s) = SM!RemoveFirst(sm.wanted, s)
    BY RemoveIs DEF P!Held, SM!Held
  <1>1. P!ReleaseWantedSegment(sm, seg, s) = SM!ReleaseWantedSegment(sm, seg, s)
    BY <1>0, Zenon DEF P!ReleaseWantedSegment, SM!ReleaseWantedSegment
  <1>3. Matched(n)
    BY <1>1, SameState, ListsAre, P!ReleaseWantedMatched, SlabsAssumption, SlabsAre
  <1>4. sm \in SM!SlabState /\ sm.wantedSegs \in [Slabs -> Seq(Clients \X Blocks)]
        /\ IsInjective(sm.wantedSegs[s])
    BY MatchedLists
  <1>5. /\ n.heldRefcnt = sm.heldRefcnt
        /\ n.numBuffers = sm.numBuffers /\ n.reserved = sm.reserved
        /\ n.wantedSegs = [sm.wantedSegs EXCEPT ![s] = q]
    BY <1>4, RemoveIs DEF SM!SlabState, SM!ReleaseWantedSegment
  <1>6. \A y : Contains(q, y) <=> Contains(sm.wantedSegs[s], y) /\ y # seg
    BY <1>4, RemoveList
  <1> HIDE DEF n, q
  <1>7. ASSUME NEW t \in Slabs, NEW y
        PROVE  Contains(n.wantedSegs[t], y) <=> Contains(sm.wantedSegs[t], y) /\ ~(t = s /\ y = seg)
    <2>1. CASE t = s
      BY <1>4, <1>5, <1>6, <2>1
    <2>2. CASE t # s
      BY <1>4, <1>5, <2>2
    <2> QED  BY <2>1, <2>2
  <1> QED  BY <1>3, <1>5, <1>7 DEF n

LEMMA NumBuffersMatched ==
  ASSUME NEW sm, Matched(sm), NEW n \in 0..MaxBuffers
  PROVE  LET k == SM!NumBuffers(sm, n)
         IN  /\ Matched(k)
             /\ k.heldRefcnt = sm.heldRefcnt /\ k.wantedSegs = sm.wantedSegs
             /\ k.reserved = sm.reserved
             /\ k.numBuffers = IF n <= sm.numBuffers THEN sm.numBuffers ELSE n
  <1>1. P!NumBuffers(sm, n) = SM!NumBuffers(sm, n)
    BY DEF P!NumBuffers, SM!NumBuffers, P!NumSlabs, SM!NumSlabs
  <1>2. Matched(SM!NumBuffers(sm, n))
    BY <1>1, SameState, P!NumBuffersMatched, SlabsAssumption, SlabsAre
  <1>3. sm \in SM!SlabState
    BY DEF Matched
  <1> QED  BY <1>2, <1>3 DEF SM!SlabState, SM!NumBuffers

LEMMA ReservationMatched ==
  ASSUME NEW sm, Matched(sm), NEW n \in 0..(UIntRange - 1)
  PROVE  LET k == SM!GetSlabReservation(sm, n)
             l == SM!ReleaseSlabReservation(sm, n)
         IN  /\ Matched(k) /\ Matched(l)
             /\ k.heldRefcnt = sm.heldRefcnt /\ k.wantedSegs = sm.wantedSegs
             /\ l.heldRefcnt = sm.heldRefcnt /\ l.wantedSegs = sm.wantedSegs
             /\ k.numBuffers = sm.numBuffers /\ k.free = sm.free
             /\ l.numBuffers = sm.numBuffers /\ l.free = sm.free
             /\ k.reserved = SM!UAdd(sm.reserved, n)
             /\ l.reserved = IF n > sm.reserved THEN sm.reserved ELSE sm.reserved - n
  <1>1. /\ P!GetSlabReservation(sm, n) = SM!GetSlabReservation(sm, n)
        /\ P!ReleaseSlabReservation(sm, n) = SM!ReleaseSlabReservation(sm, n)
    BY DEF P!GetSlabReservation, SM!GetSlabReservation, P!ReleaseSlabReservation,
           SM!ReleaseSlabReservation, P!UAdd, SM!UAdd
  <1>2. Matched(SM!GetSlabReservation(sm, n)) /\ Matched(SM!ReleaseSlabReservation(sm, n))
    BY <1>1, SameState, P!ReservationMatched, SlabsAssumption, SlabsAre
  <1>3. sm \in SM!SlabState
    BY DEF Matched
  <1> QED  BY <1>2, <1>3 DEF SM!SlabState, SM!GetSlabReservation, SM!ReleaseSlabReservation

\* The slab manager at the start.
LEMMA StartMatched ==
  ASSUME NEW n \in InitBuffers..MaxBuffers
  PROVE  LET sm == SM!NumBuffers(SM!NewSlabManager, n)
         IN  /\ Matched(sm) /\ sm.reserved = 0 /\ sm.numBuffers = n
             /\ \A s \in Slabs : sm.heldRefcnt[s] = 0 /\ sm.wantedSegs[s] = <<>>
  <1> DEFINE e == [numBuffers |-> 0, reserved |-> 0,
                   free |-> <<>>, held |-> {}, wanted |-> <<>>,
                   heldRefcnt |-> [s \in SM!Slabs |-> 0],
                   wantedSegs |-> [s \in SM!Slabs |-> <<>>]]
             new == SM!NewSlabManager
  <1>1. P!NewSlabManager = SM!NewSlabManager
    BY DEF P!NewSlabManager, SM!NewSlabManager, P!NumBuffers, SM!NumBuffers, P!NumSlabs, SM!NumSlabs,
           P!Slabs, SM!Slabs
  <1>2. Matched(new)
    BY <1>1, SameState, P!NewMatched, SlabsAssumption, SlabsAre
  <1>3. /\ new.heldRefcnt = e.heldRefcnt /\ new.wantedSegs = e.wantedSegs
        /\ new.reserved = 0 /\ new.numBuffers = InitBuffers
    BY SlabsAssumption DEF SM!NewSlabManager, SM!NumBuffers
  <1>4. n \in 0..MaxBuffers /\ InitBuffers <= n /\ InitBuffers \in Nat /\ n \in Nat
    BY SlabsAssumption
  <1> HIDE DEF new
  <1>5. \A s \in Slabs : e.heldRefcnt[s] = 0 /\ e.wantedSegs[s] = <<>>
    BY SlabsAre
  <1> QED  BY <1>2, <1>3, <1>4, <1>5, NumBuffersMatched DEF new

-----------------------------------------------------------------------------
(***************************************************************************)
(* Counting.                                                               *)
(***************************************************************************)
LEMMA Finite ==
  /\ IsFiniteSet(Clients) /\ IsFiniteSet(Slabs) /\ IsFiniteSet(Blocks)
  /\ IsFiniteSet(Clients \X Blocks)
  <1>1. IsFiniteSet(1..MaxClientID) /\ Clients \subseteq 1..MaxClientID
    BY FS_Interval, ManagerAssumption
  <1>2. TotalNumSlabs - 1 \in Int
    <2>1. SlabsPerBuf * MaxBuffers \in Int
      BY SlabsAssumption
    <2> QED  BY <2>1 DEF TotalNumSlabs
  <1>3. IsFiniteSet(Slabs) /\ IsFiniteSet(1..BlocksPerSlab)
    BY <1>2, FS_Interval, ManagerAssumption DEF Slabs
  <1>4. IsFiniteSet(Clients)
    BY <1>1, FS_Subset
  <1>5. IsFiniteSet(Blocks)
    BY <1>3, FS_Product DEF Blocks
  <1> QED  BY <1>3, <1>4, <1>5, FS_Product

LEMMA Grows ==
  ASSUME NEW S, IsFiniteSet(S), NEW x, x \notin S
  PROVE  /\ IsFiniteSet(S \cup {x}) /\ Cardinality(S \cup {x}) = Cardinality(S) + 1
         /\ Cardinality(S) \in Nat
  BY FS_AddElement, FS_CardinalityType

LEMMA Shrinks ==
  ASSUME NEW S, IsFiniteSet(S), NEW x, x \in S
  PROVE  /\ IsFiniteSet(S \ {x}) /\ Cardinality(S \ {x}) = Cardinality(S) - 1
         /\ Cardinality(S) \in Nat /\ Cardinality(S) > 0
  <1>1. Cardinality(S) \in Nat /\ Cardinality(S) # 0
    BY FS_CardinalityType, FS_EmptySet
  <1> QED  BY <1>1, FS_RemoveElement

\* The places of a list hold as many elements as there are places.
LEMMA PlacesCount ==
  ASSUME NEW S, NEW q \in Seq(S), IsInjective(q), NEW A, A \subseteq 1..Len(q)
  PROVE  Cardinality({q[i] : i \in A}) = Cardinality(A) /\ IsFiniteSet(A)
  <1> DEFINE B == {q[i] : i \in A}
             f == [i \in A |-> q[i]]
  <1>1. IsFiniteSet(A)
    <2>1. Len(q) \in Nat
      OBVIOUS
    <2>2. IsFiniteSet(1..Len(q))
      BY <2>1, FS_Interval
    <2> QED  BY <2>2, FS_Subset
  <1>2. f \in Bijection(A, B)
    <2>1. DOMAIN q = 1..Len(q)
      OBVIOUS
    <2>2. \A i, j \in A : q[i] = q[j] => i = j
      BY <2>1 DEF IsInjective
    <2> QED  BY <2>2 DEF Bijection, Injection, Surjection, IsInjective
  <1>3. ExistsBijection(A, B)
    BY <1>2 DEF ExistsBijection
  <1> QED  BY <1>1, <1>3, FS_Bijection

LEMMA SlabOfBlock ==
  /\ \A x \in Blocks : SlabOf(x) \in Slabs /\ x[2] \in 1..BlocksPerSlab /\ x = <<SlabOf(x), x[2]>>
  BY DEF Blocks, SlabOf

\* A slab holds at most BlocksPerSlab segments.
LEMMA InSlab ==
  ASSUME NEW H \in SUBSET Blocks, NEW s \in Slabs
  PROVE  /\ IsFiniteSet(In(H, s)) /\ Cardinality(In(H, s)) \in Nat
         /\ Cardinality(In(H, s)) <= BlocksPerSlab
  <1> DEFINE B == {<<s, i>> : i \in 1..BlocksPerSlab}
             f == [i \in 1..BlocksPerSlab |-> <<s, i>>]
  <1>1. BlocksPerSlab \in Nat
    BY ManagerAssumption
  <1>2. IsFiniteSet(1..BlocksPerSlab) /\ Cardinality(1..BlocksPerSlab) = BlocksPerSlab
    BY <1>1, FS_Interval
  <1>3. f \in Bijection(1..BlocksPerSlab, B)
    <2>1. \A i, j \in 1..BlocksPerSlab : f[i] = f[j] => i = j
      OBVIOUS
    <2>2. f \in [1..BlocksPerSlab -> B]
      OBVIOUS
    <2>3. \A b \in B : \E i \in 1..BlocksPerSlab : f[i] = b
      OBVIOUS
    <2> QED  BY <2>1, <2>2, <2>3 DEF Bijection, Injection, Surjection, IsInjective
  <1>4. IsFiniteSet(B) /\ Cardinality(B) = BlocksPerSlab
    BY <1>2, <1>3, FS_Bijection DEF ExistsBijection
  <1>5. In(H, s) \subseteq B
    BY SlabOfBlock DEF In
  <1> HIDE DEF B
  <1> QED  BY <1>4, <1>5, FS_Subset, FS_CardinalityType

-----------------------------------------------------------------------------
(***************************************************************************)
(* A client's tracker goes on counting.                                    *)
(***************************************************************************)
\* the fields of a tracker that only a NumSlabs message changes
SameSizes(t, u) == u.numProdSlabs = t.numProdSlabs /\ u.numConsSlabs = t.numConsSlabs

LEMMA TrackerFields ==
  ASSUME NEW t \in TrackerState
  PROVE  /\ t.numProdSlabs \in Asked /\ t.numConsSlabs \in Asked
         /\ t.numProdSlabs \in Nat /\ t.numConsSlabs \in Nat
         /\ t.prodSlabsHeld \in Nat /\ t.consSlabsHeld \in Nat
         /\ t.prod \in SUBSET Slabs /\ IsFiniteSet(t.prod) /\ t.cons \in [Slabs -> Nat]
  <1>1. t.prod \in SUBSET Slabs
    BY DEF TrackerState
  <1>2. IsFiniteSet(t.prod)
    BY <1>1, Finite, FS_Subset
  <1> QED  BY <1>1, <1>2 DEF TrackerState, Asked

LEMMA CountsInsert ==
  ASSUME NEW t \in TrackerState, NEW H \in SUBSET Blocks, Counts(t, H), NEW s \in Slabs
  PROVE  LET u == T!InsertProdSlab(t, s)
         IN  /\ u \in TrackerState /\ Counts(u, H) /\ SameSizes(t, u)
             /\ u.prod = t.prod \cup {s} /\ u.cons = t.cons /\ u.consSlabsHeld = t.consSlabsHeld
  <1> DEFINE u == T!InsertProdSlab(t, s)
             held == IF s \in t.prod THEN t.prodSlabsHeld ELSE t.prodSlabsHeld + 1
  <1>1. /\ u = [t EXCEPT !.prod = t.prod \cup {s}, !.prodSlabsHeld = held]
        /\ t.prod \cup {s} \in SUBSET Slabs /\ held \in Nat
    BY TrackerFields DEF T!InsertProdSlab
  <1>2. /\ u \in TrackerState /\ SameSizes(t, u) /\ u.prodSlabsHeld = held
        /\ u.prod = t.prod \cup {s} /\ u.cons = t.cons /\ u.consSlabsHeld = t.consSlabsHeld
    BY <1>1 DEF TrackerState, SameSizes
  <1>3. held = Cardinality(t.prod \cup {s})
    <2>1. CASE s \in t.prod
      <3>1. t.prod \cup {s} = t.prod
        BY <2>1
      <3> QED  BY <2>1, <3>1 DEF Counts
    <2>2. CASE s \notin t.prod
      BY <2>2, TrackerFields, Grows DEF Counts
    <2> QED  BY <2>1, <2>2
  <1>4. Counts(u, H)
    <2> HIDE DEF u, held
    <2> QED  BY <1>2, <1>3 DEF Counts, SameSizes
  <1> QED  BY <1>2, <1>4

LEMMA ToSetIs ==
  ASSUME NEW q
  PROVE  /\ ToSet(q) = Range(q) /\ T!ToSet(q) = Range(q)
  BY DEF ToSet, T!ToSet, Range

LEMMA CountsErase ==
  ASSUME NEW t \in TrackerState, NEW H \in SUBSET Blocks, Counts(t, H),
         NEW ids \in Seq(t.prod), IsInjective(ids)
  PROVE  LET u == T!EraseProdSlabs(t, ids)
         IN  /\ u \in TrackerState /\ Counts(u, H) /\ SameSizes(t, u) /\ ~T!EraseThrows(t, ids)
             /\ u.prod = t.prod \ Range(ids) /\ u.cons = t.cons /\ u.consSlabsHeld = t.consSlabsHeld
  <1> DEFINE u == T!EraseProdSlabs(t, ids)
  <1>1. /\ IsFiniteSet(Range(ids)) /\ Cardinality(Range(ids)) = Len(ids)
        /\ Range(ids) \subseteq t.prod
    BY ListCount, RangeIs
  <1>2. /\ Cardinality(t.prod \ Range(ids)) = Cardinality(t.prod) - Len(ids)
        /\ Len(ids) <= Cardinality(t.prod) /\ Len(ids) \in Nat /\ Cardinality(t.prod) \in Nat
    <2>1. Cardinality(t.prod \cap Range(ids)) = Len(ids) /\ IsFiniteSet(t.prod)
      <3>1. t.prod \cap Range(ids) = Range(ids)
        BY <1>1
      <3> QED  BY <1>1, <3>1, TrackerFields
    <2>2. Cardinality(t.prod \ Range(ids)) = Cardinality(t.prod) - Cardinality(t.prod \cap Range(ids))
      BY <2>1, FS_Difference
    <2>3. Cardinality(Range(ids)) <= Cardinality(t.prod)
      BY <1>1, <2>1, FS_Subset
    <2> QED  BY <1>1, <2>1, <2>2, <2>3, FS_CardinalityType
  <1>3. t.prodSlabsHeld = Cardinality(t.prod)
    BY DEF Counts
  <1>4. t.prodSlabsHeld - Len(ids) \in Nat /\ t.prod \ Range(ids) \in SUBSET Slabs
    BY <1>2, <1>3, TrackerFields
  <1>5. u = [t EXCEPT !.prod = t.prod \ Range(ids), !.prodSlabsHeld = t.prodSlabsHeld - Len(ids)]
    BY ToSetIs DEF T!EraseProdSlabs
  <1>6. /\ u \in TrackerState /\ SameSizes(t, u) /\ u.prodSlabsHeld = t.prodSlabsHeld - Len(ids)
        /\ u.prod = t.prod \ Range(ids) /\ u.cons = t.cons /\ u.consSlabsHeld = t.consSlabsHeld
    BY <1>4, <1>5 DEF TrackerState, SameSizes
  <1>7. ~T!EraseThrows(t, ids)
    BY <1>2, <1>3 DEF T!EraseThrows
  <1>8. Counts(u, H)
    <2> HIDE DEF u
    <2> QED  BY <1>2, <1>3, <1>6 DEF Counts, SameSizes
  <1> QED  BY <1>6, <1>7, <1>8

\* What a count of slabs becomes when one more, or one less, is in use.
LEMMA InUse ==
  ASSUME NEW f \in [Slabs -> Nat], NEW s \in Slabs, NEW n \in Nat
  PROVE  LET A == {r \in Slabs : f[r] > 0}
             B == {r \in Slabs : [f EXCEPT ![s] = n][r] > 0}
         IN  /\ Cardinality(A) \in Nat
             /\ f[s] = 0 /\ n > 0 => Cardinality(B) = Cardinality(A) + 1
             /\ f[s] > 0 /\ n > 0 => Cardinality(B) = Cardinality(A)
             /\ f[s] > 0 /\ n = 0 => Cardinality(B) = Cardinality(A) - 1 /\ Cardinality(A) > 0
  <1> DEFINE A == {r \in Slabs : f[r] > 0}
             B == {r \in Slabs : [f EXCEPT ![s] = n][r] > 0}
  <1>1. IsFiniteSet(A) /\ Cardinality(A) \in Nat
    <2>1. A \subseteq Slabs
      OBVIOUS
    <2> QED  BY <2>1, Finite, FS_Subset, FS_CardinalityType
  <1>2. f[s] = 0 /\ n > 0 => B = A \cup {s} /\ s \notin A
    OBVIOUS
  <1>3. f[s] > 0 /\ n > 0 => B = A
    OBVIOUS
  <1>4. f[s] > 0 /\ n = 0 => B = A \ {s} /\ s \in A
    OBVIOUS
  <1> HIDE DEF A, B
  <1>5. Cardinality(B) = Cardinality(A) + 1 \/ ~(f[s] = 0 /\ n > 0)
    BY <1>1, <1>2, Grows
  <1>6. (Cardinality(B) = Cardinality(A) - 1 /\ Cardinality(A) > 0) \/ ~(f[s] > 0 /\ n = 0)
    BY <1>1, <1>4, Shrinks
  <1> QED  BY <1>1, <1>3, <1>5, <1>6 DEF A, B

\* TakeConsSlab: one more segment is read.
LEMMA CountsTake ==
  ASSUME NEW t \in TrackerState, NEW H \in SUBSET Blocks, Counts(t, H),
         NEW x \in Blocks, x \notin H, T!CanTakeConsSlab(t, SlabOf(x))
  PROVE  LET u == T!TakeConsSlab(t, SlabOf(x))
         IN  u \in TrackerState /\ Counts(u, H \cup {x}) /\ SameSizes(t, u) /\ u.prod = t.prod
  <1> DEFINE s == SlabOf(x)
             u == T!TakeConsSlab(t, s)
             n == t.cons[s] + 1
             held == IF t.cons[s] = 0 THEN t.consSlabsHeld + 1 ELSE t.consSlabsHeld
  <1>1. s \in Slabs /\ t.cons[s] \in Nat /\ n \in Nat /\ n > 0 /\ held \in Nat /\ t.cons \in [Slabs -> Nat]
    BY SlabOfBlock, TrackerFields
  <1>2. \A r \in Slabs : /\ r # s => In(H \cup {x}, r) = In(H, r)
                         /\ r = s => In(H \cup {x}, r) = In(H, r) \cup {x} /\ x \notin In(H, r)
    BY DEF In
  <1>3. n = Cardinality(In(H \cup {x}, s)) /\ n < UInt16Range
    <2>1. n = Cardinality(In(H \cup {x}, s))
      <3>1. t.cons[s] = Cardinality(In(H, s)) /\ IsFiniteSet(In(H, s))
        BY <1>1, InSlab DEF Counts
      <3> QED  BY <1>1, <1>2, <3>1, Grows
    <2>2. Cardinality(In(H \cup {x}, s)) <= BlocksPerSlab
      BY <1>1, InSlab
    <2> QED  BY <1>1, <2>1, <2>2, ManagerAssumption
  <1>4. n % UInt16Range = n
    BY <1>1, <1>3, ManagerAssumption
  <1>5. u = [t EXCEPT !.cons = [t.cons EXCEPT ![s] = n], !.consSlabsHeld = held]
    BY <1>1, <1>4 DEF T!TakeConsSlab, TrackerState
  <1>6. [t.cons EXCEPT ![s] = n] \in [Slabs -> Nat]
    BY <1>1
  <1>7. /\ u \in TrackerState /\ SameSizes(t, u) /\ u.prodSlabsHeld = t.prodSlabsHeld
        /\ u.prod = t.prod /\ u.cons = [t.cons EXCEPT ![s] = n] /\ u.consSlabsHeld = held
    BY <1>1, <1>5, <1>6 DEF TrackerState, SameSizes
  <1>8. \A r \in Slabs : u.cons[r] = Cardinality(In(H \cup {x}, r))
    <2> HIDE DEF u, n, s
    <2> QED  BY <1>1, <1>2, <1>3, <1>7 DEF Counts
  <1>9. held = Cardinality({r \in Slabs : [t.cons EXCEPT ![s] = n][r] > 0})
    <2> DEFINE A == {r \in Slabs : t.cons[r] > 0}
               B == {r \in Slabs : [t.cons EXCEPT ![s] = n][r] > 0}
    <2>1. t.consSlabsHeld = Cardinality(A)
      BY DEF Counts
    <2> HIDE DEF n, s
    <2>2. /\ Cardinality(A) \in Nat
          /\ t.cons[s] = 0 /\ n > 0 => Cardinality(B) = Cardinality(A) + 1
          /\ t.cons[s] > 0 /\ n > 0 => Cardinality(B) = Cardinality(A)
          /\ t.cons[s] > 0 /\ n = 0 => Cardinality(B) = Cardinality(A) - 1 /\ Cardinality(A) > 0
      BY <1>1, InUse
    <2> HIDE DEF A, B
    <2>3. held = Cardinality(B)
      BY <1>1, <2>1, <2>2
    <2> QED  BY <2>3 DEF B
  <1>10. held <= t.numConsSlabs
    BY <1>1, TrackerFields DEF Counts, T!CanTakeConsSlab
  <1>11. Counts(u, H \cup {x})
    <2> HIDE DEF u, n, held, s
    <2> QED  BY <1>7, <1>8, <1>9, <1>10 DEF Counts, SameSizes
  <1> QED  BY <1>7, <1>11

\* DecrementConsSlab: a segment that is read is given back.
LEMMA CountsDecrement ==
  ASSUME NEW t \in TrackerState, NEW H \in SUBSET Blocks, Counts(t, H), NEW x \in H
  PROVE  LET p == T!DecrementConsSlab([t |-> t, errs |-> FALSE], SlabOf(x))
         IN  /\ p.t \in TrackerState /\ Counts(p.t, H \ {x}) /\ SameSizes(t, p.t)
             /\ p.t.prod = t.prod /\ p.errs = FALSE /\ p = [t |-> p.t, errs |-> FALSE]
  <1> DEFINE s == SlabOf(x)
             p == T!DecrementConsSlab([t |-> t, errs |-> FALSE], s)
             n == t.cons[s] - 1
             held == IF n = 0 THEN t.consSlabsHeld - 1 ELSE t.consSlabsHeld
             u == [t EXCEPT !.cons = [t.cons EXCEPT ![s] = n], !.consSlabsHeld = held]
  <1>1. s \in Slabs /\ t.cons[s] \in Nat /\ t.cons \in [Slabs -> Nat] /\ t.consSlabsHeld \in Nat
    BY SlabOfBlock, TrackerFields
  <1>2. \A r \in Slabs : /\ r # s => In(H \ {x}, r) = In(H, r)
                         /\ r = s => In(H \ {x}, r) = In(H, r) \ {x} /\ x \in In(H, r)
    BY DEF In
  <1>3. n = Cardinality(In(H \ {x}, s)) /\ t.cons[s] > 0
    <2>1. t.cons[s] = Cardinality(In(H, s)) /\ IsFiniteSet(In(H, s))
      BY <1>1, InSlab DEF Counts
    <2> QED  BY <1>1, <1>2, <2>1, Shrinks
  <1>4. n \in Nat /\ n < UInt16Range
    <2>1. Cardinality(In(H \ {x}, s)) <= BlocksPerSlab /\ Cardinality(In(H \ {x}, s)) \in Nat
      BY <1>1, InSlab
    <2> QED  BY <1>1, <1>3, <2>1, ManagerAssumption
  <1>5. n % UInt16Range = n
    BY <1>4, ManagerAssumption
  <1>6. /\ held = Cardinality({r \in Slabs : [t.cons EXCEPT ![s] = n][r] > 0})
        /\ held \in Nat /\ held <= t.consSlabsHeld /\ (n = 0 => t.consSlabsHeld > 0)
    <2> DEFINE A == {r \in Slabs : t.cons[r] > 0}
               B == {r \in Slabs : [t.cons EXCEPT ![s] = n][r] > 0}
    <2>1. t.consSlabsHeld = Cardinality(A)
      BY DEF Counts
    <2> HIDE DEF n, s
    <2>2. /\ Cardinality(A) \in Nat
          /\ t.cons[s] = 0 /\ n > 0 => Cardinality(B) = Cardinality(A) + 1
          /\ t.cons[s] > 0 /\ n > 0 => Cardinality(B) = Cardinality(A)
          /\ t.cons[s] > 0 /\ n = 0 => Cardinality(B) = Cardinality(A) - 1 /\ Cardinality(A) > 0
      BY <1>1, <1>4, InUse
    <2> HIDE DEF A, B
    <2>3. /\ held = Cardinality(B) /\ held \in Nat /\ held <= t.consSlabsHeld
          /\ n = 0 => t.consSlabsHeld > 0
      BY <1>1, <1>3, <1>4, <2>1, <2>2
    <2> QED  BY <2>3 DEF B
  <1>7. p = [t |-> u, errs |-> FALSE]
    <2>1. p.t = u
      BY <1>1, <1>5 DEF T!DecrementConsSlab, TrackerState
    <2>2. p.errs = FALSE
      <3>1. ~(t.cons[s] = 0) /\ ~((t.cons[s] - 1) % UInt16Range = 0 /\ t.consSlabsHeld = 0)
        BY <1>1, <1>3, <1>5, <1>6
      <3>2. p.errs = (FALSE \/ t.cons[s] = 0 \/ ((t.cons[s] - 1) % UInt16Range = 0 /\ t.consSlabsHeld = 0))
        BY DEF T!DecrementConsSlab
      <3> QED  BY <3>1, <3>2, Zenon
    <2> QED  BY <2>1, <2>2 DEF T!DecrementConsSlab
  <1>8. [t.cons EXCEPT ![s] = n] \in [Slabs -> Nat]
    BY <1>1, <1>4
  <1>9. /\ u \in TrackerState /\ SameSizes(t, u) /\ u.prodSlabsHeld = t.prodSlabsHeld
        /\ u.prod = t.prod /\ u.cons = [t.cons EXCEPT ![s] = n] /\ u.consSlabsHeld = held
    BY <1>1, <1>6, <1>8 DEF TrackerState, SameSizes
  <1>10. \A r \in Slabs : u.cons[r] = Cardinality(In(H \ {x}, r))
    <2> HIDE DEF u, n, s
    <2> QED  BY <1>1, <1>2, <1>3, <1>9 DEF Counts
  <1>11. Counts(u, H \ {x})
    <2> HIDE DEF u, n, held, s
    <2>1. t.consSlabsHeld <= t.numConsSlabs /\ t.numConsSlabs \in Nat
      BY TrackerFields DEF Counts
    <2>2. held <= t.numConsSlabs
      BY <1>1, <1>6, <2>1
    <2> QED  BY <1>6, <1>9, <1>10, <2>2 DEF Counts, SameSizes
  <1>12. p.t = u /\ p.errs = FALSE
    BY <1>7
  <1> HIDE DEF u, p
  <1> QED  BY <1>7, <1>9, <1>11, <1>12 DEF p

-----------------------------------------------------------------------------
(***************************************************************************)
(* What the operators leave alone.                                         *)
(***************************************************************************)
\* of a proxy, what no callback and no sending changes,
SameBase(p, q) ==
  /\ q.state = p.state /\ q.sendFailed = p.sendFailed /\ q.group = p.group
  /\ q.regs = p.regs /\ q.nice = p.nice
  /\ SameSizes(p.slabs, q.slabs) /\ p.slabs.prod \subseteq q.slabs.prod

\* what the client reads and has queued,
SameRest(p, q) ==
  /\ q.holding = p.holding /\ q.wantedQueue = p.wantedQueue
  /\ q.needReport = p.needReport /\ q.throttle = p.throttle
  /\ q.owed = p.owed /\ q.lost = p.lost /\ q.inOrder = p.inOrder

\* and of the manager: a slab is given to a producer when it has none.
SameGlobal(m, n) ==
  /\ n.setup = m.setup /\ n.info = m.info /\ n.older = m.older
  /\ n.sm.reserved = m.sm.reserved /\ n.sm.numBuffers = m.sm.numBuffers
  /\ \A s \in Slabs : (\E d \in Clients : s \in m.px[d].slabs.prod) => n.fill[s] = m.fill[s]

\* Slabs are given away.
Frame(m, n) ==
  SameGlobal(m, n) /\ \A d \in Clients : SameBase(m.px[d], n.px[d]) /\ SameRest(m.px[d], n.px[d])

\* Segments go to client c, or off its queue.
Others(m, n, c) ==
  /\ SameGlobal(m, n)
  /\ \A d \in Clients : SameBase(m.px[d], n.px[d]) /\ (d # c => SameRest(m.px[d], n.px[d]))

\* Segments go off the queues.
Kept(m, n) ==
  /\ SameGlobal(m, n)
  /\ \A d \in Clients : SameBase(m.px[d], n.px[d]) /\ n.px[d].holding = m.px[d].holding

\* In all of these
Based(m, n) == SameGlobal(m, n) /\ \A d \in Clients : SameBase(m.px[d], n.px[d])

LEMMA AllBased ==
  ASSUME NEW m, NEW n, Frame(m, n) \/ Kept(m, n) \/ \E c : Others(m, n, c)
  PROVE  Based(m, n)
  BY DEF Frame, Kept, Others, Based

LEMMA GlobalThrough ==
  ASSUME NEW k, NEW m, NEW n, SameGlobal(k, m), SameGlobal(m, n),
         \A d \in Clients : SameBase(k.px[d], m.px[d])
  PROVE  SameGlobal(k, n)
  BY DEF SameGlobal, SameBase

LEMMA BasedThrough ==
  ASSUME NEW k, NEW m, NEW n, Based(k, m), Based(m, n)
  PROVE  Based(k, n)
  <1>1. SameGlobal(k, n)
    BY GlobalThrough DEF Based
  <1> QED  BY <1>1 DEF Based, SameBase, SameSizes

LEMMA FrameThrough ==
  ASSUME NEW k, NEW m, NEW n, Frame(k, m), Frame(m, n)
  PROVE  Frame(k, n)
  <1>1. SameGlobal(k, n)
    BY GlobalThrough DEF Frame
  <1> QED  BY <1>1 DEF Frame, SameBase, SameRest, SameSizes

LEMMA OthersThrough ==
  ASSUME NEW k, NEW m, NEW n, NEW c, Others(k, m, c), Others(m, n, c)
  PROVE  Others(k, n, c)
  <1>1. SameGlobal(k, n)
    BY GlobalThrough DEF Others
  <1> QED  BY <1>1 DEF Others, SameBase, SameRest, SameSizes

LEMMA KeptThrough ==
  ASSUME NEW k, NEW m, NEW n, Kept(k, m), Kept(m, n)
  PROVE  Kept(k, n)
  <1>1. SameGlobal(k, n)
    BY GlobalThrough DEF Kept
  <1> QED  BY <1>1 DEF Kept, SameBase, SameSizes

LEMMA FrameIsBoth ==
  ASSUME NEW m, NEW n, Frame(m, n), NEW c
  PROVE  Others(m, n, c) /\ Kept(m, n)
  BY DEF Frame, Others, Kept, SameRest

LEMMA FrameSame ==
  ASSUME NEW m
  PROVE  Frame(m, m) /\ Kept(m, m) /\ \A c : Others(m, m, c)
  BY DEF Frame, Others, Kept, SameGlobal, SameBase, SameRest, SameSizes

LEMMA MgrFields ==
  ASSUME NEW m \in MgrState
  PROVE  /\ m.setup \in Setups /\ m.sm \in SM!SlabState /\ m.rq \in [RQ!Levels -> Seq(Request)]
         /\ m.px \in [Clients -> ProxyState] /\ m.info \in [Blocks -> Kinds]
         /\ m.fill \in [Slabs -> 0..BlocksPerSlab] /\ m.older \in SUBSET (Blocks \X Blocks)
         /\ m.intact \in BOOLEAN /\ m.err \in BOOLEAN /\ m.ranOut \in BOOLEAN
  BY DEF MgrState

LEMMA ProxyFields ==
  ASSUME NEW p \in ProxyState
  PROVE  /\ p.state \in {"new", "up", "gone"} /\ p.sendFailed \in BOOLEAN /\ p.group \in Nat
         /\ p.regs \in SUBSET MsgIDs /\ p.nice \in Int /\ p.pending \in Nat
         /\ p.slabs \in TrackerState /\ p.holding \in SUBSET Blocks
         /\ p.wantedQueue \in Seq(Blocks)
         /\ p.needReport \in BOOLEAN /\ p.throttle \in BOOLEAN
         /\ p.owed \in SUBSET Blocks /\ p.lost \in BOOLEAN /\ p.inOrder \in BOOLEAN
  BY DEF ProxyState

\* What Ok says of one client.
LEMMA OkClient ==
  ASSUME NEW m, NEW e, Ok(m, e), NEW c \in Clients
  PROVE  /\ m.px[c] \in ProxyState /\ m.px[c].slabs \in TrackerState
         /\ m.px[c].slabs.prod \in SUBSET Slabs /\ m.px[c].holding \in SUBSET Blocks
         /\ m.px[c].wantedQueue \in Seq(Blocks) /\ IsInjective(m.px[c].wantedQueue)
         /\ Counts(m.px[c].slabs, m.px[c].holding)
  <1>1. m.px[c] \in ProxyState
    BY MgrFields DEF Ok
  <1>2. /\ m.px[c].slabs \in TrackerState /\ m.px[c].holding \in SUBSET Blocks
        /\ m.px[c].wantedQueue \in Seq(Blocks)
    BY <1>1, ProxyFields
  <1> QED  BY <1>1, <1>2, TrackerFields DEF Ok, Trackers, Queues

LEMMA RefSets ==
  ASSUME NEW m, NEW s
  PROVE  /\ IsFiniteSet(Producers(m, s)) /\ Cardinality(Producers(m, s)) \in Nat
         /\ IsFiniteSet(Readers(m, s)) /\ Cardinality(Readers(m, s)) \in Nat
  <1>1. Producers(m, s) \subseteq Clients /\ Readers(m, s) \subseteq Clients \X Blocks
    BY DEF Producers, Readers
  <1>2. IsFiniteSet(Producers(m, s)) /\ IsFiniteSet(Readers(m, s))
    BY <1>1, Finite, FS_Subset
  <1> QED  BY <1>2, FS_CardinalityType

\* A slab without references has no producer and no reader; without wanted segments, it is
\* in no queue.
LEMMA Unreferenced ==
  ASSUME NEW m, NEW e, Ok(m, e), NEW s \in Slabs, m.sm.heldRefcnt[s] = 0
  PROVE  /\ Producers(m, s) = {} /\ Readers(m, s) = {} /\ e[s] = 0
         /\ \A d \in Clients : s \notin m.px[d].slabs.prod
         /\ \A d \in Clients : \A x \in m.px[d].holding : SlabOf(x) # s
         /\ m.sm.wantedSegs[s] = <<>> =>
              \A d \in Clients : \A x \in Blocks : Contains(m.px[d].wantedQueue, x) => SlabOf(x) # s
  <1>1. /\ Cardinality(Producers(m, s)) = 0 /\ Cardinality(Readers(m, s)) = 0 /\ e[s] = 0
    <2>1. e[s] \in Nat /\ 0 = Cardinality(Producers(m, s)) + Cardinality(Readers(m, s)) + e[s]
      BY DEF Ok, References
    <2> QED  BY <2>1, RefSets
  <1>2. Producers(m, s) = {} /\ Readers(m, s) = {}
    BY <1>1, RefSets, FS_EmptySet
  <1>3. \A d \in Clients : m.px[d].holding \in SUBSET Blocks
    BY OkClient
  <1>4. \A d \in Clients : \A x \in m.px[d].holding : SlabOf(x) # s
    <2> SUFFICES ASSUME NEW d \in Clients, NEW x \in m.px[d].holding, SlabOf(x) = s
                 PROVE  FALSE
      OBVIOUS
    <2>1. <<d, x>> \in Clients \X Blocks
      BY <1>3
    <2>2. <<d, x>> \in Readers(m, s)
      BY <2>1 DEF Readers
    <2> QED  BY <1>2, <2>2
  <1>5. \A d \in Clients, x \in Blocks :
          Contains(m.px[d].wantedQueue, x) /\ SlabOf(x) = s => Contains(m.sm.wantedSegs[s], <<d, x>>)
    BY DEF Ok, Queues
  <1>6. \A y : ~Contains(<<>>, y)
    BY DEF Contains
  <1>7. \A d \in Clients : s \notin m.px[d].slabs.prod
    BY <1>2 DEF Producers
  <1>8. ASSUME m.sm.wantedSegs[s] = <<>>, NEW d \in Clients, NEW x \in Blocks,
               Contains(m.px[d].wantedQueue, x), SlabOf(x) = s
        PROVE  FALSE
    <2>1. Contains(m.sm.wantedSegs[s], <<d, x>>)
      BY <1>5, <1>8
    <2> QED  BY <1>6, <1>8, <2>1
  <1> QED  BY <1>1, <1>2, <1>4, <1>7, <1>8

\* A slab with a producer, a reader or a debt is held.
LEMMA Referred ==
  ASSUME NEW m, NEW e, Ok(m, e), NEW s \in Slabs,
         (\E d \in Clients : s \in m.px[d].slabs.prod) \/ e[s] > 0
  PROVE  m.sm.heldRefcnt[s] > 0 /\ m.sm.heldRefcnt[s] >= e[s]
  <1>1. m.sm.heldRefcnt[s] = Cardinality(Producers(m, s)) + Cardinality(Readers(m, s)) + e[s] /\ e[s] \in Nat
    BY DEF Ok, References
  <1>2. (\E d \in Clients : s \in m.px[d].slabs.prod) => Cardinality(Producers(m, s)) > 0
    <2>1. (\E d \in Clients : s \in m.px[d].slabs.prod) => Producers(m, s) # {}
      BY DEF Producers
    <2> QED  BY <2>1, RefSets, FS_EmptySet
  <1> QED  BY <1>1, <1>2, RefSets

-----------------------------------------------------------------------------
(***************************************************************************)
(* The slab manager and the debt change, and no client does.               *)
(***************************************************************************)
SameClient(p, q) ==
  /\ q.state = p.state /\ q.slabs = p.slabs
  /\ q.holding = p.holding /\ q.wantedQueue = p.wantedQueue

LEMMA OkSame ==
  ASSUME NEW m, NEW e, Ok(m, e), NEW n \in MgrState, NEW f \in [Slabs -> Nat],
         \A d \in Clients : SameClient(m.px[d], n.px[d]),
         Matched(n.sm),
         \A s \in Slabs : n.sm.heldRefcnt[s] + e[s] = m.sm.heldRefcnt[s] + f[s],
         n.sm.wantedSegs = m.sm.wantedSegs,
         n.fill = m.fill, n.intact = m.intact, n.err = m.err
  PROVE  Ok(n, f)
  <1>1. \A s : Producers(n, s) = Producers(m, s) /\ Readers(n, s) = Readers(m, s)
    BY DEF Producers, Readers, SameClient
  <1>2. References(n, f)
    <2> SUFFICES ASSUME NEW s \in Slabs
                 PROVE  n.sm.heldRefcnt[s] =
                          Cardinality(Producers(n, s)) + Cardinality(Readers(n, s)) + f[s]
      BY DEF References
    <2>1. m.sm.heldRefcnt[s] = Cardinality(Producers(m, s)) + Cardinality(Readers(m, s)) + e[s]
      BY DEF Ok, References
    <2>2. e[s] \in Nat /\ f[s] \in Nat /\ n.sm.heldRefcnt[s] \in Nat
      BY MatchedLists DEF Ok
    <2>3. n.sm.heldRefcnt[s] + e[s] = m.sm.heldRefcnt[s] + f[s]
      OBVIOUS
    <2> QED  BY <1>1, <2>1, <2>2, <2>3, RefSets
  <1>3. Trackers(n)
    BY DEF Ok, Trackers, SameClient
  <1>4. Queues(n)
    BY DEF Ok, Queues, SameClient
  <1>5. Gone(n)
    BY DEF Ok, Gone, SameClient, Up
  <1>6. Filled(n)
    BY DEF Ok, Filled, Refers, SameClient
  <1> QED  BY <1>2, <1>3, <1>4, <1>5, <1>6 DEF Ok

(***************************************************************************)
(* TakeFreeSlab: the slab has no reference, no reader and nothing queued.  *)
(***************************************************************************)
LEMMA TakeFreeSlabOk ==
  ASSUME NEW m, NEW e, Ok(m, e), NEW c \in Clients, Up(m, c), m.sm.free # <<>>
  PROVE  LET n == TakeFreeSlab(m, c)
         IN  Ok(n, e) /\ Frame(m, n) /\ n.rq = m.rq /\ n.sm = SM!GetFreeSlab(m.sm)
  <1> DEFINE n == TakeFreeSlab(m, c)
             s == Head(m.sm.free)
             p == m.px[c]
             slabs == T!InsertProdSlab(p.slabs, s)
             pending == IF p.pending = 0 THEN 0 ELSE p.pending - 1
             q == [p EXCEPT !.slabs = slabs, !.pending = pending]
             intact == m.intact /\ \A x \in Referenced(m) : SlabOf(x) # s
             err == m.err \/ ~(~SM!GetFreeSlabThrows(m.sm) /\ s \notin p.slabs.prod)
  <1>1. /\ m \in MgrState /\ Matched(m.sm) /\ p \in ProxyState /\ Counts(p.slabs, p.holding)
        /\ p.slabs \in TrackerState /\ p.holding \in SUBSET Blocks /\ p.pending \in Nat
    BY OkClient, ProxyFields DEF Ok
  <1>2. s \in Slabs /\ SM!GetFreeSlab(m.sm) \in SM!SlabState
    BY <1>1, GetFreeSlabMatched DEF Matched
  <1>3. slabs \in TrackerState /\ pending \in Nat
    BY <1>1, <1>2, CountsInsert
  <1>4. q \in ProxyState
    BY <1>1, <1>3 DEF ProxyState
  <1>5. intact \in BOOLEAN /\ err \in BOOLEAN
    BY <1>1, MgrFields
  <1>6. n = [m EXCEPT !.sm = SM!GetFreeSlab(m.sm), !.px = [m.px EXCEPT ![c] = q],
                      !.fill = [m.fill EXCEPT ![s] = 0], !.intact = intact, !.err = err]
    <2> DEFINE ok == ~SM!GetFreeSlabThrows(m.sm) /\ s \notin p.slabs.prod
               k == [m EXCEPT !.sm = SM!GetFreeSlab(m.sm), !.px = [m.px EXCEPT ![c] = q],
                              !.fill = [m.fill EXCEPT ![s] = 0], !.intact = intact]
    <2>1. [m EXCEPT !.sm = SM!GetFreeSlab(m.sm), !.px[c] = q, !.fill[s] = 0, !.intact = intact] = k
      <3> HIDE DEF s, q, intact
      <3> QED  OBVIOUS
    <2>2. k.err = m.err
      <3> HIDE DEF q, intact, s
      <3> QED  BY <1>1 DEF MgrState
    <2>3. n = Expect(k, ok)
      BY <2>1, Zenon DEF TakeFreeSlab
    <2> QED
      <3> HIDE DEF q, intact, s
      <3> QED  BY <2>2, <2>3 DEF Expect
  <1>7. /\ [m.px EXCEPT ![c] = q] \in [Clients -> ProxyState]
        /\ [m.fill EXCEPT ![s] = 0] \in [Slabs -> 0..BlocksPerSlab]
    BY <1>1, <1>2, <1>4, MgrFields, ManagerAssumption
  <1> HIDE DEF n, s, p, slabs, pending, q, intact, err
  <1>8. n \in MgrState
    BY <1>1, <1>2, <1>5, <1>6, <1>7 DEF MgrState
  <1>9. /\ n.sm = SM!GetFreeSlab(m.sm) /\ n.px = [m.px EXCEPT ![c] = q]
        /\ n.fill = [m.fill EXCEPT ![s] = 0] /\ n.intact = intact /\ n.err = err
        /\ n.rq = m.rq /\ n.setup = m.setup /\ n.info = m.info /\ n.older = m.older
        /\ n.ranOut = m.ranOut
    BY <1>1, <1>6 DEF MgrState
  <1>10. /\ m.intact /\ ~m.err /\ e \in [Slabs -> Nat] /\ m.px \in [Clients -> ProxyState]
         /\ m.fill \in [Slabs -> 0..BlocksPerSlab] /\ Matched(m.sm)
    BY MgrFields DEF Ok
  <1>11. /\ Matched(n.sm) /\ s \in Slabs
         /\ m.sm.heldRefcnt[s] = 0 /\ m.sm.wantedSegs[s] = <<>>
         /\ n.sm.heldRefcnt = [m.sm.heldRefcnt EXCEPT ![s] = 1]
         /\ n.sm.wantedSegs = m.sm.wantedSegs
         /\ n.sm.numBuffers = m.sm.numBuffers /\ n.sm.reserved = m.sm.reserved
    <2> DEFINE g == SM!GetFreeSlab(m.sm)
    <2>1. /\ Matched(g) /\ s \in Slabs
          /\ m.sm.heldRefcnt[s] = 0 /\ m.sm.wantedSegs[s] = <<>>
          /\ g.heldRefcnt = [m.sm.heldRefcnt EXCEPT ![s] = 1]
          /\ g.wantedSegs = m.sm.wantedSegs
          /\ g.numBuffers = m.sm.numBuffers /\ g.reserved = m.sm.reserved
      BY <1>10, GetFreeSlabMatched DEF s
    <2>2. n.sm = g
      BY <1>9
    <2> QED  BY <2>1, <2>2
  <1>12. /\ Producers(m, s) = {} /\ Readers(m, s) = {} /\ e[s] = 0
         /\ \A d \in Clients : s \notin m.px[d].slabs.prod
         /\ \A d \in Clients : \A x \in m.px[d].holding : SlabOf(x) # s
         /\ \A d \in Clients : \A x \in Blocks : Contains(m.px[d].wantedQueue, x) => SlabOf(x) # s
    <2>1. m.sm.heldRefcnt[s] = 0 /\ m.sm.wantedSegs[s] = <<>> /\ s \in Slabs
      BY <1>11
    <2> QED  BY <2>1, Unreferenced
  <1>25. \A d \in Clients, x \in Blocks : Refers(m.px[d], x) => SlabOf(x) # s
    <2> SUFFICES ASSUME NEW d \in Clients, NEW x \in Blocks, Refers(m.px[d], x)
                 PROVE  SlabOf(x) # s
      OBVIOUS
    <2>1. \A y \in m.px[d].holding : SlabOf(y) # s
      BY <1>12
    <2>2. Contains(m.px[d].wantedQueue, x) => SlabOf(x) # s
      BY <1>12
    <2> QED  BY <2>1, <2>2 DEF Refers
  <1>26. m.sm.heldRefcnt \in [Slabs -> Nat]
    BY <1>10, MatchedLists
  <1>13. /\ slabs \in TrackerState /\ Counts(slabs, p.holding) /\ SameSizes(p.slabs, slabs)
         /\ slabs.prod = p.slabs.prod \cup {s} /\ slabs.cons = p.slabs.cons
    BY <1>1, <1>11, CountsInsert DEF slabs
  <1>14. /\ q.slabs = slabs /\ q.state = p.state /\ q.sendFailed = p.sendFailed /\ q.group = p.group
         /\ q.regs = p.regs /\ q.nice = p.nice
         /\ q.holding = p.holding /\ q.wantedQueue = p.wantedQueue
         /\ q.needReport = p.needReport /\ q.throttle = p.throttle
         /\ q.owed = p.owed /\ q.lost = p.lost /\ q.inOrder = p.inOrder
    BY <1>1 DEF ProxyState, q
  <1>15. n.px[c] = q /\ \A d \in Clients : d # c => n.px[d] = m.px[d]
    BY <1>10, <1>9
  <1>16. \A d \in Clients : /\ SameBase(m.px[d], n.px[d]) /\ SameRest(m.px[d], n.px[d])
    BY <1>13, <1>14, <1>15 DEF SameBase, SameRest, SameSizes, p
  <1>17. \A d \in Clients, r \in Slabs :
          r \in n.px[d].slabs.prod <=> r \in m.px[d].slabs.prod \/ (d = c /\ r = s)
    BY <1>13, <1>14, <1>15 DEF p
  <1>18. Frame(m, n)
    <2>1. \A r \in Slabs : (\E d \in Clients : r \in m.px[d].slabs.prod) => n.fill[r] = m.fill[r]
      BY <1>10, <1>9, <1>12
    <2> QED  BY <1>9, <1>11, <1>16, <2>1 DEF Frame, SameGlobal
  <1>19. References(n, e)
    <2>1. \A r : Readers(n, r) = Readers(m, r)
      BY <1>16 DEF Readers, SameRest
    <2>2. ASSUME NEW r \in Slabs
          PROVE  n.sm.heldRefcnt[r] = Cardinality(Producers(n, r)) + Cardinality(Readers(n, r)) + e[r]
      <3>1. CASE r = s
        <4>1. Producers(n, r) = {c}
          BY <1>12, <1>17, <3>1 DEF Producers
        <4>2. Cardinality({c}) = 1 /\ Cardinality({}) = 0
          BY FS_Singleton, FS_EmptySet
        <4>3. n.sm.heldRefcnt[r] = 1
          BY <1>26, <1>11, <3>1
        <4>4. Readers(n, r) = {} /\ e[r] = 0
          BY <1>12, <2>1, <3>1
        <4> QED  BY <4>1, <4>2, <4>3, <4>4
      <3>2. CASE r # s
        <4>1. Producers(n, r) = Producers(m, r)
          BY <1>17, <3>2 DEF Producers
        <4>2. n.sm.heldRefcnt[r] = m.sm.heldRefcnt[r]
          BY <1>26, <1>11, <3>2
        <4> QED  BY <2>1, <4>1, <4>2 DEF Ok, References
      <3> QED  BY <3>1, <3>2
    <2> QED  BY <2>2 DEF References
  <1>20. Trackers(n)
    <2> SUFFICES ASSUME NEW d \in Clients
                 PROVE  Counts(n.px[d].slabs, n.px[d].holding)
      BY DEF Trackers
    <2>1. CASE d = c
      BY <1>13, <1>14, <1>15, <2>1
    <2>2. CASE d # c
      BY <1>15, <2>2, OkClient
    <2> QED  BY <2>1, <2>2
  <1>21. Queues(n)
    BY <1>11, <1>16 DEF Ok, Queues, SameRest
  <1>22. Gone(n)
    <2>1. \A d \in Clients : Up(n, d) <=> Up(m, d)
      BY <1>16 DEF Up, SameBase
    <2>2. \A d \in Clients : ~Up(m, d) => d # c
      OBVIOUS
    <2> QED  BY <1>15, <2>1, <2>2 DEF Ok, Gone
  <1>23. Filled(n)
    <2> SUFFICES ASSUME NEW b \in Clients, NEW d \in Clients, NEW x \in Blocks,
                        Refers(n.px[b], x), SlabOf(x) \in n.px[d].slabs.prod
                 PROVE  x[2] <= n.fill[SlabOf(x)]
      BY DEF Filled
    <2>1. Refers(m.px[b], x)
      BY <1>16 DEF Refers, SameRest
    <2>2. SlabOf(x) # s
      BY <1>25, <2>1
    <2>3. SlabOf(x) \in Slabs /\ SlabOf(x) \in m.px[d].slabs.prod
      BY <1>17, <2>2, SlabOfBlock
    <2>4. x[2] <= m.fill[SlabOf(x)]
      BY <2>1, <2>3 DEF Ok, Filled
    <2> QED  BY <1>10, <1>9, <2>2, <2>3, <2>4
  <1>24. n.intact /\ ~n.err
    <2>1. \A x \in Referenced(m) : SlabOf(x) # s
      <3> SUFFICES ASSUME NEW d \in Clients, NEW x \in m.px[d].holding \cup Queued(m, d)
                   PROVE  SlabOf(x) # s
        BY DEF Referenced
      <3>1. CASE x \in m.px[d].holding
        BY <1>12, <3>1
      <3>2. CASE x \in Queued(m, d)
        <4>1. x \in Blocks /\ Contains(m.px[d].wantedQueue, x)
          BY <3>2, OkClient, RangeIs DEF Queued
        <4>2. Refers(m.px[d], x)
          BY <4>1 DEF Refers
        <4> QED  BY <1>25, <4>1, <4>2
      <3> QED  BY <3>1, <3>2
    <2>2. ~SM!GetFreeSlabThrows(m.sm) /\ s \notin p.slabs.prod
      <3>1. ~SM!Held(m.sm, s) /\ ~SM!Wanted(m.sm, s)
        BY <1>11 DEF SM!Held, SM!Wanted
      <3>2. s \notin p.slabs.prod
        BY <1>12 DEF p
      <3> QED  BY <3>1, <3>2 DEF SM!GetFreeSlabThrows, s
    <2>3. n.intact = intact /\ n.err = err /\ m.intact /\ ~m.err
      BY <1>9, <1>10
    <2> QED  BY <2>1, <2>2, <2>3 DEF intact, err
  <1>27. Matched(n.sm) /\ n.rq = m.rq /\ n.sm = SM!GetFreeSlab(m.sm) /\ e \in [Slabs -> Nat]
    BY <1>9, <1>10, <1>11
  <1> QED  BY <1>8, <1>18, <1>19, <1>20, <1>21, <1>22, <1>23, <1>24, <1>27 DEF Ok, n

-----------------------------------------------------------------------------
(***************************************************************************)
(* The requests.                                                           *)
(***************************************************************************)
LEMMA LowestPending ==
  ASSUME NEW rq, RQ!HasRequests(rq)
  PROVE  LET level == RQ!LowestLevelPending(rq)
         IN  level \in RQ!Levels /\ rq[level] # <<>>
  <1> DEFINE S == {l \in RQ!Levels : rq[l] # <<>>}
             P0(l) == rq[l] # <<>> /\ \A k \in RQ!Levels : k < l => rq[k] = <<>>
  <1>1. S \subseteq Nat /\ S # {} /\ RQ!Levels \subseteq Nat
    BY ManagerAssumption DEF RQ!HasRequests, RQ!Levels
  <1>2. Min(S) \in S /\ \A y \in S : Min(S) <= y
    BY <1>1, LeastNat
  <1>3. \E l \in RQ!Levels : P0(l)
    <2>1. Min(S) \in RQ!Levels /\ rq[Min(S)] # <<>>
      BY <1>2
    <2>2. \A k \in RQ!Levels : k < Min(S) => rq[k] = <<>>
      <3> SUFFICES ASSUME NEW k \in RQ!Levels, k < Min(S), rq[k] # <<>>
                   PROVE  FALSE
        OBVIOUS
      <3>1. Min(S) <= k /\ k \in Nat /\ Min(S) \in Nat
        BY <1>1, <1>2
      <3> QED  BY <3>1
    <2> QED  BY <2>1, <2>2
  <1> QED  BY <1>3 DEF RQ!LowestLevelPending

LEMMA WithRequests ==
  ASSUME NEW m, NEW e, Ok(m, e), NEW rq \in [RQ!Levels -> Seq(Request)]
  PROVE  LET n == [m EXCEPT !.rq = rq]
         IN  Ok(n, e) /\ Frame(m, n) /\ n.rq = rq /\ n.sm = m.sm /\ n.px = m.px
  <1> DEFINE n == [m EXCEPT !.rq = rq]
  <1>1. /\ n \in MgrState /\ n.rq = rq /\ n.sm = m.sm /\ n.px = m.px /\ n.fill = m.fill
        /\ n.intact = m.intact /\ n.err = m.err
        /\ n.setup = m.setup /\ n.info = m.info /\ n.older = m.older
    BY DEF Ok, MgrState
  <1>2. e \in [Slabs -> Nat] /\ Matched(m.sm)
    BY DEF Ok
  <1> HIDE DEF n
  <1>3. Ok(n, e)
    BY <1>1, <1>2, OkSame DEF SameClient
  <1>4. Frame(m, n)
    BY <1>1 DEF Frame, SameGlobal, SameBase, SameRest, SameSizes
  <1> QED  BY <1>1, <1>3, <1>4 DEF n

LEMMA RequestAdded ==
  ASSUME NEW rq \in [RQ!Levels -> Seq(Request)], NEW level, NEW c \in Clients, NEW k \in Nat \ {0}
  PROVE  RQ!AddRequest(rq, level, k, c) \in [RQ!Levels -> Seq(Request)]
  <1>1. RQ!SafeLevel(level) \in RQ!Levels
    BY ManagerAssumption DEF RQ!SafeLevel, RQ!Levels
  <1>2. [id |-> c, numSlabs |-> k] \in Request
    BY DEF Request
  <1> QED  BY <1>1, <1>2 DEF RQ!AddRequest

LEMMA ServiceRequestOk ==
  ASSUME NEW m, NEW e, Ok(m, e), RQ!HasRequests(m.rq), NumFreeSlabs(m) > 0
  PROVE  LET n == ServiceRequest(m)
         IN  Ok(n, e) /\ Frame(m, n)
  <1> DEFINE level == RQ!LowestLevelPending(m.rq)
             req   == RQ!FrontRequest(m.rq, level)
             m1    == [m EXCEPT !.rq = RQ!PopFrontRequest(@, level)]
             m2    == TakeFreeSlab(m1, req.id)
             m3    == [m2 EXCEPT !.rq = RQ!AddRequest(@, level, req.numSlabs - 1, req.id)]
  <1>1. level \in RQ!Levels /\ m.rq[level] # <<>> /\ m.rq \in [RQ!Levels -> Seq(Request)]
    BY LowestPending, MgrFields DEF Ok
  <1>2. req \in Request /\ RQ!PopFrontRequest(m.rq, level) \in [RQ!Levels -> Seq(Request)]
    BY <1>1 DEF RQ!FrontRequest, RQ!PopFrontRequest
  <1>3. req.id \in Clients /\ req.numSlabs \in Nat \ {0}
    BY <1>2 DEF Request
  <1>4. m.sm.free # <<>>
    BY DEF NumFreeSlabs
  <1> HIDE DEF level, req
  <1>5. Ok(m1, e) /\ Frame(m, m1) /\ m1.sm = m.sm /\ m1.px = m.px
    BY <1>2, WithRequests
  <1> HIDE DEF m1
  <1>6. CASE ~Up(m, req.id)
    BY <1>5, <1>6 DEF ServiceRequest, level, req, m1
  <1>7. CASE Up(m, req.id)
    <2>1. Up(m1, req.id) /\ m1.sm.free # <<>>
      BY <1>4, <1>5, <1>7 DEF Up
    <2>2. Ok(m2, e) /\ Frame(m1, m2)
      BY <1>3, <1>5, <2>1, TakeFreeSlabOk
    <2>3. Frame(m, m2)
      BY <1>5, <2>2, FrameThrough
    <2> HIDE DEF m2
    <2>4. CASE req.numSlabs = 1
      BY <1>7, <2>2, <2>3, <2>4 DEF ServiceRequest, level, req, m1, m2
    <2>5. CASE req.numSlabs # 1
      <3>1. req.numSlabs - 1 \in Nat \ {0}
        BY <1>3, <2>5
      <3>2. RQ!AddRequest(m2.rq, level, req.numSlabs - 1, req.id) \in [RQ!Levels -> Seq(Request)]
        BY <1>3, <2>2, <3>1, RequestAdded, MgrFields DEF Ok
      <3>3. Ok(m3, e) /\ Frame(m2, m3)
        BY <2>2, <3>2, WithRequests
      <3>4. Frame(m, m3)
        BY <2>3, <3>3, FrameThrough
      <3>5. ServiceRequest(m) = m3
        BY <1>7, <2>5, Zenon DEF ServiceRequest, level, req, m1, m2
      <3> QED  BY <3>3, <3>4, <3>5
    <2> QED  BY <2>4, <2>5
  <1> QED  BY <1>6, <1>7

\* ServiceSlabRequests, a loop
ServiceRound(a, x, i) ==
  IF RQ!HasRequests(x.rq) /\ NumFreeSlabs(x) > 0 THEN ServiceRequest(x) ELSE x
ServiceInv(a, x, k) == Ok(x, a[2]) /\ Frame(a[1], x)
ServiceLoop == INSTANCE LoopFacts WITH Step <- ServiceRound, Inv <- ServiceInv

LEMMA ServiceSlabRequestsOk ==
  ASSUME NEW m, NEW e, Ok(m, e), RQ!NumRequests(m.rq) \in Nat
  PROVE  LET n == ServiceSlabRequests(m)
         IN  Ok(n, e) /\ Frame(m, n)
  <1> DEFINE k == RQ!NumRequests(m.rq) + NumFreeSlabs(m)
             a == <<m, e>>
             n == ServiceLoop!After(a, m, k)
  <1>1. k \in Nat
    <2>1. Len(m.sm.free) \in Nat
      BY MatchedLists DEF Ok
    <2> QED  BY <2>1 DEF NumFreeSlabs
  <1>2. ServiceSlabRequests(m) = n
    <2> HIDE DEF k
    <2> QED BY DEF ServiceSlabRequests, ServiceLoop!After, Iterate, ServiceLoop!Iterate, ServiceRound, k
  <1>3. ServiceInv(a, m, 0)
    BY FrameSame DEF ServiceInv
  <1>4. ASSUME NEW i \in 1..k, NEW x, ServiceInv(a, x, i - 1)
        PROVE  ServiceInv(a, ServiceRound(a, x, i), i)
    <2>1. CASE RQ!HasRequests(x.rq) /\ NumFreeSlabs(x) > 0
      <3> DEFINE y == ServiceRequest(x)
      <3>1. Ok(y, e) /\ Frame(x, y)
        BY <1>4, <2>1, ServiceRequestOk DEF ServiceInv
      <3>2. Frame(m, y)
        BY <1>4, <3>1, FrameThrough DEF ServiceInv
      <3> QED  BY <2>1, <3>1, <3>2 DEF ServiceInv, ServiceRound
    <2>2. CASE ~(RQ!HasRequests(x.rq) /\ NumFreeSlabs(x) > 0)
      BY <1>4, <2>2 DEF ServiceInv, ServiceRound
    <2> QED  BY <2>1, <2>2
  <1> HIDE DEF k, a, n
  <1>5. ServiceInv(a, n, k)
    BY <1>1, <1>3, <1>4, CountUp, ServiceLoop!LoopInvariant DEF n, ServiceLoop!CountsUp
  <1> QED  BY <1>2, <1>5 DEF ServiceInv, a

LEMMA RequestsFinite ==
  ASSUME NEW m \in MgrState
  PROVE  RQ!NumRequests(m.rq) \in Nat
  <1> DEFINE R(l) == {l} \X (1..Len(m.rq[l]))
             S == {R(l) : l \in RQ!Levels}
  <1>1. IsFiniteSet(RQ!Levels)
    BY FS_Interval, ManagerAssumption DEF RQ!Levels
  <1>2. IsFiniteSet(S)
    <2> DEFINE f == [l \in RQ!Levels |-> R(l)]
    <2>1. f \in Surjection(RQ!Levels, S)
      BY DEF Surjection
    <2> HIDE DEF f, S
    <2> QED  BY <1>1, <2>1, FS_Surjection
  <1>3. \A A \in S : IsFiniteSet(A)
    <2> SUFFICES ASSUME NEW l \in RQ!Levels
                 PROVE  IsFiniteSet(R(l))
      OBVIOUS
    <2>1. Len(m.rq[l]) \in Nat
      BY MgrFields
    <2>2. IsFiniteSet(1..Len(m.rq[l])) /\ IsFiniteSet({l})
      <3>1. 1 \in Int /\ Len(m.rq[l]) \in Int
        BY <2>1
      <3> QED  BY <3>1, FS_Interval, FS_Singleton
    <2> QED  BY <2>2, FS_Product
  <1>4. IsFiniteSet(UNION S)
    <2> HIDE DEF S
    <2> QED  BY <1>2, <1>3, FS_UNION
  <1>5. RQ!NumRequests(m.rq) = Cardinality(UNION S)
    BY Zenon DEF RQ!NumRequests, RQ!Cardinality, Cardinality
  <1> QED  BY <1>4, <1>5, FS_CardinalityType

-----------------------------------------------------------------------------
(***************************************************************************)
(* References given back, with what the callbacks do on the way.           *)
(***************************************************************************)
LEMMA WithSlabsOk ==
  ASSUME NEW m, NEW e, NEW sm, Ok([m EXCEPT !.sm = sm], e)
  PROVE  Ok(WithSlabs(m, sm), e) /\ Frame([m EXCEPT !.sm = sm], WithSlabs(m, sm))
  <1> DEFINE m1 == [m EXCEPT !.sm = sm]
  <1>1. WithSlabs(m, sm) = m1 \/ WithSlabs(m, sm) = ServiceSlabRequests(m1)
    BY DEF WithSlabs
  <1>2. RQ!NumRequests(m1.rq) \in Nat
    BY RequestsFinite DEF Ok
  <1> HIDE DEF m1
  <1>3. Ok(ServiceSlabRequests(m1), e) /\ Frame(m1, ServiceSlabRequests(m1)) /\ Ok(m1, e)
    BY <1>2, ServiceSlabRequestsOk DEF m1
  <1> QED  BY <1>1, <1>3, FrameSame DEF m1

LEMMA ExpectIs ==
  ASSUME NEW m \in MgrState, NEW ok, ok, ~m.err
  PROVE  LET n == Expect(m, ok)
         IN  /\ n \in MgrState /\ ~n.err
             /\ n.setup = m.setup /\ n.sm = m.sm /\ n.rq = m.rq /\ n.px = m.px /\ n.info = m.info
             /\ n.fill = m.fill /\ n.older = m.older /\ n.intact = m.intact /\ n.ranOut = m.ranOut
  <1>1. (m.err \/ ~ok) = FALSE
    BY Zenon
  <1> QED  BY <1>1 DEF Expect, MgrState

LEMMA DecrementOk ==
  ASSUME NEW m, NEW e, Ok(m, e), NEW s \in Slabs, NEW amount \in Nat \ {0}, amount <= e[s]
  PROVE  LET n == DecrementHeldRefcnt(m, s, amount)
         IN  Ok(n, [e EXCEPT ![s] = @ - amount]) /\ Frame(m, n)
  <1> DEFINE sm == SM!DecrementHeldRefcnt(m.sm, s, amount)
             f  == [e EXCEPT ![s] = @ - amount]
             m0 == Expect(m, ~SM!DecrementThrows(m.sm, s, amount))
             m1 == [m0 EXCEPT !.sm = sm]
  <1>1. m \in MgrState /\ Matched(m.sm) /\ e \in [Slabs -> Nat] /\ ~m.err
    BY DEF Ok
  <1>2. m.sm.heldRefcnt \in [Slabs -> Nat] /\ e[s] \in Nat
    BY <1>1, MatchedLists
  <1>3. amount <= m.sm.heldRefcnt[s]
    BY <1>1, <1>2, Referred
  <1>4. /\ Matched(sm) /\ ~SM!DecrementThrows(m.sm, s, amount)
        /\ sm.heldRefcnt = [m.sm.heldRefcnt EXCEPT ![s] = @ - amount]
        /\ sm.wantedSegs = m.sm.wantedSegs
        /\ sm.numBuffers = m.sm.numBuffers /\ sm.reserved = m.sm.reserved
    BY <1>1, <1>3, DecrementMatched
  <1>5. f \in [Slabs -> Nat]
    BY <1>1
  <1>6. /\ m0 \in MgrState /\ ~m0.err /\ m0.setup = m.setup /\ m0.px = m.px /\ m0.info = m.info
        /\ m0.fill = m.fill /\ m0.older = m.older /\ m0.intact = m.intact
    BY <1>1, <1>4, ExpectIs
  <1> HIDE DEF m0, sm
  <1>7. /\ m1 \in MgrState /\ m1.sm = sm /\ ~m1.err
        /\ m1.setup = m.setup /\ m1.px = m.px /\ m1.info = m.info
        /\ m1.fill = m.fill /\ m1.older = m.older /\ m1.intact = m.intact
    BY <1>4, <1>6 DEF MgrState, Matched
  <1> HIDE DEF m1
  <1>8. \A r \in Slabs : m1.sm.heldRefcnt[r] + e[r] = m.sm.heldRefcnt[r] + f[r]
    <2> SUFFICES ASSUME NEW r \in Slabs
                 PROVE  sm.heldRefcnt[r] + e[r] = m.sm.heldRefcnt[r] + f[r]
      BY <1>7
    <2>1. m.sm.heldRefcnt[r] \in Nat /\ e[r] \in Nat
      BY <1>1, <1>2
    <2>2. r = s => sm.heldRefcnt[r] = m.sm.heldRefcnt[r] - amount /\ f[r] = e[r] - amount
      BY <1>1, <1>2, <1>4
    <2>3. r # s => sm.heldRefcnt[r] = m.sm.heldRefcnt[r] /\ f[r] = e[r]
      BY <1>1, <1>2, <1>4
    <2> QED  BY <2>1, <2>2, <2>3
  <1>9. m1.err = m.err
    BY <1>1, <1>7, MgrFields
  <1>10. Ok(m1, f)
    <2> HIDE DEF f
    <2> QED  BY <1>4, <1>5, <1>7, <1>8, <1>9, OkSame DEF SameClient
  <1>11. Frame(m, m1)
    BY <1>4, <1>7 DEF Frame, SameGlobal, SameBase, SameRest, SameSizes
  <1>12. Ok(WithSlabs(m0, sm), f) /\ Frame(m1, WithSlabs(m0, sm))
    <2> HIDE DEF f
    <2> QED  BY <1>10, WithSlabsOk DEF m1
  <1>13. DecrementHeldRefcnt(m, s, amount) = WithSlabs(m0, sm)
    BY DEF DecrementHeldRefcnt, m0, sm
  <1>14. Frame(m, WithSlabs(m0, sm))
    BY <1>11, <1>12, FrameThrough
  <1> QED  BY <1>12, <1>13, <1>14

-----------------------------------------------------------------------------
(***************************************************************************)
(* A segment leaves its client's queue and its slab's list.                *)
(***************************************************************************)
SameButQueue(p, q) ==
  /\ q.holding = p.holding /\ q.needReport = p.needReport /\ q.throttle = p.throttle
  /\ q.owed = p.owed /\ q.lost = p.lost /\ q.inOrder = p.inOrder

Unqueued(m, n, c) == Others(m, n, c) /\ Kept(m, n) /\ SameButQueue(m.px[c], n.px[c])

LEMMA UnqueueOk ==
  ASSUME NEW m, NEW e, Ok(m, e), NEW c \in Clients, NEW x \in Blocks,
         Contains(m.px[c].wantedQueue, x),
         NEW q \in Seq(Blocks), IsInjective(q),
         \A y : Contains(q, y) <=> Contains(m.px[c].wantedQueue, y) /\ y # x
  PROVE  LET n == ReleaseWantedSegment([m EXCEPT !.px[c].wantedQueue = q], c, x)
         IN  Ok(n, e) /\ Unqueued(m, n, c) /\ n.px[c].wantedQueue = q
  <1> DEFINE s  == SlabOf(x)
             p  == m.px[c]
             r  == [p EXCEPT !.wantedQueue = q]
             m0 == [m EXCEPT !.px[c].wantedQueue = q]
             sm == SM!ReleaseWantedSegment(m.sm, <<c, x>>, s)
             m1 == [m0 EXCEPT !.sm = sm]
             n  == WithSlabs(m0, sm)
  <1>1. /\ m \in MgrState /\ Matched(m.sm) /\ e \in [Slabs -> Nat] /\ p \in ProxyState
        /\ m.px \in [Clients -> ProxyState] /\ s \in Slabs /\ <<c, x>> \in Clients \X Blocks
    BY OkClient, MgrFields, SlabOfBlock DEF Ok
  <1>2. Contains(m.sm.wantedSegs[s], <<c, x>>)
    BY <1>1 DEF Ok, Queues
  <1>3. /\ Matched(sm) /\ sm.heldRefcnt = m.sm.heldRefcnt
        /\ sm.numBuffers = m.sm.numBuffers /\ sm.reserved = m.sm.reserved
        /\ \A t \in Slabs : \A y : Contains(sm.wantedSegs[t], y) <=>
                                     Contains(m.sm.wantedSegs[t], y) /\ ~(t = s /\ y = <<c, x>>)
    <2> DEFINE seg == <<c, x>>
    <2>1. Matched(m.sm) /\ s \in Slabs /\ seg \in Clients \X Blocks /\ Contains(m.sm.wantedSegs[s], seg)
      BY <1>1, <1>2
    <2> HIDE DEF s, seg
    <2>2. /\ Matched(SM!ReleaseWantedSegment(m.sm, seg, s))
          /\ SM!ReleaseWantedSegment(m.sm, seg, s).heldRefcnt = m.sm.heldRefcnt
          /\ SM!ReleaseWantedSegment(m.sm, seg, s).numBuffers = m.sm.numBuffers
          /\ SM!ReleaseWantedSegment(m.sm, seg, s).reserved = m.sm.reserved
      BY <2>1, ReleaseWantedMatched
    <2>3. \A t \in Slabs : \A y : Contains(SM!ReleaseWantedSegment(m.sm, seg, s).wantedSegs[t], y) <=>
                                     Contains(m.sm.wantedSegs[t], y) /\ ~(t = s /\ y = seg)
      BY <2>1, ReleaseWantedMatched
    <2> QED  BY <2>2, <2>3 DEF seg
  <1>4. /\ r \in ProxyState /\ r.wantedQueue = q /\ SameBase(p, r) /\ SameButQueue(p, r)
        /\ r.slabs = p.slabs
    BY <1>1 DEF ProxyState, SameBase, SameButQueue, SameSizes
  <1>5. m0 = [m EXCEPT !.px = [m.px EXCEPT ![c] = r]]
    OBVIOUS
  <1>6. m0.sm = m.sm
    BY <1>1, <1>5 DEF MgrState
  <1>7. ReleaseWantedSegment(m0, c, x) = n
    BY <1>6 DEF ReleaseWantedSegment
  <1> HIDE DEF s, sm, r, m0
  <1>8. /\ m1 \in MgrState /\ m1.sm = sm /\ m1.px = [m.px EXCEPT ![c] = r]
        /\ m1.fill = m.fill /\ m1.intact = m.intact /\ m1.err = m.err
        /\ m1.setup = m.setup /\ m1.info = m.info /\ m1.older = m.older
    BY <1>1, <1>3, <1>4, <1>5 DEF MgrState, Matched
  <1> HIDE DEF m1
  <1>9. m1.px[c] = r /\ \A d \in Clients : d # c => m1.px[d] = m.px[d]
    BY <1>1, <1>8
  <1>10. \A d \in Clients : /\ SameBase(m.px[d], m1.px[d]) /\ SameButQueue(m.px[d], m1.px[d])
                            /\ m1.px[d].slabs = m.px[d].slabs
                            /\ (d # c => SameRest(m.px[d], m1.px[d]))
    BY <1>4, <1>9 DEF SameBase, SameButQueue, SameRest, SameSizes
  <1>11. Unqueued(m, m1, c)
    BY <1>3, <1>8, <1>10 DEF Unqueued, Others, Kept, SameGlobal, SameButQueue
  <1>12. \A d \in Clients, y \in Blocks :
           Contains(m1.px[d].wantedQueue, y) <=> Contains(m.px[d].wantedQueue, y) /\ ~(d = c /\ y = x)
    BY <1>4, <1>9
  <1>13. References(m1, e)
    <2>1. \A t : Producers(m1, t) = Producers(m, t) /\ Readers(m1, t) = Readers(m, t)
      BY <1>10 DEF Producers, Readers, SameButQueue
    <2> QED  BY <1>3, <1>8, <2>1 DEF Ok, References
  <1>14. Trackers(m1)
    BY <1>10 DEF Ok, Trackers, SameButQueue
  <1>15. Queues(m1)
    <2>1. \A d \in Clients : IsInjective(m1.px[d].wantedQueue)
      BY <1>4, <1>9 DEF Ok, Queues
    <2>2. ASSUME NEW t \in Slabs, NEW d \in Clients, NEW y \in Blocks
          PROVE  Contains(m1.sm.wantedSegs[t], <<d, y>>) <=>
                   Contains(m1.px[d].wantedQueue, y) /\ SlabOf(y) = t
      <3>1. Contains(m.sm.wantedSegs[t], <<d, y>>) <=>
              Contains(m.px[d].wantedQueue, y) /\ SlabOf(y) = t
        BY DEF Ok, Queues
      <3>2. <<d, y>> = <<c, x>> <=> d = c /\ y = x
        OBVIOUS
      <3>3. y = x => SlabOf(y) = s
        BY DEF s
      <3>4. Contains(m1.sm.wantedSegs[t], <<d, y>>) <=>
              Contains(m.sm.wantedSegs[t], <<d, y>>) /\ ~(t = s /\ <<d, y>> = <<c, x>>)
        BY <1>3, <1>8
      <3>5. Contains(m1.px[d].wantedQueue, y) <=> Contains(m.px[d].wantedQueue, y) /\ ~(d = c /\ y = x)
        BY <1>12
      <3> QED  BY <3>1, <3>2, <3>3, <3>4, <3>5
    <2> QED  BY <2>1, <2>2 DEF Queues
  <1>16. Gone(m1)
    BY <1>10 DEF Ok, Gone, Up, SameBase, SameButQueue
  <1>17. Filled(m1)
    <2>1. \A d \in Clients, y \in Blocks : Refers(m1.px[d], y) => Refers(m.px[d], y)
      BY <1>10, <1>12 DEF Refers, SameButQueue
    <2> QED  BY <1>8, <1>10, <2>1 DEF Ok, Filled
  <1>18. Ok(m1, e)
    <2>1. m1.intact /\ ~m1.err
      BY <1>8 DEF Ok
    <2>2. Matched(m1.sm)
      BY <1>3, <1>8
    <2> QED  BY <1>1, <1>8, <1>13, <1>14, <1>15, <1>16, <1>17, <2>1, <2>2 DEF Ok
  <1>19. Ok(n, e) /\ Frame(m1, n)
    BY <1>18, WithSlabsOk DEF m1
  <1>20. /\ Others(m, n, c) /\ Kept(m, n)
    BY <1>11, <1>19, FrameIsBoth, OthersThrough, KeptThrough DEF Unqueued
  <1>21. SameButQueue(m.px[c], n.px[c]) /\ n.px[c].wantedQueue = q
    BY <1>4, <1>9, <1>10, <1>19 DEF Frame, SameRest, SameButQueue
  <1> QED  BY <1>7, <1>19, <1>20, <1>21 DEF Unqueued, m0

LEMMA PopFrontOk ==
  ASSUME NEW m, NEW e, Ok(m, e), NEW c \in Clients, m.px[c].wantedQueue # <<>>
  PROVE  LET n == PopFront(m, c)
         IN  Ok(n, e) /\ Unqueued(m, n, c) /\ n.px[c].wantedQueue = Tail(m.px[c].wantedQueue)
  <1> DEFINE q == m.px[c].wantedQueue
  <1>1. q \in Seq(Blocks) /\ IsInjective(q)
    BY OkClient
  <1>2. /\ Head(q) \in Blocks /\ Contains(q, Head(q)) /\ Tail(q) \in Seq(Blocks) /\ IsInjective(Tail(q))
        /\ \A y : Contains(Tail(q), y) <=> Contains(q, y) /\ y # Head(q)
    BY <1>1, TailList
  <1>3. PopFront(m, c) = ReleaseWantedSegment([m EXCEPT !.px[c].wantedQueue = Tail(q)], c, Head(q))
    BY DEF PopFront, FrontWanted
  <1> DEFINE x == Head(q)
             r == Tail(q)
             n == ReleaseWantedSegment([m EXCEPT !.px[c].wantedQueue = r], c, x)
  <1> HIDE DEF x, r
  <1>4. /\ x \in Blocks /\ Contains(m.px[c].wantedQueue, x) /\ r \in Seq(Blocks) /\ IsInjective(r)
        /\ \A y : Contains(r, y) <=> Contains(m.px[c].wantedQueue, y) /\ y # x
    BY <1>2 DEF x, r
  <1>5. Ok(n, e) /\ Unqueued(m, n, c) /\ n.px[c].wantedQueue = r
    BY <1>4, UnqueueOk
  <1> QED  BY <1>3, <1>5 DEF x, r

-----------------------------------------------------------------------------
(***************************************************************************)
(* A segment is sent, or queued.                                           *)
(***************************************************************************)
\* its slab is in use, and the segment is one of those that the slab's producer has filled
Usable(m, x) ==
  /\ m.sm.heldRefcnt[SlabOf(x)] > 0 \/ m.sm.wantedSegs[SlabOf(x)] # <<>>
  /\ \A d \in Clients : SlabOf(x) \in m.px[d].slabs.prod => x[2] <= m.fill[SlabOf(x)]

LEMMA QueuedUsable ==
  ASSUME NEW m, NEW e, Ok(m, e), NEW c \in Clients, NEW x \in Blocks, Contains(m.px[c].wantedQueue, x)
  PROVE  Usable(m, x)
  <1>1. SlabOf(x) \in Slabs
    BY SlabOfBlock
  <1>2. Contains(m.sm.wantedSegs[SlabOf(x)], <<c, x>>)
    BY <1>1 DEF Ok, Queues
  <1>3. m.sm.wantedSegs[SlabOf(x)] # <<>>
    BY <1>2 DEF Contains
  <1> QED  BY <1>3 DEF Ok, Filled, Refers, Usable

Sent(m, n, c, x) ==
  /\ Others(m, n, c) /\ n.px[c].holding = m.px[c].holding \cup {x}
  /\ n.px[c].wantedQueue = m.px[c].wantedQueue
  /\ n.px[c].needReport = m.px[c].needReport /\ n.px[c].throttle = m.px[c].throttle
  /\ n.px[c].lost = m.px[c].lost /\ n.px[c].owed = m.px[c].owed \ {x}
  /\ n.px[c].inOrder = (/\ m.px[c].inOrder /\ x \in m.px[c].owed
                        /\ \A y \in (m.px[c].owed \cap Queued(m, c)) \ {x} : <<x, y>> \in m.older)

LEMMA SendBlockIDOk ==
  ASSUME NEW m, NEW e, Ok(m, e), NEW c \in Clients, Up(m, c), NEW x \in Blocks,
         x \notin m.px[c].holding, Usable(m, x),
         T!CanTakeConsSlab(m.px[c].slabs, SlabOf(x))
  PROVE  LET n == SendBlockID(m, c, x)
         IN  Ok(n, e) /\ Sent(m, n, c, x)
  <1> DEFINE s  == SlabOf(x)
             p  == m.px[c]
             slabs == T!TakeConsSlab(p.slabs, s)
             inOrder == p.inOrder /\ x \in p.owed /\ \A y \in (p.owed \cap Queued(m, c)) \ {x} : <<x, y>> \in m.older
             q  == [p EXCEPT !.slabs = slabs, !.holding = p.holding \cup {x},
                             !.inOrder = inOrder, !.owed = p.owed \ {x}]
             sm == SM!IncrementHeldRefcnt(m.sm, s)
             m0 == [m EXCEPT !.sm = sm]
             m1 == Expect(m0, ~SM!IncrementThrows(m.sm, s))
             n  == [m1 EXCEPT !.px[c] = q]
  <1>1. /\ m \in MgrState /\ Matched(m.sm) /\ e \in [Slabs -> Nat] /\ p \in ProxyState /\ ~m.err /\ m.intact
        /\ m.px \in [Clients -> ProxyState] /\ s \in Slabs /\ m.sm.heldRefcnt \in [Slabs -> Nat]
    BY OkClient, MgrFields, SlabOfBlock, MatchedLists DEF Ok
  <1>2. SendBlockID(m, c, x) = n
    BY Zenon DEF SendBlockID, IncrementHeldRefcnt
  <1>3. p.slabs \in TrackerState /\ Counts(p.slabs, p.holding) /\ p.holding \in SUBSET Blocks
    BY OkClient
  <1>4. /\ slabs \in TrackerState /\ Counts(slabs, p.holding \cup {x}) /\ SameSizes(p.slabs, slabs)
        /\ slabs.prod = p.slabs.prod
    BY <1>3, CountsTake
  <1>5. inOrder \in BOOLEAN /\ p.holding \cup {x} \in SUBSET Blocks /\ p.owed \ {x} \in SUBSET Blocks
    BY <1>1, <1>3, ProxyFields
  <1>6. /\ Matched(sm) /\ ~SM!IncrementThrows(m.sm, s)
        /\ sm.heldRefcnt = [m.sm.heldRefcnt EXCEPT ![s] = @ + 1]
        /\ sm.wantedSegs = m.sm.wantedSegs
        /\ sm.numBuffers = m.sm.numBuffers /\ sm.reserved = m.sm.reserved
    BY <1>1, IncrementMatched DEF Usable
  <1> HIDE DEF slabs, inOrder, sm, s
  <1>7. /\ q \in ProxyState /\ SameBase(p, q) /\ q.slabs = slabs /\ q.holding = p.holding \cup {x}
        /\ q.wantedQueue = p.wantedQueue /\ q.needReport = p.needReport /\ q.throttle = p.throttle
        /\ q.lost = p.lost /\ q.owed = p.owed \ {x} /\ q.inOrder = inOrder
    BY <1>1, <1>4, <1>5 DEF ProxyState, SameBase, SameSizes
  <1> HIDE DEF q
  <1>8. /\ m0 \in MgrState /\ m0.sm = sm /\ m0.px = m.px /\ m0.fill = m.fill
        /\ m0.intact = m.intact /\ m0.err = m.err
        /\ m0.setup = m.setup /\ m0.info = m.info /\ m0.older = m.older
    BY <1>1, <1>6 DEF MgrState, Matched
  <1> HIDE DEF m0
  <1>9. /\ m1 \in MgrState /\ m1.sm = sm /\ m1.px = m.px /\ m1.fill = m.fill
        /\ m1.intact = m.intact /\ ~m1.err
        /\ m1.setup = m.setup /\ m1.info = m.info /\ m1.older = m.older
    BY <1>1, <1>6, <1>8, ExpectIs, Zenon
  <1> HIDE DEF m1
  <1>10. /\ n \in MgrState /\ n.sm = sm /\ n.px = [m.px EXCEPT ![c] = q] /\ n.fill = m.fill
         /\ n.intact = m.intact /\ ~n.err
         /\ n.setup = m.setup /\ n.info = m.info /\ n.older = m.older
    BY <1>1, <1>7, <1>9 DEF MgrState
  <1> HIDE DEF n
  <1>11. n.px[c] = q /\ \A d \in Clients : d # c => n.px[d] = m.px[d]
    BY <1>1, <1>10
  <1>12. \A d \in Clients : /\ SameBase(m.px[d], n.px[d]) /\ n.px[d].wantedQueue = m.px[d].wantedQueue
                            /\ n.px[d].slabs.prod = m.px[d].slabs.prod
                            /\ (d # c => SameRest(m.px[d], n.px[d]))
    BY <1>4, <1>7, <1>11 DEF SameBase, SameRest, SameSizes
  <1>13. Sent(m, n, c, x)
    <2>1. Others(m, n, c)
      BY <1>6, <1>10, <1>12 DEF Others, SameGlobal
    <2> QED  BY <1>7, <1>11, <2>1 DEF Sent, inOrder
  <1>14. References(n, e)
    <2> SUFFICES ASSUME NEW r \in Slabs
                 PROVE  n.sm.heldRefcnt[r] =
                          Cardinality(Producers(n, r)) + Cardinality(Readers(n, r)) + e[r]
      BY DEF References
    <2>1. Producers(n, r) = Producers(m, r)
      BY <1>12 DEF Producers
    <2>2. m.sm.heldRefcnt[r] = Cardinality(Producers(m, r)) + Cardinality(Readers(m, r)) + e[r]
      BY DEF Ok, References
    <2>3. CASE r = s
      <3>1. <<c, x>> \notin Readers(m, r)
        BY DEF Readers
      <3>2. Readers(n, r) = Readers(m, r) \cup {<<c, x>>}
        <4>1. ASSUME NEW b \in Clients, NEW y \in Blocks
              PROVE  y \in n.px[b].holding <=> y \in m.px[b].holding \/ (b = c /\ y = x)
          <5>1. CASE b = c
            BY <1>7, <1>11, <5>1
          <5>2. CASE b # c
            BY <1>11, <5>2
          <5> QED  BY <5>1, <5>2
        <4> QED  BY <2>3, <4>1 DEF Readers, s
      <3>3. Cardinality(Readers(n, r)) = Cardinality(Readers(m, r)) + 1
        BY <3>1, <3>2, RefSets, Grows
      <3>4. n.sm.heldRefcnt[r] = m.sm.heldRefcnt[r] + 1
        BY <1>1, <1>6, <1>10, <2>3
      <3>5. e[r] \in Nat
        BY <1>1
      <3> QED  BY <2>1, <2>2, <3>3, <3>4, <3>5, RefSets
    <2>4. CASE r # s
      <3>1. Readers(n, r) = Readers(m, r)
        <4>1. ASSUME NEW b \in Clients, NEW y \in Blocks, SlabOf(y) = r
              PROVE  y \in n.px[b].holding <=> y \in m.px[b].holding
          <5>1. CASE b = c
            BY <1>7, <1>11, <2>4, <4>1, <5>1 DEF s
          <5>2. CASE b # c
            BY <1>11, <5>2
          <5> QED  BY <5>1, <5>2
        <4> QED  BY <4>1 DEF Readers
      <3>2. n.sm.heldRefcnt[r] = m.sm.heldRefcnt[r]
        BY <1>1, <1>6, <1>10, <2>4
      <3> QED  BY <2>1, <2>2, <3>1, <3>2
    <2> QED  BY <2>3, <2>4
  <1>15. Trackers(n)
    <2> SUFFICES ASSUME NEW d \in Clients
                 PROVE  Counts(n.px[d].slabs, n.px[d].holding)
      BY DEF Trackers
    <2>1. CASE d = c
      BY <1>4, <1>7, <1>11, <2>1
    <2>2. CASE d # c
      BY <1>11, <2>2, OkClient
    <2> QED  BY <2>1, <2>2
  <1>16. Queues(n)
    BY <1>6, <1>10, <1>12 DEF Ok, Queues
  <1>17. Gone(n)
    <2>1. \A d \in Clients : Up(n, d) <=> Up(m, d)
      BY <1>12 DEF Up, SameBase
    <2> QED  BY <1>11, <2>1 DEF Ok, Gone
  <1>18. Filled(n)
    <2> SUFFICES ASSUME NEW b \in Clients, NEW d \in Clients, NEW y \in Blocks,
                        Refers(n.px[b], y), SlabOf(y) \in n.px[d].slabs.prod
                 PROVE  y[2] <= m.fill[SlabOf(y)]
      BY <1>10 DEF Filled
    <2>1. SlabOf(y) \in m.px[d].slabs.prod
      BY <1>12
    <2>2. CASE y = x
      BY <2>1, <2>2 DEF Usable
    <2>3. CASE y # x
      <3>1. Refers(m.px[b], y)
        BY <1>7, <1>11, <1>12, <2>3 DEF Refers
      <3> QED  BY <2>1, <3>1 DEF Ok, Filled
    <2> QED  BY <2>2, <2>3
  <1>19. Matched(n.sm)
    BY <1>6, <1>10
  <1>20. Ok(n, e)
    BY <1>1, <1>10, <1>14, <1>15, <1>16, <1>17, <1>18, <1>19 DEF Ok
  <1> QED  BY <1>2, <1>13, <1>20

LEMMA QueueSegmentOk ==
  ASSUME NEW m, NEW e, Ok(m, e), NEW c \in Clients, NEW x \in Blocks,
         ~Contains(m.px[c].wantedQueue, x), Usable(m, x)
  PROVE  LET n == QueueSegment(m, c, x)
         IN  /\ Ok(n, e) /\ Others(m, n, c) /\ SameButQueue(m.px[c], n.px[c])
             /\ n.px[c].wantedQueue = Append(m.px[c].wantedQueue, x)
  <1> DEFINE s  == SlabOf(x)
             p  == m.px[c]
             w  == Append(p.wantedQueue, x)
             q  == [p EXCEPT !.wantedQueue = w]
             seg == <<c, x>>
             sm == SM!GetWantedSegment(m.sm, seg, s)
             m1 == [m EXCEPT !.sm = sm, !.px[c].wantedQueue = w]
             n  == Expect(m1, ~SM!GetWantedThrows(m.sm, s))
  <1>1. /\ m \in MgrState /\ Matched(m.sm) /\ e \in [Slabs -> Nat] /\ p \in ProxyState /\ ~m.err /\ m.intact
        /\ m.px \in [Clients -> ProxyState] /\ s \in Slabs /\ seg \in Clients \X Blocks
    BY OkClient, MgrFields, SlabOfBlock DEF Ok
  <1>2. QueueSegment(m, c, x) = n
    BY Zenon DEF QueueSegment
  <1>3. /\ w \in Seq(Blocks) /\ IsInjective(w)
        /\ \A y : Contains(w, y) <=> Contains(p.wantedQueue, y) \/ y = x
    BY OkClient, AppendList
  <1>4. ~Contains(m.sm.wantedSegs[s], seg)
    BY <1>1 DEF Ok, Queues
  <1>5. /\ Matched(sm) /\ ~SM!GetWantedThrows(m.sm, s)
        /\ sm.heldRefcnt = m.sm.heldRefcnt
        /\ sm.numBuffers = m.sm.numBuffers /\ sm.reserved = m.sm.reserved
        /\ \A t \in Slabs : \A y : Contains(sm.wantedSegs[t], y) <=>
                                     Contains(m.sm.wantedSegs[t], y) \/ (t = s /\ y = seg)
    <2>1. /\ Matched(m.sm) /\ s \in Slabs /\ seg \in Clients \X Blocks
          /\ m.sm.heldRefcnt[s] > 0 \/ m.sm.wantedSegs[s] # <<>>
          /\ ~Contains(m.sm.wantedSegs[s], seg)
      BY <1>1, <1>4 DEF Usable
    <2> HIDE DEF s, seg
    <2>2. /\ Matched(SM!GetWantedSegment(m.sm, seg, s)) /\ ~SM!GetWantedThrows(m.sm, s)
          /\ SM!GetWantedSegment(m.sm, seg, s).heldRefcnt = m.sm.heldRefcnt
          /\ SM!GetWantedSegment(m.sm, seg, s).numBuffers = m.sm.numBuffers
          /\ SM!GetWantedSegment(m.sm, seg, s).reserved = m.sm.reserved
      BY <2>1, GetWantedMatched
    <2>3. \A t \in Slabs : \A y : Contains(SM!GetWantedSegment(m.sm, seg, s).wantedSegs[t], y) <=>
                                     Contains(m.sm.wantedSegs[t], y) \/ (t = s /\ y = seg)
      BY <2>1, GetWantedMatched
    <2> QED  BY <2>2, <2>3
  <1> HIDE DEF s, sm, w, seg
  <1>6. /\ q \in ProxyState /\ SameBase(p, q) /\ SameButQueue(p, q) /\ q.slabs = p.slabs
        /\ q.wantedQueue = w
    BY <1>1, <1>3 DEF ProxyState, SameBase, SameButQueue, SameSizes
  <1>7. m1 = [m EXCEPT !.sm = sm, !.px = [m.px EXCEPT ![c] = q]]
    OBVIOUS
  <1> HIDE DEF q, m1
  <1>8. /\ m1 \in MgrState /\ m1.sm = sm /\ m1.px = [m.px EXCEPT ![c] = q] /\ m1.fill = m.fill
        /\ m1.intact = m.intact /\ m1.err = m.err
        /\ m1.setup = m.setup /\ m1.info = m.info /\ m1.older = m.older
    BY <1>1, <1>5, <1>6, <1>7 DEF MgrState, Matched
  <1>9. /\ n \in MgrState /\ n.sm = sm /\ n.px = [m.px EXCEPT ![c] = q] /\ n.fill = m.fill
        /\ n.intact = m.intact /\ ~n.err
        /\ n.setup = m.setup /\ n.info = m.info /\ n.older = m.older
    <2>1. m1 \in MgrState /\ ~m1.err /\ ~SM!GetWantedThrows(m.sm, s)
      BY <1>1, <1>5, <1>8
    <2>2. /\ n \in MgrState /\ ~n.err
          /\ n.setup = m1.setup /\ n.sm = m1.sm /\ n.px = m1.px /\ n.info = m1.info
          /\ n.fill = m1.fill /\ n.older = m1.older /\ n.intact = m1.intact
      BY <2>1, ExpectIs
    <2> HIDE DEF n
    <2> QED  BY <1>8, <2>2
  <1> HIDE DEF n
  <1>10. n.px[c] = q /\ \A d \in Clients : d # c => n.px[d] = m.px[d]
    BY <1>1, <1>9
  <1>11. \A d \in Clients : /\ SameBase(m.px[d], n.px[d]) /\ SameButQueue(m.px[d], n.px[d])
                            /\ n.px[d].slabs = m.px[d].slabs
                            /\ (d # c => SameRest(m.px[d], n.px[d]))
    BY <1>6, <1>10 DEF SameBase, SameButQueue, SameRest, SameSizes
  <1>12. Others(m, n, c)
    BY <1>5, <1>9, <1>11 DEF Others, SameGlobal
  <1>13. \A d \in Clients, y \in Blocks :
           Contains(n.px[d].wantedQueue, y) <=> Contains(m.px[d].wantedQueue, y) \/ (d = c /\ y = x)
    BY <1>3, <1>6, <1>10
  <1>14. References(n, e)
    <2>1. \A t : Producers(n, t) = Producers(m, t) /\ Readers(n, t) = Readers(m, t)
      BY <1>11 DEF Producers, Readers, SameButQueue
    <2> QED  BY <1>5, <1>9, <2>1 DEF Ok, References
  <1>15. Trackers(n)
    BY <1>11 DEF Ok, Trackers, SameButQueue
  <1>16. Queues(n)
    <2>1. \A d \in Clients : IsInjective(n.px[d].wantedQueue)
      BY <1>3, <1>6, <1>10 DEF Ok, Queues
    <2>2. ASSUME NEW t \in Slabs, NEW d \in Clients, NEW y \in Blocks
          PROVE  Contains(n.sm.wantedSegs[t], <<d, y>>) <=>
                   Contains(n.px[d].wantedQueue, y) /\ SlabOf(y) = t
      <3>1. Contains(m.sm.wantedSegs[t], <<d, y>>) <=>
              Contains(m.px[d].wantedQueue, y) /\ SlabOf(y) = t
        BY DEF Ok, Queues
      <3>2. <<d, y>> = seg <=> d = c /\ y = x
        BY DEF seg
      <3>3. y = x => SlabOf(y) = s
        BY DEF s
      <3>4. Contains(n.sm.wantedSegs[t], <<d, y>>) <=>
              Contains(m.sm.wantedSegs[t], <<d, y>>) \/ (t = s /\ <<d, y>> = seg)
        BY <1>5, <1>9
      <3>5. Contains(n.px[d].wantedQueue, y) <=> Contains(m.px[d].wantedQueue, y) \/ (d = c /\ y = x)
        BY <1>13
      <3> QED  BY <3>1, <3>2, <3>3, <3>4, <3>5
    <2> QED  BY <2>1, <2>2 DEF Queues
  <1>17. Gone(n)
    BY <1>11 DEF Ok, Gone, Up, SameBase, SameButQueue
  <1>18. Filled(n)
    <2> SUFFICES ASSUME NEW b \in Clients, NEW d \in Clients, NEW y \in Blocks,
                        Refers(n.px[b], y), SlabOf(y) \in n.px[d].slabs.prod
                 PROVE  y[2] <= m.fill[SlabOf(y)]
      BY <1>9 DEF Filled
    <2>1. SlabOf(y) \in m.px[d].slabs.prod
      BY <1>11
    <2>2. CASE y = x
      BY <2>1, <2>2 DEF Usable
    <2>3. CASE y # x
      <3>1. Refers(m.px[b], y)
        BY <1>11, <1>13, <2>3 DEF Refers, SameButQueue
      <3> QED  BY <2>1, <3>1 DEF Ok, Filled
    <2> QED  BY <2>2, <2>3
  <1>19. Matched(n.sm)
    BY <1>5, <1>9
  <1>20. Ok(n, e)
    BY <1>1, <1>9, <1>14, <1>15, <1>16, <1>17, <1>18, <1>19 DEF Ok
  <1>21. SameButQueue(m.px[c], n.px[c]) /\ n.px[c].wantedQueue = w
    BY <1>6, <1>10, <1>11
  <1> QED  BY <1>2, <1>12, <1>20, <1>21 DEF w

-----------------------------------------------------------------------------
(***************************************************************************)
(* A client changes in what no slab depends on.                            *)
(***************************************************************************)
SameButClient(m, n, c) ==
  /\ n.setup = m.setup /\ n.sm = m.sm /\ n.rq = m.rq /\ n.info = m.info /\ n.fill = m.fill
  /\ n.older = m.older /\ n.intact = m.intact /\ n.err = m.err /\ n.ranOut = m.ranOut
  /\ \A d \in Clients : d # c => n.px[d] = m.px[d]

LEMMA WithProxy ==
  ASSUME NEW m \in MgrState, NEW c \in Clients, NEW q \in ProxyState
  PROVE  LET n == [m EXCEPT !.px[c] = q]
         IN  n \in MgrState /\ n.px[c] = q /\ SameButClient(m, n, c)
  <1> DEFINE n == [m EXCEPT !.px[c] = q]
  <1>1. m.px \in [Clients -> ProxyState]
    BY MgrFields
  <1>2. [m.px EXCEPT ![c] = q] \in [Clients -> ProxyState]
    BY <1>1
  <1>3. n = [m EXCEPT !.px = [m.px EXCEPT ![c] = q]]
    OBVIOUS
  <1> HIDE DEF n
  <1>4. /\ n \in MgrState /\ n.px = [m.px EXCEPT ![c] = q]
        /\ n.setup = m.setup /\ n.sm = m.sm /\ n.rq = m.rq /\ n.info = m.info /\ n.fill = m.fill
        /\ n.older = m.older /\ n.intact = m.intact /\ n.err = m.err /\ n.ranOut = m.ranOut
    BY <1>2, <1>3 DEF MgrState
  <1>5. n.px[c] = q /\ \A d \in Clients : d # c => n.px[d] = m.px[d]
    BY <1>1, <1>4
  <1> QED  BY <1>4, <1>5 DEF n, SameButClient

LEMMA ProxyOk ==
  ASSUME NEW m, NEW e, Ok(m, e), NEW c \in Clients, NEW q \in ProxyState, SameClient(m.px[c], q)
  PROVE  LET n == [m EXCEPT !.px[c] = q]
         IN  Ok(n, e) /\ n.px[c] = q /\ SameButClient(m, n, c)
  <1> DEFINE n == [m EXCEPT !.px[c] = q]
  <1>1. n \in MgrState /\ n.px[c] = q /\ SameButClient(m, n, c)
    BY WithProxy DEF Ok
  <1> HIDE DEF n
  <1>2. \A d \in Clients : SameClient(m.px[d], n.px[d])
    BY <1>1 DEF SameClient, SameButClient
  <1>3. /\ n.sm = m.sm /\ n.fill = m.fill /\ n.intact = m.intact /\ n.err = m.err
        /\ Matched(m.sm) /\ e \in [Slabs -> Nat]
    BY <1>1 DEF SameButClient, Ok
  <1>4. Ok(n, e)
    BY <1>1, <1>2, <1>3, OkSame
  <1> QED  BY <1>1, <1>4 DEF n

LEMMA ClientOnly ==
  ASSUME NEW m, NEW n, NEW c \in Clients, SameButClient(m, n, c), SameBase(m.px[c], n.px[c])
  PROVE  Others(m, n, c) /\ (n.px[c].holding = m.px[c].holding => Kept(m, n))
  BY DEF SameButClient, Others, Kept, SameGlobal, SameBase, SameRest, SameSizes

\* The report says what was dropped, unless an earlier report is not acknowledged.
Reported(p, q, segs) ==
  /\ q.lost = p.lost /\ q.inOrder = p.inOrder /\ q.owed = p.owed \ segs
  /\ q.needReport => q.throttle

LEMMA DropReportOk ==
  ASSUME NEW m, NEW e, Ok(m, e), NEW c \in Clients, NEW segs
  PROVE  LET n == SendDropReport(m, c, segs)
         IN  /\ Ok(n, e) /\ Others(m, n, c) /\ Kept(m, n) /\ SameClient(m.px[c], n.px[c])
             /\ Reported(m.px[c], n.px[c], segs) /\ SameButClient(m, n, c)
  <1> DEFINE p == m.px[c]
             need == p.needReport \/ segs # {}
             report == need /\ ~p.throttle
             q == [p EXCEPT !.needReport = need /\ ~report, !.throttle = p.throttle \/ report,
                            !.owed = p.owed \ segs]
             n == [m EXCEPT !.px[c] = q]
  <1>1. p \in ProxyState
    BY OkClient
  <1>2. p.needReport \in BOOLEAN /\ p.throttle \in BOOLEAN /\ p.owed \in SUBSET Blocks
    BY <1>1, ProxyFields
  <1>3. LET r == DropReporter(p, segs # {}) IN [r EXCEPT !.owed = r.owed \ segs] = q
    BY <1>1, Zenon DEF DropReporter, ProxyState
  <1>4. SendDropReport(m, c, segs) = n
    <2> HIDE DEF q
    <2> QED  BY <1>3 DEF SendDropReport
  <1>5. q \in ProxyState /\ SameClient(p, q) /\ SameBase(p, q) /\ q.holding = p.holding
    BY <1>1, <1>2, Zenon DEF ProxyState, SameClient, SameBase, SameSizes
  <1>6. Reported(p, q, segs)
    <2>1. /\ q.lost = p.lost /\ q.inOrder = p.inOrder /\ q.owed = p.owed \ segs
          /\ q.needReport = (need /\ ~report) /\ q.throttle = (p.throttle \/ report)
      BY <1>1 DEF ProxyState
    <2> QED  BY <2>1 DEF Reported
  <1> HIDE DEF q
  <1>7. Ok(n, e) /\ n.px[c] = q /\ SameButClient(m, n, c)
    BY <1>5, ProxyOk
  <1> HIDE DEF n
  <1>8. Others(m, n, c) /\ Kept(m, n)
    BY <1>5, <1>7, ClientOnly
  <1> QED  BY <1>4, <1>5, <1>6, <1>7, <1>8

-----------------------------------------------------------------------------
(***************************************************************************)
(* What holds between the operators, though not in the middle of one: no   *)
(* client reads a segment that it has queued, only connected clients have  *)
(* queues and reservations, and what follows of deliveries, drops and      *)
(* reservations.                                                           *)
(***************************************************************************)
Apart(p) == \A x \in p.holding : ~Contains(p.wantedQueue, x)

Bare(p) == p.wantedQueue = <<>> /\ p.slabs.numProdSlabs = 0 /\ p.slabs.numConsSlabs = 0

(***************************************************************************)
(* What is queued for a client and registered by it is owed to it, it is   *)
(* queued in the order of publishing, nothing was sent out of order, and a *)
(* report is held back only while another is not acknowledged.  Nothing    *)
(* else is owed and nothing was lost, if clients send no client-to-client  *)
(* messages: PopWantedQueue drops those of them that had to wait, for      *)
(* nobody registers for their ID.                                          *)
(***************************************************************************)
NoClientMessages ==
  \A setup \in Setups, c \in Clients : \A kind \in setup.options[c].publish : kind[1] \in MsgIDs

Ordered(q, older) == \A i, j \in 1..Len(q) : i < j => <<q[i], q[j]>> \in older
Due(p, info) == {x \in Blocks : Contains(p.wantedQueue, x) /\ info[x][1] \in p.regs}

Delivering(p, info, older) ==
  /\ Due(p, info) \subseteq p.owed /\ Ordered(p.wantedQueue, older)
  /\ p.inOrder /\ (p.needReport => p.throttle)

NothingLost(p, info) == p.owed \subseteq Due(p, info) /\ ~p.lost

(***************************************************************************)
(* In playback mode no drop is reported.  This takes producers whose       *)
(* level, to which playback mode adds one, does not make them greedy.      *)
(***************************************************************************)
PlaybackWaits ==
  \A setup \in Setups, c \in Clients :
    setup.playback = 1 => \A level \in setup.options[c].nice : ((level + 128) % 256) - 128 # -1

Dropless(m) == PlaybackWaits /\ m.setup.playback = 1
Undropped(p) == p.nice # -1 /\ ~p.needReport /\ ~p.throttle

Served(m, p) ==
  /\ Apart(p)
  /\ Delivering(p, m.info, m.older)
  /\ NoClientMessages => NothingLost(p, m.info)
  /\ Dropless(m) => Undropped(p)

(***************************************************************************)
(* What is reserved is what the clients reserved, and is there.  This      *)
(* takes clients that do not ask for so much that the sum wraps.           *)
(***************************************************************************)
AsksFit ==
  \A setup \in Setups, c \in Clients : \A n \in setup.options[c].numSlabs :
    n[1] + n[2] + TotalNumSlabs < UIntRange

Bounded(sm) == sm.reserved + SM!NumSlabsNonreservable(sm) <= SM!NumSlabs(sm)
Booked(m) == m.sm.reserved = Cardinality(Reservations(m)) /\ Bounded(m.sm)

Settled(m) ==
  /\ \A c \in Clients : Served(m, m.px[c]) /\ (~Up(m, c) => Bare(m.px[c]))
  /\ AsksFit => Booked(m)

SameBooks(m, n) ==
  /\ n.sm.reserved = m.sm.reserved /\ n.sm.numBuffers = m.sm.numBuffers
  /\ \A d \in Clients : SameSizes(m.px[d].slabs, n.px[d].slabs)

LEMMA BookedSame ==
  ASSUME NEW m, NEW n, Booked(m), SameBooks(m, n)
  PROVE  Booked(n)
  <1>1. Reservations(n) = Reservations(m)
    <2> DEFINE size(k, c) == k.px[c].slabs.numProdSlabs + k.px[c].slabs.numConsSlabs
    <2>1. \A c \in Clients : size(n, c) = size(m, c)
      BY DEF SameBooks, SameSizes
    <2> QED  BY <2>1 DEF Reservations
  <1>2. SM!NumSlabs(n.sm) = SM!NumSlabs(m.sm)
    BY DEF SM!NumSlabs, SameBooks
  <1> QED  BY <1>1, <1>2 DEF Booked, Bounded, SM!NumSlabsNonreservable, SameBooks

LEMMA BasedBooks ==
  ASSUME NEW m, NEW n, Based(m, n)
  PROVE  SameBooks(m, n)
  BY DEF Based, SameGlobal, SameBase, SameBooks

\* A client that stays as it is
LEMMA SameServed ==
  ASSUME NEW m, NEW n, NEW p, NEW q, Served(m, p), SameRest(p, q), q.regs = p.regs, q.nice = p.nice,
         n.info = m.info, n.older = m.older, n.setup = m.setup
  PROVE  Served(n, q)
  <1>1. Apart(q)
    BY DEF Served, Apart, SameRest
  <1>2. Delivering(q, n.info, n.older)
    BY DEF Served, Delivering, Due, SameRest
  <1>3. NoClientMessages => NothingLost(q, n.info)
    BY DEF Served, NothingLost, Due, SameRest
  <1>4. Dropless(n) => Undropped(q)
    BY DEF Served, Undropped, SameRest, Dropless
  <1> QED  BY <1>1, <1>2, <1>3, <1>4 DEF Served

\* A client that receives nothing, and that is not told of a drop out of turn
LEMMA ServedStill ==
  ASSUME NEW m, NEW p, NEW q, Served(m, p), q.holding \subseteq p.holding,
         q.wantedQueue = p.wantedQueue, q.regs = p.regs,
         q.owed = p.owed, q.lost = p.lost, q.inOrder = p.inOrder,
         q.needReport => q.throttle, Dropless(m) => Undropped(q)
  PROVE  Served(m, q)
  <1>1. Apart(q)
    BY DEF Served, Apart
  <1>2. Delivering(q, m.info, m.older)
    BY DEF Served, Delivering, Due
  <1>3. NoClientMessages => NothingLost(q, m.info)
    BY DEF Served, NothingLost, Due
  <1> QED  BY <1>1, <1>2, <1>3 DEF Served

\* A client that wants nothing
LEMMA NothingServed ==
  ASSUME NEW m, NEW p, p.wantedQueue = <<>>, p.holding = {}, p.owed = {}, ~p.lost, p.inOrder,
         ~p.needReport, ~p.throttle, p.nice = 0
  PROVE  Served(m, p)
  <1>1. Apart(p) /\ Due(p, m.info) = {} /\ Ordered(p.wantedQueue, m.older)
    BY DEF Apart, Due, Ordered, Contains
  <1> QED  BY <1>1 DEF Served, Delivering, NothingLost, Undropped

LEMMA FrameSettled ==
  ASSUME NEW m, NEW n, Settled(m), Frame(m, n)
  PROVE  Settled(n)
  <1>1. ASSUME NEW c \in Clients
        PROVE  Served(n, n.px[c]) /\ (~Up(n, c) => Bare(n.px[c]))
    <2>1. SameBase(m.px[c], n.px[c]) /\ SameRest(m.px[c], n.px[c]) /\ SameGlobal(m, n)
      BY DEF Frame
    <2>2. Served(n, n.px[c])
      BY <2>1, SameServed DEF Settled, SameBase, SameGlobal
    <2> QED  BY <2>1, <2>2 DEF Settled, Up, Bare, SameBase, SameRest, SameSizes
  <1>2. AsksFit => Booked(n)
    BY AllBased, BasedBooks, BookedSame DEF Settled
  <1> QED  BY <1>1, <1>2 DEF Settled

LEMMA OthersSettled ==
  ASSUME NEW m, NEW n, NEW c \in Clients, Settled(m), Others(m, n, c), Served(n, n.px[c]),
         Up(m, c) \/ n.px[c].wantedQueue = <<>>
  PROVE  Settled(n)
  <1>1. ASSUME NEW d \in Clients
        PROVE  Served(n, n.px[d]) /\ (~Up(n, d) => Bare(n.px[d]))
    <2>1. SameBase(m.px[d], n.px[d]) /\ SameGlobal(m, n)
      BY DEF Others
    <2>2. CASE d = c
      BY <2>1, <2>2 DEF Settled, Up, Bare, SameBase, SameSizes
    <2>3. CASE d # c
      <3>1. SameRest(m.px[d], n.px[d])
        BY <2>3 DEF Others
      <3>2. Served(n, n.px[d])
        BY <2>1, <3>1, SameServed DEF Settled, SameBase, SameGlobal
      <3> QED  BY <2>1, <3>1, <3>2 DEF Settled, Up, Bare, SameBase, SameRest, SameSizes
    <2> QED  BY <2>2, <2>3
  <1>2. AsksFit => Booked(n)
    <2>1. Based(m, n)
      BY AllBased
    <2> QED  BY <2>1, BasedBooks, BookedSame DEF Settled
  <1> QED  BY <1>1, <1>2 DEF Settled

\* Nothing but client c changes, and no reservation.
LEMMA ClientSettled ==
  ASSUME NEW m, NEW n, NEW c \in Clients, Settled(m), SameButClient(m, n, c), Served(m, n.px[c]),
         SameSizes(m.px[c].slabs, n.px[c].slabs), Up(n, c) \/ Bare(n.px[c])
  PROVE  Settled(n)
  <1>1. \A p : Served(m, p) => Served(n, p)
    BY DEF Served, SameButClient, Dropless
  <1>2. ASSUME NEW d \in Clients
        PROVE  Served(n, n.px[d]) /\ (~Up(n, d) => Bare(n.px[d]))
    BY <1>1 DEF SameButClient, Settled, Up
  <1>3. SameBooks(m, n)
    BY DEF SameBooks, SameButClient, SameSizes
  <1> QED  BY <1>2, <1>3, BookedSame DEF Settled

LEMMA OrderedParts ==
  ASSUME NEW q \in Seq(Blocks), NEW older, Ordered(q, older)
  PROVE  /\ q # <<>> /\ IsInjective(q) =>
              /\ Ordered(Tail(q), older)
              /\ \A y : Contains(Tail(q), y) => <<Head(q), y>> \in older
         /\ IsInjective(q) => \A x : Ordered(RemoveFirst(q, x), older)
         /\ \A x \in Blocks : (\A y : Contains(q, y) => <<y, x>> \in older) => Ordered(Append(q, x), older)
  <1>1. ASSUME q # <<>>
        PROVE  /\ Ordered(Tail(q), older)
               /\ \A y : Contains(Tail(q), y) => <<Head(q), y>> \in older
    <2>1. /\ Len(Tail(q)) = Len(q) - 1 /\ Head(q) = q[1] /\ Len(q) \in Nat
          /\ \A i \in 1..(Len(q) - 1) : Tail(q)[i] = q[i + 1]
      BY <1>1
    <2>2. Ordered(Tail(q), older)
      <3> SUFFICES ASSUME NEW i \in 1..(Len(q) - 1), NEW j \in 1..(Len(q) - 1), i < j
                   PROVE  <<q[i + 1], q[j + 1]>> \in older
        BY <2>1 DEF Ordered
      <3>1. i + 1 \in 1..Len(q) /\ j + 1 \in 1..Len(q) /\ i + 1 < j + 1
        BY <2>1
      <3> QED  BY <3>1 DEF Ordered
    <2>3. ASSUME NEW y, Contains(Tail(q), y)
          PROVE  <<Head(q), y>> \in older
      <3>1. PICK i \in 1..(Len(q) - 1) : q[i + 1] = y
        BY <2>1, <2>3 DEF Contains
      <3>2. 1 \in 1..Len(q) /\ i + 1 \in 1..Len(q) /\ 1 < i + 1
        BY <2>1
      <3> QED  BY <2>1, <3>1, <3>2 DEF Ordered
    <2> QED  BY <2>2, <2>3
  <1>2. ASSUME IsInjective(q), NEW x
        PROVE  Ordered(RemoveFirst(q, x), older)
    <2> DEFINE r == RemoveFirst(q, x)
    <2> SUFFICES ASSUME NEW i \in 1..Len(r), NEW j \in 1..Len(r), i < j
                 PROVE  <<r[i], r[j]>> \in older
      BY DEF Ordered
    <2>1. PICK a \in 1..Len(q), b \in 1..Len(q) : a < b /\ r[i] = q[a] /\ r[j] = q[b]
      BY <1>2, RemoveOrder
    <2> QED  BY <2>1 DEF Ordered
  <1>3. ASSUME NEW x \in Blocks, \A y : Contains(q, y) => <<y, x>> \in older
        PROVE  Ordered(Append(q, x), older)
    <2>1. /\ Len(Append(q, x)) = Len(q) + 1 /\ Append(q, x)[Len(q) + 1] = x /\ Len(q) \in Nat
          /\ \A i \in 1..Len(q) : Append(q, x)[i] = q[i]
      OBVIOUS
    <2>2. \A i \in 1..Len(q) : Contains(q, q[i])
      BY DEF Contains
    <2> QED  BY <1>3, <2>1, <2>2 DEF Ordered
  <1> QED  BY <1>1, <1>2, <1>3

\* Segment x leaves the queue of client c.
LEMMA LeavesQueue ==
  ASSUME NEW m, NEW n, NEW c \in Clients, NEW x, Settled(m), Others(m, n, c), Up(m, c),
         Apart(n.px[c]), Ordered(n.px[c].wantedQueue, m.older),
         \A y : Contains(n.px[c].wantedQueue, y) <=> Contains(m.px[c].wantedQueue, y) /\ y # x,
         n.px[c].inOrder, n.px[c].lost = m.px[c].lost,
         n.px[c].needReport => n.px[c].throttle,
         Dropless(m) => ~n.px[c].needReport /\ ~n.px[c].throttle,
         \/ n.px[c].owed = m.px[c].owed \ {x}
         \/ n.px[c].owed = m.px[c].owed /\ m.info[x][1] \notin m.px[c].regs
  PROVE  Settled(n)
  <1> DEFINE p == m.px[c]
             q == n.px[c]
  <1>1. /\ n.info = m.info /\ n.older = m.older /\ n.setup = m.setup
        /\ q.regs = p.regs /\ q.nice = p.nice
    BY DEF Others, SameGlobal, SameBase
  <1>2. Delivering(p, m.info, m.older) /\ (NoClientMessages => NothingLost(p, m.info))
        /\ (Dropless(m) => Undropped(p))
    BY DEF Settled, Served
  <1>3. Due(q, n.info) = Due(p, m.info) \ {x}
    BY <1>1 DEF Due
  <1>4. m.info[x][1] \notin p.regs => x \notin Due(p, m.info)
    BY DEF Due
  <1>5. Due(q, n.info) \subseteq q.owed
    BY <1>2, <1>3, <1>4 DEF Delivering
  <1>6. NoClientMessages => NothingLost(q, n.info)
    BY <1>2, <1>3, <1>4 DEF NothingLost
  <1>7. Dropless(n) => Undropped(q)
    BY <1>1, <1>2 DEF Dropless, Undropped
  <1>8. Delivering(q, n.info, n.older)
    BY <1>1, <1>5 DEF Delivering
  <1>9. Served(n, q)
    BY <1>6, <1>7, <1>8 DEF Served
  <1> QED  BY <1>9, OthersSettled

LEMMA PopFrontSettled ==
  ASSUME NEW m, NEW e, Ok(m, e), Settled(m), NEW c \in Clients, Up(m, c), m.px[c].wantedQueue # <<>>,
         m.info[FrontWanted(m, c)][1] \notin m.px[c].regs
  PROVE  LET n == PopFront(m, c)
         IN  Ok(n, e) /\ Settled(n) /\ Others(m, n, c)
  <1> DEFINE n == PopFront(m, c)
             q == m.px[c].wantedQueue
             x == FrontWanted(m, c)
  <1>1. Ok(n, e) /\ Unqueued(m, n, c) /\ n.px[c].wantedQueue = Tail(q)
    BY PopFrontOk
  <1> HIDE DEF n
  <1>2. q \in Seq(Blocks) /\ IsInjective(q) /\ m.px[c].holding \in SUBSET Blocks
    BY OkClient
  <1>3. \A y : Contains(Tail(q), y) <=> Contains(q, y) /\ y # x
    BY <1>2, TailList DEF FrontWanted
  <1>4. Served(m, m.px[c])
    BY DEF Settled
  <1>5. Ordered(Tail(q), m.older)
    BY <1>2, <1>4, OrderedParts DEF Served, Delivering
  <1>6. Others(m, n, c) /\ SameButQueue(m.px[c], n.px[c])
    BY <1>1 DEF Unqueued
  <1>7. Apart(n.px[c])
    BY <1>1, <1>3, <1>4, <1>6 DEF SameButQueue, Served, Apart
  <1> HIDE DEF x
  <1>8. /\ n.px[c].inOrder /\ n.px[c].lost = m.px[c].lost /\ n.px[c].owed = m.px[c].owed
        /\ n.px[c].needReport => n.px[c].throttle
        /\ Dropless(m) => ~n.px[c].needReport /\ ~n.px[c].throttle
    BY <1>4, <1>6 DEF SameButQueue, Served, Delivering, Undropped
  <1>9. m.info[x][1] \notin m.px[c].regs
    BY DEF x
  <1>10. Settled(n)
    BY <1>1, <1>3, <1>5, <1>6, <1>7, <1>8, <1>9, LeavesQueue
  <1> QED  BY <1>1, <1>6, <1>10 DEF n

LEMMA SendFrontOk ==
  ASSUME NEW m, NEW e, Ok(m, e), Settled(m), NEW c \in Clients, Up(m, c), m.px[c].wantedQueue # <<>>,
         m.info[FrontWanted(m, c)][1] \in m.px[c].regs,
         T!CanTakeConsSlab(m.px[c].slabs, SlabOf(FrontWanted(m, c)))
  PROVE  LET n == SendFront(m, c)
         IN  Ok(n, e) /\ Settled(n) /\ Others(m, n, c)
  <1> DEFINE x == FrontWanted(m, c)
             q == m.px[c].wantedQueue
             k == SendBlockID(m, c, x)
             n == PopFront(k, c)
  <1>1. q \in Seq(Blocks) /\ IsInjective(q) /\ m.px[c].holding \in SUBSET Blocks
    BY OkClient
  <1>2. /\ x \in Blocks /\ Contains(q, x)
        /\ \A y : Contains(Tail(q), y) <=> Contains(q, y) /\ y # x
    BY <1>1, TailList DEF FrontWanted
  <1>3. Served(m, m.px[c])
    BY DEF Settled
  <1>4. x \notin m.px[c].holding
    BY <1>2, <1>3 DEF Served, Apart
  <1>5. Usable(m, x)
    BY <1>2, QueuedUsable
  <1>6. Ordered(Tail(q), m.older) /\ \A y : Contains(Tail(q), y) => <<x, y>> \in m.older
    BY <1>1, <1>3, OrderedParts DEF Served, Delivering, FrontWanted
  <1>7. x \in m.px[c].owed
    BY <1>2, <1>3 DEF Served, Delivering, Due
  <1> HIDE DEF x
  <1>8. Ok(k, e) /\ Sent(m, k, c, x)
    BY <1>2, <1>4, <1>5, SendBlockIDOk DEF x
  <1> HIDE DEF k
  <1>9. k.px[c].wantedQueue = q /\ k.px[c].holding = m.px[c].holding \cup {x} /\ Others(m, k, c)
    BY <1>8 DEF Sent
  <1>10. k.px[c].inOrder
    <2>1. \A y \in (m.px[c].owed \cap Queued(m, c)) \ {x} : <<x, y>> \in m.older
      BY <1>1, <1>2, <1>6, RangeIs DEF Queued
    <2> QED  BY <1>3, <1>7, <1>8, <2>1 DEF Sent, Served, Delivering
  <1>11. Ok(n, e) /\ Unqueued(k, n, c) /\ n.px[c].wantedQueue = Tail(q)
    BY <1>8, <1>9, PopFrontOk
  <1> HIDE DEF n
  <1>12. Others(m, n, c) /\ n.px[c].holding = m.px[c].holding \cup {x}
    BY <1>9, <1>11, OthersThrough DEF Unqueued, SameButQueue
  <1>13. Apart(n.px[c])
    BY <1>2, <1>3, <1>11, <1>12 DEF Served, Apart
  <1>14. /\ n.px[c].inOrder /\ n.px[c].lost = m.px[c].lost /\ n.px[c].owed = m.px[c].owed \ {x}
         /\ n.px[c].needReport = m.px[c].needReport /\ n.px[c].throttle = m.px[c].throttle
    BY <1>8, <1>10, <1>11 DEF Sent, Unqueued, SameButQueue
  <1>15. /\ n.px[c].needReport => n.px[c].throttle
         /\ Dropless(m) => ~n.px[c].needReport /\ ~n.px[c].throttle
    BY <1>3, <1>14 DEF Served, Delivering, Undropped
  <1>16. Settled(n)
    BY <1>2, <1>6, <1>11, <1>12, <1>13, <1>14, <1>15, LeavesQueue
  <1> QED  BY <1>11, <1>12, <1>16 DEF SendFront, n, k, x

LEMMA DropFrontOk ==
  ASSUME NEW m, NEW e, Ok(m, e), Settled(m), NEW c \in Clients, Up(m, c), m.px[c].wantedQueue # <<>>,
         ~Dropless(m)
  PROVE  LET n == DropFront(m, c)
         IN  Ok(n, e) /\ Settled(n) /\ Others(m, n, c)
  <1> DEFINE x == FrontWanted(m, c)
             q == m.px[c].wantedQueue
             k == SendDropReport(m, c, {x})
             n == PopFront(k, c)
  <1>1. DropFront(m, c) = n
    BY DEF DropFront
  <1>2. q \in Seq(Blocks) /\ IsInjective(q)
    BY OkClient
  <1>3. \A y : Contains(Tail(q), y) <=> Contains(q, y) /\ y # x
    BY <1>2, TailList DEF FrontWanted
  <1>4. Served(m, m.px[c])
    BY DEF Settled
  <1>5. Ordered(Tail(q), m.older)
    BY <1>2, <1>4, OrderedParts DEF Served, Delivering
  <1> HIDE DEF x
  <1>6. /\ Ok(k, e) /\ Others(m, k, c) /\ SameClient(m.px[c], k.px[c])
        /\ Reported(m.px[c], k.px[c], {x})
    BY DropReportOk
  <1> HIDE DEF k
  <1>7. k.px[c].wantedQueue = q
    BY <1>6 DEF SameClient
  <1>8. Ok(n, e) /\ Unqueued(k, n, c) /\ n.px[c].wantedQueue = Tail(q)
    BY <1>6, <1>7, PopFrontOk
  <1> HIDE DEF n
  <1>9. Others(m, n, c)
    BY <1>6, <1>8, OthersThrough DEF Unqueued
  <1>10. /\ n.px[c].holding = m.px[c].holding
         /\ n.px[c].inOrder = m.px[c].inOrder /\ n.px[c].lost = m.px[c].lost
         /\ n.px[c].owed = m.px[c].owed \ {x} /\ (n.px[c].needReport => n.px[c].throttle)
    BY <1>6, <1>8 DEF SameClient, Reported, Unqueued, SameButQueue
  <1>13. n.px[c].inOrder
    BY <1>4, <1>10 DEF Served, Delivering
  <1>11. Apart(n.px[c])
    BY <1>3, <1>4, <1>8, <1>10 DEF Served, Apart
  <1>12. Settled(n)
    BY <1>3, <1>5, <1>8, <1>9, <1>10, <1>11, <1>13, LeavesQueue
  <1> QED  BY <1>1, <1>8, <1>9, <1>12 DEF n, k

LEMMA PopWantedOk ==
  ASSUME NEW m, NEW e, Ok(m, e), Settled(m), NEW c \in Clients, Up(m, c)
  PROVE  LET n == PopWanted(m, c)
         IN  Ok(n, e) /\ Settled(n) /\ Others(m, n, c)
  <1> DEFINE x == FrontWanted(m, c)
             wanted == m.info[x][1] \in m.px[c].regs
             taken  == T!CanTakeConsSlab(m.px[c].slabs, SlabOf(x))
  <1>1. CASE m.px[c].wantedQueue = <<>>
    BY <1>1, FrameSame DEF PopWanted
  <1>2. CASE m.px[c].wantedQueue # <<>> /\ ~wanted
    BY <1>2, PopFrontSettled DEF PopWanted
  <1>3. CASE m.px[c].wantedQueue # <<>> /\ wanted /\ taken
    BY <1>3, SendFrontOk DEF PopWanted
  <1>4. CASE m.px[c].wantedQueue # <<>> /\ wanted /\ ~taken /\ Overfull(m, c)
    <2>1. ~Dropless(m)
      BY <1>4 DEF Overfull, Dropless
    <2> QED  BY <1>4, <2>1, DropFrontOk DEF PopWanted
  <1>5. CASE m.px[c].wantedQueue # <<>> /\ wanted /\ ~taken /\ ~Overfull(m, c)
    BY <1>5, FrameSame DEF PopWanted
  <1> QED  BY <1>1, <1>2, <1>3, <1>4, <1>5

\* PopWantedQueue, a loop
PopRound(a, x, i) == PopWanted(x, a[2])
PopInv(a, x, k) == Ok(x, a[3]) /\ Settled(x) /\ Others(a[1], x, a[2])
PopLoop == INSTANCE LoopFacts WITH Step <- PopRound, Inv <- PopInv

LEMMA PopWantedQueueOk ==
  ASSUME NEW m, NEW e, Ok(m, e), Settled(m), NEW c \in Clients, Up(m, c)
  PROVE  LET n == PopWantedQueue(m, c)
         IN  Ok(n, e) /\ Settled(n) /\ Others(m, n, c)
  <1> DEFINE k == Len(m.px[c].wantedQueue)
             a == <<m, c, e>>
             n == PopLoop!After(a, m, k)
  <1>1. k \in Nat
    BY OkClient
  <1>2. PopWantedQueue(m, c) = n
    <2> HIDE DEF k
    <2> QED  BY DEF PopWantedQueue, PopLoop!After, Iterate, PopLoop!Iterate, PopRound, k
  <1>3. PopInv(a, m, 0)
    BY FrameSame DEF PopInv
  <1>4. ASSUME NEW i \in 1..k, NEW x, PopInv(a, x, i - 1)
        PROVE  PopInv(a, PopRound(a, x, i), i)
    <2> DEFINE y == PopWanted(x, c)
    <2>1. Ok(x, e) /\ Settled(x) /\ Others(m, x, c)
      BY <1>4 DEF PopInv
    <2>2. Up(x, c)
      BY <2>1 DEF Others, SameBase, Up
    <2>3. Ok(y, e) /\ Settled(y) /\ Others(x, y, c)
      BY <2>1, <2>2, PopWantedOk
    <2> HIDE DEF y
    <2>4. Others(m, y, c)
      BY <2>1, <2>3, OthersThrough
    <2> QED  BY <2>3, <2>4 DEF PopInv, PopRound, y
  <1> HIDE DEF k, a, n
  <1>5. PopInv(a, n, k)
    BY <1>1, <1>3, <1>4, CountUp, PopLoop!LoopInvariant DEF n, PopLoop!CountsUp
  <1> QED  BY <1>2, <1>5 DEF PopInv, a

-----------------------------------------------------------------------------
(***************************************************************************)
(* A published segment: its producer has the slab and has filled it.       *)
(***************************************************************************)
Published(m, src, x) == SlabOf(x) \in m.px[src].slabs.prod /\ x[2] <= m.fill[SlabOf(x)]

LEMMA PublishedUsable ==
  ASSUME NEW m, NEW e, Ok(m, e), NEW src \in Clients, NEW x \in Blocks, Published(m, src, x)
  PROVE  Usable(m, x)
  <1>1. SlabOf(x) \in Slabs
    BY SlabOfBlock
  <1>2. m.sm.heldRefcnt[SlabOf(x)] > 0
    BY <1>1, Referred DEF Published
  <1> QED  BY <1>2 DEF Usable, Published

LEMMA StaysPublished ==
  ASSUME NEW m, NEW n, NEW src \in Clients, NEW x \in Blocks, Published(m, src, x), Based(m, n)
  PROVE  Published(n, src, x)
  <1>1. SlabOf(x) \in Slabs
    BY SlabOfBlock
  <1>2. n.fill[SlabOf(x)] = m.fill[SlabOf(x)]
    BY <1>1 DEF Published, Based, SameGlobal
  <1>3. m.px[src].slabs.prod \subseteq n.px[src].slabs.prod
    BY DEF Based, SameBase
  <1> QED  BY <1>2, <1>3 DEF Published

LEMMA OwedOk ==
  ASSUME NEW m, NEW e, Ok(m, e), NEW c \in Clients, NEW x \in Blocks
  PROVE  LET n == [m EXCEPT !.px[c].owed = @ \cup {x}]
         IN  /\ Ok(n, e) /\ SameClient(m.px[c], n.px[c]) /\ SameButClient(m, n, c) /\ Others(m, n, c)
             /\ n.px[c].owed = m.px[c].owed \cup {x}
             /\ n.px[c].inOrder = m.px[c].inOrder /\ n.px[c].lost = m.px[c].lost
             /\ n.px[c].needReport = m.px[c].needReport /\ n.px[c].throttle = m.px[c].throttle
  <1> DEFINE p == m.px[c]
             q == [p EXCEPT !.owed = p.owed \cup {x}]
             n == [m EXCEPT !.px[c] = q]
  <1>1. p \in ProxyState /\ p.owed \in SUBSET Blocks
    BY OkClient, ProxyFields
  <1>2. [m EXCEPT !.px[c].owed = @ \cup {x}] = n
    OBVIOUS
  <1>3. /\ q \in ProxyState /\ SameClient(p, q) /\ SameBase(p, q) /\ q.owed = p.owed \cup {x}
        /\ q.inOrder = p.inOrder /\ q.lost = p.lost
        /\ q.needReport = p.needReport /\ q.throttle = p.throttle
    BY <1>1 DEF ProxyState, SameClient, SameBase, SameSizes
  <1> HIDE DEF q
  <1>4. Ok(n, e) /\ n.px[c] = q /\ SameButClient(m, n, c)
    BY <1>3, ProxyOk
  <1> HIDE DEF n
  <1>5. Others(m, n, c)
    BY <1>3, <1>4, ClientOnly
  <1> QED  BY <1>2, <1>3, <1>4, <1>5

\* What is queued for client c or sent to it at once, when nothing is queued.
LEMMA NewlyServed ==
  ASSUME NEW m, NEW n, NEW c \in Clients, NEW x \in Blocks, Settled(m), Others(m, n, c),
         Up(m, c), Apart(n.px[c]), n.px[c].inOrder, n.px[c].lost = m.px[c].lost,
         n.px[c].needReport = m.px[c].needReport, n.px[c].throttle = m.px[c].throttle,
         \/ /\ m.px[c].wantedQueue = <<>> /\ n.px[c].wantedQueue = <<>>
            /\ n.px[c].owed \subseteq m.px[c].owed
         \/ /\ \A y : Contains(n.px[c].wantedQueue, y) <=> Contains(m.px[c].wantedQueue, y) \/ y = x
            /\ n.px[c].owed = m.px[c].owed \cup {x} /\ Ordered(n.px[c].wantedQueue, m.older)
            /\ NoClientMessages => m.info[x][1] \in m.px[c].regs
  PROVE  Settled(n)
  <1> DEFINE p == m.px[c]
             q == n.px[c]
  <1>1. /\ n.info = m.info /\ n.older = m.older /\ n.setup = m.setup
        /\ q.regs = p.regs /\ q.nice = p.nice
    BY DEF Others, SameGlobal, SameBase
  <1>2. Delivering(p, m.info, m.older) /\ (NoClientMessages => NothingLost(p, m.info))
        /\ (Dropless(m) => Undropped(p))
    BY DEF Settled, Served
  <1>3. /\ Due(q, n.info) \subseteq q.owed /\ Ordered(q.wantedQueue, n.older)
        /\ NoClientMessages => q.owed \subseteq Due(q, n.info)
    <2>1. CASE p.wantedQueue = <<>> /\ q.wantedQueue = <<>> /\ q.owed \subseteq p.owed
      <3>1. Due(p, m.info) = {} /\ Due(q, n.info) = {} /\ Ordered(<<>>, n.older)
        BY <2>1 DEF Due, Contains, Ordered
      <3> QED  BY <1>2, <2>1, <3>1 DEF NothingLost
    <2>2. CASE /\ \A y : Contains(q.wantedQueue, y) <=> Contains(p.wantedQueue, y) \/ y = x
               /\ q.owed = p.owed \cup {x} /\ Ordered(q.wantedQueue, m.older)
               /\ NoClientMessages => m.info[x][1] \in p.regs
      <3>1. Due(p, m.info) \subseteq Due(q, n.info) /\ Due(q, n.info) \subseteq Due(p, m.info) \cup {x}
        BY <1>1, <2>2 DEF Due
      <3>2. NoClientMessages => x \in Due(q, n.info)
        BY <1>1, <2>2 DEF Due
      <3> QED  BY <1>1, <1>2, <2>2, <3>1, <3>2 DEF Delivering, NothingLost
    <2> QED  BY <2>1, <2>2
  <1>4. Delivering(q, n.info, n.older)
    BY <1>2, <1>3 DEF Delivering
  <1>5. NoClientMessages => NothingLost(q, n.info)
    BY <1>2, <1>3 DEF NothingLost
  <1>6. Dropless(n) => Undropped(q)
    BY <1>1, <1>2 DEF Dropless, Undropped
  <1>7. Served(n, q)
    BY <1>4, <1>5, <1>6 DEF Served
  <1> QED  BY <1>7, OthersSettled

LEMMA SendOrQueueOk ==
  ASSUME NEW m, NEW e, Ok(m, e), Settled(m), NEW c \in Clients, Up(m, c), NEW x \in Blocks,
         ~Refers(m.px[c], x), Usable(m, x),
         \A y \in Blocks : Refers(m.px[c], y) => <<y, x>> \in m.older,
         NoClientMessages => m.info[x][1] # CCIMessageID
  PROVE  LET n == SendOrQueue(m, c, x)
         IN  /\ Ok(n, e) /\ Settled(n) /\ Others(m, n, c)
             /\ \A y \in Blocks : Refers(n.px[c], y) => Refers(m.px[c], y) \/ y = x
  <1> DEFINE k == [m EXCEPT !.px[c].owed = @ \cup {x}]
  <1>1. /\ Ok(k, e) /\ SameClient(m.px[c], k.px[c]) /\ SameButClient(m, k, c) /\ Others(m, k, c)
        /\ k.px[c].owed = m.px[c].owed \cup {x}
        /\ k.px[c].inOrder = m.px[c].inOrder /\ k.px[c].lost = m.px[c].lost
        /\ k.px[c].needReport = m.px[c].needReport /\ k.px[c].throttle = m.px[c].throttle
    BY OwedOk
  <1> HIDE DEF k
  <1>2. /\ Up(k, c) /\ x \notin k.px[c].holding /\ ~Contains(k.px[c].wantedQueue, x)
        /\ k.px[c].slabs = m.px[c].slabs /\ k.px[c].holding = m.px[c].holding
        /\ k.px[c].wantedQueue = m.px[c].wantedQueue
    BY <1>1 DEF SameClient, Up, Refers
  <1>3. Usable(k, x)
    <2>1. k.sm = m.sm /\ k.fill = m.fill /\ \A d \in Clients : k.px[d].slabs = m.px[d].slabs
      BY <1>1 DEF SameButClient, SameClient
    <2> QED  BY <2>1 DEF Usable
  <1>0. Apart(m.px[c]) /\ Delivering(m.px[c], m.info, m.older)
    BY DEF Settled, Served
  <1>4. CASE ~WantsSegment(m, c, x)
    BY <1>4, FrameSame DEF SendOrQueue
  <1>5. CASE WantsSegment(m, c, x) /\ Sendable(m, c, x)
    <2> DEFINE n == SendBlockID(k, c, x)
    <2>1. T!CanTakeConsSlab(k.px[c].slabs, SlabOf(x)) /\ m.px[c].wantedQueue = <<>>
      BY <1>2, <1>5 DEF Sendable
    <2>2. Ok(n, e) /\ Sent(k, n, c, x)
      BY <1>1, <1>2, <1>3, <2>1, SendBlockIDOk
    <2>3. SendOrQueue(m, c, x) = n
      BY <1>5 DEF SendOrQueue, k
    <2> HIDE DEF n
    <2>4. /\ Others(m, n, c) /\ n.px[c].wantedQueue = m.px[c].wantedQueue
          /\ n.px[c].holding = m.px[c].holding \cup {x}
      BY <1>1, <1>2, <2>2, OthersThrough DEF Sent
    <2>5. Apart(n.px[c])
      BY <1>0, <2>4 DEF Apart, Refers
    <2>6. /\ n.px[c].lost = m.px[c].lost /\ n.px[c].owed \subseteq m.px[c].owed
          /\ n.px[c].needReport = m.px[c].needReport /\ n.px[c].throttle = m.px[c].throttle
      BY <1>1, <2>2 DEF Sent
    <2>7. n.px[c].inOrder
      <3>1. Queued(k, c) = {}
        BY <1>2, <2>1 DEF Queued, Range
      <3> QED  BY <1>0, <1>1, <2>2, <3>1 DEF Sent, Delivering
    <2>8. Settled(n)
      BY <2>1, <2>4, <2>5, <2>6, <2>7, NewlyServed
    <2>9. \A y \in Blocks : Refers(n.px[c], y) => Refers(m.px[c], y) \/ y = x
      BY <2>4 DEF Refers
    <2> QED  BY <2>2, <2>3, <2>4, <2>8, <2>9
  <1>6. CASE WantsSegment(m, c, x) /\ ~Sendable(m, c, x)
    <2> DEFINE n == QueueSegment(k, c, x)
    <2>1. /\ Ok(n, e) /\ Others(k, n, c) /\ SameButQueue(k.px[c], n.px[c])
          /\ n.px[c].wantedQueue = Append(k.px[c].wantedQueue, x)
      BY ONLY <1>1, <1>2, <1>3, c \in Clients, x \in Blocks, QueueSegmentOk, Zenon
    <2>2. SendOrQueue(m, c, x) = n
      BY <1>6 DEF SendOrQueue, k
    <2> HIDE DEF n
    <2>3. /\ Others(m, n, c) /\ n.px[c].holding = m.px[c].holding
          /\ n.px[c].wantedQueue = Append(m.px[c].wantedQueue, x)
      BY <1>1, <1>2, <2>1, OthersThrough DEF SameButQueue
    <2>4. m.px[c].wantedQueue \in Seq(Blocks)
      BY OkClient
    <2>5. \A y : Contains(n.px[c].wantedQueue, y) <=> Contains(m.px[c].wantedQueue, y) \/ y = x
      BY <2>3, <2>4, AppendList
    <2>6. Apart(n.px[c])
      BY <1>0, <2>3, <2>5 DEF Apart, Refers
    <2>7. Ordered(n.px[c].wantedQueue, m.older)
      <3>1. \A y : Contains(m.px[c].wantedQueue, y) => <<y, x>> \in m.older
        BY <2>4, RangeIs DEF Refers
      <3> QED  BY <1>0, <2>3, <2>4, <3>1, OrderedParts DEF Delivering
    <2>8. NoClientMessages => m.info[x][1] \in m.px[c].regs
      BY <1>6 DEF WantsSegment
    <2>9. /\ n.px[c].lost = m.px[c].lost /\ n.px[c].owed = m.px[c].owed \cup {x}
          /\ n.px[c].needReport = m.px[c].needReport /\ n.px[c].throttle = m.px[c].throttle
          /\ n.px[c].inOrder
      BY <1>0, <1>1, <2>1 DEF SameButQueue, Delivering
    <2>10. Settled(n)
      BY <2>3, <2>5, <2>6, <2>7, <2>8, <2>9, NewlyServed
    <2>11. \A y \in Blocks : Refers(n.px[c], y) => Refers(m.px[c], y) \/ y = x
      BY <2>3, <2>5 DEF Refers
    <2> QED  BY <2>1, <2>2, <2>3, <2>10, <2>11
  <1> QED  BY <1>4, <1>5, <1>6

\* The segments of a message are new to the client, and newer than what it reads or has queued.
NotYet(older, p, xs, k) ==
  \A j \in 1..Len(xs) :
    j > k => ~Refers(p, xs[j]) /\ \A y \in Blocks : Refers(p, y) => <<y, xs[j]>> \in older

\* They are one after the other, and of a registered message ID.
Serial(m, xs) ==
  /\ \A i, j \in 1..Len(xs) : i < j => <<xs[i], xs[j]>> \in m.older
  /\ NoClientMessages => \A i \in 1..Len(xs) : m.info[xs[i]][1] # CCIMessageID

LEMMA StaysSerial ==
  ASSUME NEW m, NEW n, NEW xs, Serial(m, xs), Based(m, n)
  PROVE  Serial(n, xs) /\ n.older = m.older
  BY DEF Serial, Based, SameGlobal

SendRound(a, x, i) == SendOrQueue(x, a[2], a[3][i])
SendInv(a, x, k) ==
  /\ Ok(x, a[4]) /\ Settled(x) /\ Others(a[1], x, a[2])
  /\ NotYet(x.older, x.px[a[2]], a[3], k)
SendLoop == INSTANCE LoopFacts WITH Step <- SendRound, Inv <- SendInv

LEMMA SendSegmentsOk ==
  ASSUME NEW m, NEW e, Ok(m, e), Settled(m), NEW c \in Clients, Up(m, c),
         NEW xs \in Seq(Blocks), IsInjective(xs), NotYet(m.older, m.px[c], xs, 0), Serial(m, xs),
         NEW src \in Clients, \A i \in 1..Len(xs) : Published(m, src, xs[i])
  PROVE  LET n == SendSegments(m, c, xs)
         IN  Ok(n, e) /\ Settled(n) /\ Others(m, n, c)
  <1> DEFINE k == Len(xs)
             a == <<m, c, xs, e>>
             l == SendLoop!After(a, m, k)
             n == PopWantedQueue(l, c)
  <1>1. k \in Nat
    OBVIOUS
  <1>2. SendSegments(m, c, xs) = n
    <2> HIDE DEF k
    <2> QED  BY DEF SendSegments, SendLoop!After, Iterate, SendLoop!Iterate, SendRound, k
  <1>3. SendInv(a, m, 0)
    BY FrameSame DEF SendInv
  <1>4. ASSUME NEW i \in 1..k, NEW x, SendInv(a, x, i - 1)
        PROVE  SendInv(a, SendRound(a, x, i), i)
    <2> DEFINE y == SendOrQueue(x, c, xs[i])
    <2>1. Ok(x, e) /\ Settled(x) /\ Others(m, x, c) /\ NotYet(x.older, x.px[c], xs, i - 1)
      BY <1>4 DEF SendInv
    <2>2. Up(x, c)
      BY <2>1 DEF Others, SameBase, Up
    <2>3. xs[i] \in Blocks /\ i \in 1..Len(xs) /\ i > i - 1
      OBVIOUS
    <2>4. Published(x, src, xs[i]) /\ Serial(x, xs)
      BY <2>1, <2>3, StaysPublished, StaysSerial, AllBased
    <2>5. Usable(x, xs[i])
      BY <2>1, <2>3, <2>4, PublishedUsable
    <2>6. /\ ~Refers(x.px[c], xs[i])
          /\ \A z \in Blocks : Refers(x.px[c], z) => <<z, xs[i]>> \in x.older
          /\ NoClientMessages => x.info[xs[i]][1] # CCIMessageID
      BY <2>1, <2>3, <2>4 DEF NotYet, Serial
    <2>7. /\ Ok(y, e) /\ Settled(y) /\ Others(x, y, c)
          /\ \A z \in Blocks : Refers(y.px[c], z) => Refers(x.px[c], z) \/ z = xs[i]
      BY <2>1, <2>2, <2>3, <2>5, <2>6, SendOrQueueOk
    <2> HIDE DEF y
    <2>8. Others(m, y, c) /\ y.older = x.older
      BY <2>1, <2>4, <2>7, OthersThrough, StaysSerial, AllBased
    <2>9. NotYet(y.older, y.px[c], xs, i)
      <3> SUFFICES ASSUME NEW j \in 1..Len(xs), j > i
                   PROVE  /\ ~Refers(y.px[c], xs[j])
                          /\ \A z \in Blocks : Refers(y.px[c], z) => <<z, xs[j]>> \in x.older
        BY <2>8 DEF NotYet
      <3>1. xs[j] # xs[i] /\ xs[j] \in Blocks /\ j > i - 1
        BY DEF IsInjective
      <3>2. /\ ~Refers(x.px[c], xs[j])
            /\ \A z \in Blocks : Refers(x.px[c], z) => <<z, xs[j]>> \in x.older
        BY <2>1, <3>1 DEF NotYet
      <3>3. <<xs[i], xs[j]>> \in x.older
        BY <2>3, <2>4 DEF Serial
      <3> QED  BY <2>7, <3>1, <3>2, <3>3
    <2> QED  BY <2>7, <2>8, <2>9 DEF SendInv, SendRound, y
  <1> HIDE DEF k, a, l
  <1>5. SendInv(a, l, k)
    BY <1>1, <1>3, <1>4, CountUp, SendLoop!LoopInvariant DEF l, SendLoop!CountsUp
  <1>6. Ok(l, e) /\ Settled(l) /\ Others(m, l, c)
    BY <1>5 DEF SendInv, a
  <1>7. Up(l, c)
    BY <1>6 DEF Others, SameBase, Up
  <1>8. Ok(n, e) /\ Settled(n) /\ Others(l, n, c)
    BY <1>6, <1>7, PopWantedQueueOk
  <1> HIDE DEF n
  <1>9. Others(m, n, c)
    BY <1>6, <1>8, OthersThrough
  <1> QED  BY <1>2, <1>8, <1>9

\* TakeBlocksAndInfo, a loop over the client IDs
TakeRound(a, x, i) ==
  LET gid == a[1].px[a[2]].group
  IN  IF /\ i \in Clients
         /\ Up(x, i) /\ ~x.px[i].sendFailed
         /\ gid = 0 \/ gid # x.px[i].group
      THEN SendSegments(x, i, a[3]) ELSE x
TakeInv(a, x, k) ==
  /\ Ok(x, a[4]) /\ Settled(x) /\ Based(a[1], x)
  /\ \A d \in Clients : d > k => NotYet(x.older, x.px[d], a[3], 0)
TakeLoop == INSTANCE LoopFacts WITH Step <- TakeRound, Inv <- TakeInv

LEMMA TakeBlocksOk ==
  ASSUME NEW m, NEW e, Ok(m, e), Settled(m),
         NEW xs \in Seq(Blocks), IsInjective(xs), Serial(m, xs),
         \A d \in Clients : NotYet(m.older, m.px[d], xs, 0),
         NEW src \in Clients, \A i \in 1..Len(xs) : Published(m, src, xs[i])
  PROVE  LET n == TakeBlocksAndInfo(m, src, xs)
         IN  Ok(n, e) /\ Settled(n) /\ Based(m, n)
  <1> DEFINE k == MaxClientID
             a == <<m, src, xs, e>>
             n == TakeLoop!After(a, m, k)
  <1>1. k \in Nat /\ \A d \in Clients : d \in Nat
    BY ManagerAssumption
  <1>2. TakeBlocksAndInfo(m, src, xs) = n
    BY DEF TakeBlocksAndInfo, TakeLoop!After, Iterate, TakeLoop!Iterate, TakeRound
  <1>3. TakeInv(a, m, 0)
    <2>1. Based(m, m)
      BY FrameSame, AllBased
    <2> QED  BY <2>1 DEF TakeInv
  <1>4. ASSUME NEW i \in 1..k, NEW x, TakeInv(a, x, i - 1)
        PROVE  TakeInv(a, TakeRound(a, x, i), i)
    <2>1. /\ Ok(x, e) /\ Settled(x) /\ Based(m, x)
          /\ \A d \in Clients : d > i - 1 => NotYet(x.older, x.px[d], xs, 0)
      BY <1>4 DEF TakeInv
    <2>2. \A d \in Clients : d > i => d > i - 1 /\ d # i
      BY <1>1
    <2>3. CASE TakeRound(a, x, i) = x
      BY <2>1, <2>2, <2>3 DEF TakeInv
    <2>4. CASE i \in Clients /\ Up(x, i) /\ TakeRound(a, x, i) = SendSegments(x, i, xs)
      <3> DEFINE y == SendSegments(x, i, xs)
      <3>1. NotYet(x.older, x.px[i], xs, 0) /\ Serial(x, xs)
        BY <1>1, <2>1, <2>4, StaysSerial
      <3>2. \A j \in 1..Len(xs) : Published(x, src, xs[j])
        BY <2>1, StaysPublished
      <3>3. Ok(y, e) /\ Settled(y) /\ Others(x, y, i)
        BY <2>1, <2>4, <3>1, <3>2, SendSegmentsOk
      <3> HIDE DEF y
      <3>4. Based(m, y) /\ y.older = x.older
        BY <2>1, <3>1, <3>3, AllBased, BasedThrough, StaysSerial
      <3>5. ASSUME NEW d \in Clients, d > i
            PROVE  NotYet(y.older, y.px[d], xs, 0)
        <4>1. SameRest(x.px[d], y.px[d]) /\ NotYet(x.older, x.px[d], xs, 0)
          BY <2>1, <2>2, <3>3, <3>5 DEF Others
        <4> QED  BY <3>4, <4>1 DEF NotYet, Refers, SameRest
      <3>6. TakeRound(a, x, i) = y
        BY <2>4 DEF y
      <3> QED  BY <3>3, <3>4, <3>5, <3>6 DEF TakeInv
    <2> QED  BY <2>3, <2>4 DEF TakeRound
  <1> HIDE DEF k, a, n
  <1>5. TakeInv(a, n, k)
    BY <1>1, <1>3, <1>4, CountUp, TakeLoop!LoopInvariant DEF n, TakeLoop!CountsUp
  <1> QED  BY <1>2, <1>5 DEF TakeInv, a

-----------------------------------------------------------------------------
(***************************************************************************)
(* Segments are dropped so that slabs become free.                         *)
(***************************************************************************)
LEMMA EraseOk ==
  ASSUME NEW m, NEW e, Ok(m, e), Settled(m), ~Dropless(m),
         NEW c \in Clients, Up(m, c), NEW x \in Blocks, Contains(m.px[c].wantedQueue, x)
  PROVE  LET n == EraseWantedSegment(m, c, x)
         IN  Ok(n, e) /\ Settled(n) /\ Kept(m, n)
  <1> DEFINE q == RemoveFirst(m.px[c].wantedQueue, x)
             k == ReleaseWantedSegment([m EXCEPT !.px[c].wantedQueue = q], c, x)
             n == SendDropReport(k, c, {x})
  <1>1. m.px[c].wantedQueue \in Seq(Blocks) /\ IsInjective(m.px[c].wantedQueue)
    BY OkClient
  <1>2. /\ q \in Seq(Blocks) /\ IsInjective(q)
        /\ \A y : Contains(q, y) <=> Contains(m.px[c].wantedQueue, y) /\ y # x
    BY <1>1, RemoveList
  <1>3. Served(m, m.px[c])
    BY DEF Settled
  <1>4. Ordered(q, m.older)
    BY <1>1, <1>3, OrderedParts DEF Served, Delivering
  <1>5. EraseWantedSegment(m, c, x) = n
    BY DEF EraseWantedSegment
  <1> HIDE DEF q
  <1>6. Ok(k, e) /\ Unqueued(m, k, c) /\ k.px[c].wantedQueue = q
    BY <1>2, UnqueueOk
  <1> HIDE DEF k
  <1>7. /\ Ok(n, e) /\ Kept(k, n) /\ Others(k, n, c) /\ SameClient(k.px[c], n.px[c])
        /\ Reported(k.px[c], n.px[c], {x})
    BY <1>6, DropReportOk
  <1> HIDE DEF n
  <1>8. Others(m, n, c) /\ Kept(m, n)
    BY <1>6, <1>7, OthersThrough, KeptThrough DEF Unqueued
  <1>9. /\ n.px[c].wantedQueue = q /\ n.px[c].holding = m.px[c].holding
        /\ n.px[c].inOrder = m.px[c].inOrder /\ n.px[c].lost = m.px[c].lost
        /\ n.px[c].owed = m.px[c].owed \ {x} /\ (n.px[c].needReport => n.px[c].throttle)
    BY <1>6, <1>7 DEF SameClient, Reported, Unqueued, SameButQueue
  <1>10. Apart(n.px[c])
    BY <1>2, <1>3, <1>9 DEF Served, Apart
  <1>11. Settled(n)
    BY <1>2, <1>3, <1>4, <1>8, <1>9, <1>10, LeavesQueue DEF Served, Delivering
  <1> QED  BY <1>5, <1>7, <1>8, <1>11

\* The segment that is harvested is in the queue of a connected client.
LEMMA HarvestSegmentOk ==
  ASSUME NEW m, NEW e, Ok(m, e), Settled(m), ~Dropless(m), m.sm.wanted # <<>>
  PROVE  LET n == HarvestSegment(m)
         IN  Ok(n, e) /\ Settled(n) /\ Kept(m, n)
  <1> DEFINE s == Head(m.sm.wanted)
             seg == SM!FrontWantedSegment(m.sm)
             c == seg[1]
             x == seg[2]
  <1>1. /\ m.sm.wanted \in Seq(Slabs) /\ m.sm.wantedSegs \in [Slabs -> Seq(Clients \X Blocks)]
        /\ IsInjective(m.sm.wanted) /\ \A r \in Slabs : IsInjective(m.sm.wantedSegs[r])
        /\ \A r \in Slabs : Contains(m.sm.wanted, r) => m.sm.wantedSegs[r] # <<>>
    BY MatchedLists DEF Ok
  <1>2. s \in Slabs /\ Contains(m.sm.wanted, s)
    BY <1>1, TailList
  <1>3. /\ m.sm.wantedSegs[s] # <<>> /\ m.sm.wantedSegs[s] \in Seq(Clients \X Blocks)
        /\ IsInjective(m.sm.wantedSegs[s])
    BY <1>1, <1>2
  <1>4. seg = Head(m.sm.wantedSegs[s])
    BY DEF SM!FrontWantedSegment
  <1> HIDE DEF s
  <1>5. seg \in Clients \X Blocks /\ Contains(m.sm.wantedSegs[s], seg)
    BY <1>3, <1>4, TailList
  <1> HIDE DEF seg
  <1>6. c \in Clients /\ x \in Blocks /\ seg = <<c, x>>
    BY <1>5
  <1>7. Contains(m.px[c].wantedQueue, x)
    BY <1>2, <1>5, <1>6 DEF Ok, Queues
  <1>8. m.px[c].wantedQueue # <<>>
    BY <1>7 DEF Contains
  <1>9. Up(m, c)
    BY <1>6, <1>8 DEF Settled, Bare
  <1>10. HarvestSegment(m) = EraseWantedSegment(m, c, x)
    BY <1>9 DEF HarvestSegment, seg
  <1> QED  BY <1>6, <1>7, <1>9, <1>10, EraseOk

LEMMA WantedFinite ==
  ASSUME NEW sm, Matched(sm)
  PROVE  SM!NumWantedSegs(sm) \in Nat
  <1> DEFINE R(s) == {s} \X (1..Len(sm.wantedSegs[s]))
             S == {R(s) : s \in Slabs}
  <1>1. IsFiniteSet(S)
    <2> DEFINE f == [s \in Slabs |-> R(s)]
    <2>1. f \in Surjection(Slabs, S)
      BY DEF Surjection
    <2> HIDE DEF f, S
    <2> QED  BY <2>1, Finite, FS_Surjection
  <1>2. \A A \in S : IsFiniteSet(A)
    <2> SUFFICES ASSUME NEW s \in Slabs
                 PROVE  IsFiniteSet(R(s))
      OBVIOUS
    <2>1. Len(sm.wantedSegs[s]) \in Nat
      BY MatchedLists
    <2>2. IsFiniteSet(1..Len(sm.wantedSegs[s])) /\ IsFiniteSet({s})
      <3>1. 1 \in Int /\ Len(sm.wantedSegs[s]) \in Int
        BY <2>1
      <3> QED  BY <3>1, FS_Interval, FS_Singleton
    <2> QED  BY <2>2, FS_Product
  <1>3. IsFiniteSet(UNION S)
    <2> HIDE DEF S
    <2> QED  BY <1>1, <1>2, FS_UNION
  <1>4. SM!NumWantedSegs(sm) = Cardinality(UNION S)
    BY SlabsAre, Zenon DEF SM!NumWantedSegs, SM!Cardinality, Cardinality
  <1> QED  BY <1>3, <1>4, FS_CardinalityType

LEMMA RanOutOk ==
  ASSUME NEW m, NEW e, Ok(m, e)
  PROVE  LET n == [m EXCEPT !.ranOut = TRUE]
         IN  Ok(n, e) /\ Frame(m, n)
  <1> DEFINE n == [m EXCEPT !.ranOut = TRUE]
  <1>1. /\ n \in MgrState /\ n.sm = m.sm /\ n.px = m.px /\ n.fill = m.fill
        /\ n.intact = m.intact /\ n.err = m.err
        /\ n.setup = m.setup /\ n.info = m.info /\ n.older = m.older
    BY DEF Ok, MgrState
  <1>2. e \in [Slabs -> Nat] /\ Matched(m.sm)
    BY DEF Ok
  <1> HIDE DEF n
  <1>3. Ok(n, e)
    BY <1>1, <1>2, OkSame DEF SameClient
  <1>4. Frame(m, n)
    BY <1>1 DEF Frame, SameGlobal, SameBase, SameRest, SameSizes
  <1> QED  BY <1>3, <1>4 DEF n

\* HarvestWantedSlabs, a loop
HarvestRound(a, x, i) ==
  IF Harvested(x, Min({a[3], Len(a[1].sm.wanted)}), NumFreeSlabs(a[1])) THEN x
  ELSE IF x.sm.wanted = <<>> THEN [x EXCEPT !.ranOut = TRUE]
  ELSE HarvestSegment(x)
HarvestInv(a, x, k) == Ok(x, a[2]) /\ Settled(x) /\ Kept(a[1], x)
HarvestLoop == INSTANCE LoopFacts WITH Step <- HarvestRound, Inv <- HarvestInv

LEMMA HarvestOk ==
  ASSUME NEW m, NEW e, Ok(m, e), Settled(m), ~Dropless(m), NEW count
  PROVE  LET n == HarvestWantedSlabs(m, count)
         IN  Ok(n, e) /\ Settled(n) /\ Kept(m, n)
  <1> DEFINE k == SM!NumWantedSegs(m.sm) + 1
             a == <<m, e, count>>
             n == HarvestLoop!After(a, m, k)
  <1>1. k \in Nat
    BY WantedFinite DEF Ok
  <1>2. HarvestWantedSlabs(m, count) = n
    <2> HIDE DEF k
    <2> QED  BY DEF HarvestWantedSlabs, HarvestLoop!After, Iterate, HarvestLoop!Iterate, HarvestRound, k
  <1>3. HarvestInv(a, m, 0)
    BY FrameSame DEF HarvestInv
  <1>4. ASSUME NEW i \in 1..k, NEW x, HarvestInv(a, x, i - 1)
        PROVE  HarvestInv(a, HarvestRound(a, x, i), i)
    <2> DEFINE y == HarvestRound(a, x, i)
    <2>1. Ok(x, e) /\ Settled(x) /\ Kept(m, x)
      BY <1>4 DEF HarvestInv
    <2>2. CASE y = x
      BY <2>1, <2>2 DEF HarvestInv
    <2>3. CASE y = [x EXCEPT !.ranOut = TRUE]
      <3>1. Ok(y, e) /\ Frame(x, y)
        BY <2>1, <2>3, RanOutOk
      <3>2. Settled(y) /\ Kept(x, y)
        BY <2>1, <3>1, FrameSettled, FrameIsBoth
      <3>3. Kept(m, y)
        BY <2>1, <3>2, KeptThrough
      <3> QED  BY <3>1, <3>2, <3>3 DEF HarvestInv
    <2>4. CASE x.sm.wanted # <<>> /\ y = HarvestSegment(x)
      <3>0. ~Dropless(x)
        BY <2>1 DEF Kept, SameGlobal, Dropless
      <3>1. Ok(y, e) /\ Settled(y) /\ Kept(x, y)
        BY <2>1, <2>4, <3>0, HarvestSegmentOk
      <3>2. Kept(m, y)
        BY <2>1, <3>1, KeptThrough
      <3> QED  BY <3>1, <3>2 DEF HarvestInv
    <2> QED  BY <2>2, <2>3, <2>4 DEF HarvestRound
  <1> HIDE DEF k, a, n
  <1>5. HarvestInv(a, n, k)
    BY <1>1, <1>3, <1>4, CountUp, HarvestLoop!LoopInvariant DEF n, HarvestLoop!CountsUp
  <1> QED  BY <1>2, <1>5 DEF HarvestInv, a

-----------------------------------------------------------------------------
(***************************************************************************)
(* Slabs for a producer.                                                   *)
(***************************************************************************)
\* GetFreeSlabs, a loop
GetRound(a, x, i) == TakeFreeSlab(x, a[2])
GetInv(a, x, k) ==
  Ok(x, a[3]) /\ Frame(a[1], x) /\ NumFreeSlabs(x) = NumFreeSlabs(a[1]) - k
GetLoop == INSTANCE LoopFacts WITH Step <- GetRound, Inv <- GetInv

LEMMA GetFreeSlabsOk ==
  ASSUME NEW m, NEW e, Ok(m, e), NEW c \in Clients, Up(m, c),
         NEW count \in Nat, count <= NumFreeSlabs(m)
  PROVE  LET n == GetFreeSlabs(m, c, count)
         IN  Ok(n, e) /\ Frame(m, n)
  <1> DEFINE a == <<m, c, e>>
             n == GetLoop!After(a, m, count)
  <1>1. GetFreeSlabs(m, c, count) = n
    BY DEF GetFreeSlabs, GetLoop!After, Iterate, GetLoop!Iterate, GetRound
  <1>2. NumFreeSlabs(m) \in Nat
    BY MatchedLists DEF Ok, NumFreeSlabs
  <1>3. GetInv(a, m, 0)
    BY <1>2, FrameSame DEF GetInv
  <1>4. ASSUME NEW i \in 1..count, NEW x, GetInv(a, x, i - 1)
        PROVE  GetInv(a, GetRound(a, x, i), i)
    <2> DEFINE y == TakeFreeSlab(x, c)
    <2>1. Ok(x, e) /\ Frame(m, x) /\ NumFreeSlabs(x) = NumFreeSlabs(m) - (i - 1)
      BY <1>4 DEF GetInv
    <2>2. Up(x, c)
      BY <2>1 DEF Frame, SameBase, Up
    <2>3. NumFreeSlabs(x) > 0
      BY <1>2, <2>1
    <2>4. x.sm.free # <<>> /\ Matched(x.sm)
      BY <2>1, <2>3 DEF NumFreeSlabs, Ok
    <2>5. Ok(y, e) /\ Frame(x, y) /\ y.sm = SM!GetFreeSlab(x.sm)
      BY <2>1, <2>2, <2>4, TakeFreeSlabOk
    <2> HIDE DEF y
    <2>6. Len(SM!GetFreeSlab(x.sm).free) = Len(x.sm.free) - 1
      BY <2>4, GetFreeSlabMatched
    <2>7. NumFreeSlabs(y) = NumFreeSlabs(m) - i
      BY <1>2, <2>1, <2>5, <2>6 DEF NumFreeSlabs
    <2>8. Frame(m, y)
      BY <2>1, <2>5, FrameThrough
    <2> QED  BY <2>5, <2>7, <2>8 DEF GetInv, GetRound, y
  <1> HIDE DEF a, n
  <1>5. GetInv(a, n, count)
    BY <1>3, <1>4, CountUp, GetLoop!LoopInvariant DEF n, GetLoop!CountsUp
  <1> QED  BY <1>1, <1>5 DEF GetInv, a

LEMMA RequestFreeSlabsOk ==
  ASSUME NEW m, NEW e, Ok(m, e), Settled(m), NEW c \in Clients, Up(m, c), NEW numSlabs \in Nat \ {0}
  PROVE  LET n == RequestFreeSlabs(m, c, numSlabs)
         IN  Ok(n, e) /\ Settled(n) /\ Kept(m, n)
  <1> DEFINE niceLevel == m.px[c].nice + m.setup.playback
             short     == IF numSlabs > NumFreeSlabs(m) THEN numSlabs - NumFreeSlabs(m) ELSE 0
             m1        == HarvestWantedSlabs(m, short)
             count     == Min({numSlabs, NumFreeSlabs(m1)})
             n1        == GetFreeSlabs(m1, c, count)
             rq        == RQ!AddRequest(m.rq, niceLevel, numSlabs, c)
             m2        == [m EXCEPT !.rq = rq]
             n2        == ServiceSlabRequests(m2)
  <1>1. RequestFreeSlabs(m, c, numSlabs) = IF niceLevel # 0 THEN n2 ELSE n1
    BY Zenon DEF RequestFreeSlabs
  <1>2. niceLevel = 0 => ~Dropless(m)
    <2>1. m.px[c].nice \in Int
      BY OkClient, ProxyFields
    <2>2. Dropless(m) => m.px[c].nice # -1 /\ m.setup.playback = 1
      BY DEF Settled, Served, Undropped, Dropless
    <2> QED  BY <2>1, <2>2
  <1> HIDE DEF niceLevel, short
  <1>3. CASE niceLevel = 0
    <2>1. Ok(m1, e) /\ Settled(m1) /\ Kept(m, m1)
      BY <1>2, <1>3, HarvestOk
    <2> HIDE DEF m1
    <2>2. Up(m1, c)
      BY <2>1 DEF Kept, SameBase, Up
    <2>3. NumFreeSlabs(m1) \in Nat
      BY <2>1, MatchedLists DEF Ok, NumFreeSlabs
    <2>4. count \in Nat /\ count <= NumFreeSlabs(m1)
      BY <2>3, LeastNat
    <2> HIDE DEF count
    <2>5. Ok(n1, e) /\ Frame(m1, n1)
      BY <2>1, <2>2, <2>4, GetFreeSlabsOk
    <2> HIDE DEF n1
    <2>6. Settled(n1) /\ Kept(m, n1)
      BY <2>1, <2>5, FrameSettled, FrameIsBoth, KeptThrough
    <2> QED  BY <1>1, <1>3, <2>5, <2>6
  <1>4. CASE niceLevel # 0
    <2>1. rq \in [RQ!Levels -> Seq(Request)]
      BY RequestAdded, MgrFields DEF Ok
    <2> HIDE DEF rq
    <2>2. Ok(m2, e) /\ Frame(m, m2)
      BY <2>1, WithRequests
    <2> HIDE DEF m2
    <2>3. RQ!NumRequests(m2.rq) \in Nat
      BY <2>2, RequestsFinite DEF Ok
    <2>4. Ok(n2, e) /\ Frame(m2, n2)
      BY <2>2, <2>3, ServiceSlabRequestsOk
    <2> HIDE DEF n2
    <2>5. Frame(m, n2)
      BY <2>2, <2>4, FrameThrough
    <2>6. Settled(n2) /\ Kept(m, n2)
      BY <2>5, FrameSettled, FrameIsBoth
    <2> QED  BY <1>1, <1>4, <2>4, <2>6
  <1> QED  BY <1>3, <1>4

LEMMA PendingOk ==
  ASSUME NEW m, NEW e, Ok(m, e), Settled(m), NEW c \in Clients, Up(m, c), NEW need \in Nat
  PROVE  LET n == [m EXCEPT !.px[c].pending = need]
         IN  Ok(n, e) /\ Settled(n) /\ Kept(m, n) /\ SameButClient(m, n, c)
  <1> DEFINE p == m.px[c]
             q == [p EXCEPT !.pending = need]
             n == [m EXCEPT !.px[c] = q]
  <1>1. p \in ProxyState
    BY OkClient
  <1>2. [m EXCEPT !.px[c].pending = need] = n
    OBVIOUS
  <1>3. /\ q \in ProxyState /\ SameClient(p, q) /\ SameBase(p, q) /\ SameRest(p, q)
    BY <1>1 DEF ProxyState, SameClient, SameBase, SameSizes, SameRest
  <1> HIDE DEF q
  <1>4. Ok(n, e) /\ n.px[c] = q /\ SameButClient(m, n, c)
    BY <1>3, ProxyOk
  <1> HIDE DEF n
  <1>5. Others(m, n, c) /\ Kept(m, n)
    BY <1>3, <1>4, ClientOnly DEF SameClient
  <1>6. Served(n, n.px[c])
    <2>1. Served(m, p)
      BY DEF Settled
    <2>2. n.info = m.info /\ n.older = m.older /\ n.setup = m.setup
      BY <1>4 DEF SameButClient
    <2> HIDE DEF p
    <2> QED  BY <1>3, <1>4, <2>1, <2>2, SameServed DEF SameBase
  <1>7. Settled(n)
    BY <1>5, <1>6, OthersSettled
  <1> QED  BY <1>2, <1>4, <1>5, <1>7

LEMMA FillProducerSlabsOk ==
  ASSUME NEW m, NEW e, Ok(m, e), Settled(m), NEW c \in Clients, Up(m, c)
  PROVE  LET n == FillProducerSlabs(m, c)
         IN  Ok(n, e) /\ Settled(n) /\ Kept(m, n)
  <1> DEFINE need == T!ProdSlabsNeeded(m.px[c].slabs)
             toRequest == need - m.px[c].pending
             m1 == [m EXCEPT !.px[c].pending = need]
             n  == RequestFreeSlabs(m1, c, toRequest)
  <1>1. need \in Nat
    BY OkClient, TrackerFields DEF T!ProdSlabsNeeded
  <1>2. m.px[c].pending \in Nat
    BY OkClient, ProxyFields
  <1>3. FillProducerSlabs(m, c) = IF toRequest <= 0 THEN m ELSE n
    BY Zenon DEF FillProducerSlabs
  <1> HIDE DEF need
  <1>4. CASE toRequest <= 0
    BY <1>3, <1>4, FrameSame
  <1>5. CASE ~(toRequest <= 0)
    <2>1. toRequest \in Nat \ {0}
      BY <1>1, <1>2, <1>5
    <2>2. Ok(m1, e) /\ Settled(m1) /\ Kept(m, m1)
      BY <1>1, PendingOk
    <2> HIDE DEF m1, toRequest
    <2>3. Up(m1, c)
      BY <2>2 DEF Kept, SameBase, Up
    <2>4. Ok(n, e) /\ Settled(n) /\ Kept(m1, n)
      BY <2>1, <2>2, <2>3, RequestFreeSlabsOk
    <2> HIDE DEF n
    <2> QED  BY <1>3, <1>5, <2>2, <2>4, KeptThrough
  <1> QED  BY <1>4, <1>5

(***************************************************************************)
(* Reservations.                                                           *)
(***************************************************************************)
\* Only the slab manager changes, and no reference in it.
Resized(m, n) ==
  /\ n.px = m.px /\ n.setup = m.setup /\ n.rq = m.rq /\ n.info = m.info /\ n.fill = m.fill
  /\ n.older = m.older /\ n.intact = m.intact /\ n.err = m.err

LEMMA ResizeOk ==
  ASSUME NEW m, NEW e, Ok(m, e), NEW sm, Matched(sm), sm.heldRefcnt = m.sm.heldRefcnt,
         sm.wantedSegs = m.sm.wantedSegs
  PROVE  LET n == [m EXCEPT !.sm = sm]
         IN  Ok(n, e) /\ Resized(m, n) /\ n.sm = sm
  <1> DEFINE n == [m EXCEPT !.sm = sm]
  <1>1. n \in MgrState /\ Resized(m, n) /\ n.sm = sm
    BY DEF Ok, MgrState, Matched, Resized
  <1> HIDE DEF n
  <1>2. \A d \in Clients : SameClient(m.px[d], n.px[d])
    BY <1>1 DEF Resized, SameClient
  <1>3. /\ n.sm.heldRefcnt = m.sm.heldRefcnt /\ n.sm.wantedSegs = m.sm.wantedSegs /\ Matched(n.sm)
        /\ n.fill = m.fill /\ n.intact = m.intact /\ n.err = m.err /\ e \in [Slabs -> Nat]
    BY <1>1 DEF Resized, Ok
  <1>4. Ok(n, e)
    BY <1>1, <1>2, <1>3, OkSame
  <1> QED  BY <1>1, <1>4 DEF n

(***************************************************************************)
(* What fits in the slabs that exist: no sum of it wraps.                  *)
(***************************************************************************)
LEMMA SlabSums ==
  ASSUME NEW sm, Matched(sm)
  PROVE  /\ sm.reserved \in Nat /\ sm.numBuffers \in 0..MaxBuffers
         /\ SM!NumSlabs(sm) \in Nat /\ SM!NumSlabs(sm) <= TotalNumSlabs
         /\ SM!NumSlabsNonreservable(sm) \in Nat
         /\ TotalNumSlabs \in Nat /\ TotalNumSlabs < UIntRange /\ UIntRange \in Nat
  <1>1. sm.reserved \in Nat /\ sm.numBuffers \in 0..MaxBuffers
    BY SlabsAssumption DEF Matched, SM!SlabState
  <1>2. SM!NumSlabs(sm) \in Nat /\ SM!NumSlabs(sm) <= TotalNumSlabs
    BY <1>1, P!SlabCount, SlabsAssumption, SlabsAre DEF SM!NumSlabs, TotalNumSlabs
  <1>3. SM!NumSlabsNonreservable(sm) \in Nat
    <2>1. 0 \in Nat
      OBVIOUS
    <2>2. SM!NumSlabsNonreservable(sm) = P!Nonreservable(SM!NumSlabs(sm))
      BY DEF SM!NumSlabsNonreservable, P!Nonreservable
    <2> QED  BY <1>2, <2>1, <2>2, P!NonreservableGrows, SlabsAssumption, SlabsAre
  <1>4. SlabsPerBuf \in Nat /\ MaxBuffers \in Nat
    BY SlabsAssumption
  <1>5. TotalNumSlabs \in Nat
    BY <1>4 DEF TotalNumSlabs
  <1> QED  BY <1>1, <1>2, <1>3, <1>5, SlabsAssumption DEF TotalNumSlabs

LEMMA BoundedGrows ==
  ASSUME NEW sm, Matched(sm), Bounded(sm), NEW k, Matched(k), k.reserved = sm.reserved,
         sm.numBuffers <= k.numBuffers
  PROVE  Bounded(k)
  <1> DEFINE N == SM!NumSlabs(sm)
             d == SlabsPerBuf * (k.numBuffers - sm.numBuffers)
             R == SM!NumSlabsNonreservable(sm)
             S == SM!NumSlabsNonreservable(k)
  <1>1. /\ sm.numBuffers \in 0..MaxBuffers /\ k.numBuffers \in 0..MaxBuffers
        /\ N \in Nat /\ R \in Nat /\ S \in Nat /\ sm.reserved \in Nat
    BY SlabSums
  <1>2. d \in Nat /\ SM!NumSlabs(k) = N + d
    BY <1>1, P!SlabCount, SlabsAssumption, SlabsAre DEF SM!NumSlabs
  <1>3. R = P!Nonreservable(N) /\ S = P!Nonreservable(N + d)
    BY <1>2 DEF SM!NumSlabsNonreservable, P!Nonreservable
  <1> HIDE DEF N, d, R, S
  <1>4. S <= R + d
    BY <1>1, <1>2, <1>3, P!NonreservableGrows, SlabsAssumption, SlabsAre
  <1>5. sm.reserved + R <= N
    BY DEF Bounded, N, R
  <1>6. k.reserved + S <= N + d
    BY <1>1, <1>2, <1>4, <1>5
  <1> QED  BY <1>2, <1>6 DEF Bounded, S

LEMMA BoundedShrinks ==
  ASSUME NEW sm, Matched(sm), Bounded(sm), NEW k, k.reserved \in Nat, k.reserved <= sm.reserved,
         k.numBuffers = sm.numBuffers
  PROVE  Bounded(k)
  <1>1. SM!NumSlabs(k) = SM!NumSlabs(sm) /\ SM!NumSlabsNonreservable(k) = SM!NumSlabsNonreservable(sm)
    BY DEF SM!NumSlabsNonreservable, SM!NumSlabs
  <1> QED  BY <1>1, SlabSums DEF Bounded

LEMMA BoundedReserve ==
  ASSUME NEW sm, Matched(sm), Bounded(sm), NEW n \in Nat, n + TotalNumSlabs < UIntRange,
         SM!CanReserve(sm, n), NEW k, k.reserved = SM!UAdd(sm.reserved, n),
         k.numBuffers = sm.numBuffers
  PROVE  Bounded(k) /\ k.reserved = sm.reserved + n
  <1> DEFINE N == SM!NumSlabs(sm)
             R == SM!NumSlabsNonreservable(sm)
             r == sm.reserved
  <1>1. /\ N \in Nat /\ R \in Nat /\ r \in Nat /\ N <= TotalNumSlabs
        /\ TotalNumSlabs \in Nat /\ TotalNumSlabs < UIntRange /\ UIntRange \in Nat
    BY SlabSums
  <1>2. r + R <= N
    BY DEF Bounded
  <1>3. n = 0 \/ SM!UAdd(SM!UAdd(r, R), n) <= N
    BY DEF SM!CanReserve
  <1>4. SM!NumSlabs(k) = N /\ SM!NumSlabsNonreservable(k) = R
    BY DEF SM!NumSlabsNonreservable, SM!NumSlabs
  <1> HIDE DEF N, R
  <1>5. SM!UAdd(r, n) = r + n /\ SM!UAdd(r, R) = r + R /\ SM!UAdd(r + R, n) = r + R + n
    BY <1>1, <1>2 DEF SM!UAdd
  <1>6. r + n + R <= N
    BY <1>1, <1>2, <1>3, <1>5
  <1> QED  BY <1>4, <1>5, <1>6 DEF Bounded

\* MakeRoom, a loop
RoomRound(a, x, i) ==
  IF SM!CanReserve(x.sm, a[2]) THEN x
  ELSE [x EXCEPT !.sm = SM!NumBuffers(@, x.sm.numBuffers + 1)]
RoomInv(a, x, k) ==
  /\ Ok(x, a[3]) /\ Resized(a[1], x) /\ x.sm.numBuffers <= a[1].sm.numBuffers + k
  /\ x.sm.reserved = a[1].sm.reserved /\ (Bounded(a[1].sm) => Bounded(x.sm))
RoomLoop == INSTANCE LoopFacts WITH Step <- RoomRound, Inv <- RoomInv

LEMMA BufferCounts ==
  ASSUME NEW m \in MgrState
  PROVE  m.sm.numBuffers \in Nat /\ m.setup.maxNumBuffers \in Nat /\ m.setup.maxNumBuffers <= MaxBuffers
  <1>1. m.setup \in Setup
    BY MgrFields, ManagerAssumption
  <1>2. m.setup.maxNumBuffers \in InitBuffers..MaxBuffers
    BY <1>1 DEF Setup
  <1>3. m.sm.numBuffers \in Nat
    BY MgrFields, SlabsAssumption DEF SM!SlabState
  <1> QED  BY <1>2, <1>3, SlabsAssumption

LEMMA MakeRoomOk ==
  ASSUME NEW m, NEW e, Ok(m, e), NEW count
  PROVE  LET n == MakeRoom(m, count)
         IN  /\ Ok(n, e) /\ Resized(m, n) /\ n.sm.reserved = m.sm.reserved
             /\ Bounded(m.sm) => Bounded(n.sm)
  <1> DEFINE k == IF m.setup.maxNumBuffers > m.sm.numBuffers
                  THEN m.setup.maxNumBuffers - m.sm.numBuffers ELSE 0
             a == <<m, count, e>>
             n == RoomLoop!After(a, m, k)
  <1>0. /\ m.sm.numBuffers \in Nat /\ m.setup.maxNumBuffers \in Nat
        /\ m.setup.maxNumBuffers <= MaxBuffers /\ MaxBuffers \in Nat
    BY BufferCounts, SlabsAssumption DEF Ok
  <1>1. k \in Nat /\ \A i \in 1..k : m.sm.numBuffers + i <= MaxBuffers
    BY <1>0
  <1>2. MakeRoom(m, count) = n
    <2> HIDE DEF k
    <2> QED  BY DEF MakeRoom, RoomLoop!After, Iterate, RoomLoop!Iterate, RoomRound, k
  <1>3. RoomInv(a, m, 0)
    BY <1>0 DEF RoomInv, Resized
  <1>4. ASSUME NEW i \in 1..k, NEW x, RoomInv(a, x, i - 1)
        PROVE  RoomInv(a, RoomRound(a, x, i), i)
    <2> DEFINE num == x.sm.numBuffers + 1
               sm == SM!NumBuffers(x.sm, num)
               y == [x EXCEPT !.sm = sm]
    <2>1. /\ Ok(x, e) /\ Resized(m, x) /\ x.sm.numBuffers <= m.sm.numBuffers + (i - 1)
          /\ x.sm.reserved = m.sm.reserved /\ (Bounded(m.sm) => Bounded(x.sm))
      BY <1>4 DEF RoomInv
    <2>2. x.sm.numBuffers \in Nat /\ Matched(x.sm) /\ i \in Nat
      BY <2>1, BufferCounts DEF Ok
    <2>3. num \in 0..MaxBuffers /\ num <= m.sm.numBuffers + i /\ ~(num <= x.sm.numBuffers)
          /\ x.sm.numBuffers <= num
      BY <1>0, <1>1, <2>1, <2>2
    <2> HIDE DEF num, k
    <2>4. /\ Matched(sm) /\ sm.heldRefcnt = x.sm.heldRefcnt /\ sm.wantedSegs = x.sm.wantedSegs
          /\ sm.numBuffers = num /\ sm.reserved = x.sm.reserved
      BY <2>2, <2>3, NumBuffersMatched
    <2> HIDE DEF sm
    <2>5. Ok(y, e) /\ Resized(x, y) /\ y.sm = sm
      BY <2>1, <2>4, ResizeOk
    <2>6. RoomRound(a, x, i) = x \/ RoomRound(a, x, i) = y
      BY DEF RoomRound, sm, num
    <2> HIDE DEF y
    <2>7. RoomInv(a, y, i)
      <3>1. Resized(m, y)
        BY <2>1, <2>5 DEF Resized
      <3>2. Bounded(m.sm) => Bounded(y.sm)
        BY <2>1, <2>2, <2>3, <2>4, <2>5, BoundedGrows
      <3> QED  BY <2>1, <2>3, <2>4, <2>5, <3>1, <3>2 DEF RoomInv
    <2>8. RoomInv(a, x, i)
      BY <1>0, <2>1, <2>2 DEF RoomInv
    <2> QED  BY <2>6, <2>7, <2>8
  <1> HIDE DEF k, a, n
  <1>5. RoomInv(a, n, k)
    BY <1>1, <1>3, <1>4, CountUp, RoomLoop!LoopInvariant DEF n, RoomLoop!CountsUp
  <1> QED  BY <1>2, <1>5 DEF RoomInv, a

LEMMA GetSlabReservationOk ==
  ASSUME NEW m, NEW e, Ok(m, e), NEW count \in 0..(UIntRange - 1)
  PROVE  LET r == GetSlabReservation(m, count)
         IN  /\ Ok(r.m, e) /\ Resized(m, r.m)
             /\ r.failed => r.m.sm.reserved = m.sm.reserved
             /\ Bounded(m.sm) /\ count + TotalNumSlabs < UIntRange =>
                  Bounded(r.m.sm) /\ (~r.failed => r.m.sm.reserved = m.sm.reserved + count)
  <1> DEFINE m1 == MakeRoom(m, count)
             sm == SM!GetSlabReservation(m1.sm, count)
             n == [m1 EXCEPT !.sm = sm]
             r == GetSlabReservation(m, count)
  <1>1. /\ Ok(m1, e) /\ Resized(m, m1) /\ m1.sm.reserved = m.sm.reserved
        /\ Bounded(m.sm) => Bounded(m1.sm)
    BY MakeRoomOk
  <1>2. /\ r.failed <=> ~SM!CanReserve(m1.sm, count)
        /\ SM!CanReserve(m1.sm, count) => r.m = n
        /\ ~SM!CanReserve(m1.sm, count) => r.m = m1
    BY DEF GetSlabReservation
  <1> HIDE DEF m1, r
  <1>3. /\ Matched(sm) /\ sm.heldRefcnt = m1.sm.heldRefcnt /\ sm.wantedSegs = m1.sm.wantedSegs
        /\ sm.numBuffers = m1.sm.numBuffers /\ sm.reserved = SM!UAdd(m1.sm.reserved, count)
        /\ Matched(m1.sm)
    BY <1>1, ReservationMatched DEF Ok
  <1> HIDE DEF sm
  <1>4. Ok(n, e) /\ Resized(m1, n) /\ n.sm = sm
    BY <1>1, <1>3, ResizeOk
  <1>5. Resized(m, n)
    BY <1>1, <1>4 DEF Resized
  <1> HIDE DEF n
  <1>6. ASSUME Bounded(m.sm), count + TotalNumSlabs < UIntRange, SM!CanReserve(m1.sm, count)
        PROVE  Bounded(sm) /\ sm.reserved = m1.sm.reserved + count
    <2>1. count \in Nat
      BY SlabsAssumption
    <2> QED  BY <1>1, <1>3, <1>6, <2>1, BoundedReserve
  <1>7. CASE SM!CanReserve(m1.sm, count)
    BY <1>1, <1>2, <1>4, <1>5, <1>6, <1>7 DEF r
  <1>8. CASE ~SM!CanReserve(m1.sm, count)
    BY <1>1, <1>2, <1>8 DEF r
  <1> QED  BY <1>7, <1>8

-----------------------------------------------------------------------------
(***************************************************************************)
(* A client gives up producer slabs Q and segments H: what they count is   *)
(* to be given back to the slab manager.                                   *)
(***************************************************************************)
Zero == [s \in Slabs |-> 0]

One(A, s) == IF s \in A THEN 1 ELSE 0

GivenUp(p, q, H, Q) ==
  /\ H \subseteq p.holding /\ q.holding = p.holding \ H
  /\ Q \subseteq p.slabs.prod /\ q.slabs.prod = p.slabs.prod \ Q
  /\ q.wantedQueue = p.wantedQueue
  /\ q.state = p.state \/ (q.slabs.prod = {} /\ q.holding = {})

FewerReaders(m, n, H, s) == Cardinality(Readers(m, s)) = Cardinality(Readers(n, s)) + Cardinality(In(H, s))

LEMMA ReadersLess ==
  ASSUME NEW m, NEW e, Ok(m, e), NEW n, NEW c \in Clients, SameButClient(m, n, c),
         NEW H, NEW Q, GivenUp(m.px[c], n.px[c], H, Q), NEW s
  PROVE  FewerReaders(m, n, H, s)
  <1> DEFINE D == {<<c, x>> : x \in In(H, s)}
             f == [x \in In(H, s) |-> <<c, x>>]
             R == Readers(m, s)
  <1>0. /\ H \subseteq m.px[c].holding /\ n.px[c].holding = m.px[c].holding \ H
        /\ \A d \in Clients : d # c => n.px[d].holding = m.px[d].holding
    BY DEF GivenUp, SameButClient
  <1>12. m.px[c].holding \in SUBSET Blocks
    BY OkClient
  <1>1. D \subseteq R
    BY <1>0, <1>12 DEF Readers, In
  <1>2. Readers(n, s) = R \ D
    <2>1. ASSUME NEW d \in Clients, NEW x \in Blocks, SlabOf(x) = s
          PROVE  x \in n.px[d].holding <=> x \in m.px[d].holding /\ <<d, x>> \notin D
      <3>1. CASE d = c
        BY <1>0, <2>1, <3>1 DEF In
      <3>2. CASE d # c
        BY <1>0, <3>2
      <3> QED  BY <3>1, <3>2
    <2> QED  BY <2>1 DEF Readers
  <1>3. f \in Bijection(In(H, s), D)
    BY DEF Bijection, Injection, Surjection, IsInjective
  <1>4. IsFiniteSet(In(H, s))
    <2>1. In(H, s) \subseteq Blocks
      BY <1>0, <1>12 DEF In
    <2> QED  BY <2>1, Finite, FS_Subset
  <1>5. IsFiniteSet(D) /\ Cardinality(D) = Cardinality(In(H, s))
    BY <1>3, <1>4, FS_Bijection DEF ExistsBijection
  <1> HIDE DEF D, R
  <1>6. R \cap D = D /\ IsFiniteSet(R)
    BY <1>1, RefSets DEF R
  <1>7. /\ Cardinality(R \ D) = Cardinality(R) - Cardinality(R \cap D)
        /\ Cardinality(R) \in Nat /\ Cardinality(D) \in Nat
    BY <1>5, <1>6, FS_Difference, FS_CardinalityType
  <1>8. Cardinality(Readers(n, s)) = Cardinality(R) - Cardinality(D)
    BY <1>2, <1>6, <1>7
  <1> HIDE DEF f
  <1>9. Cardinality(R) = Cardinality(Readers(n, s)) + Cardinality(In(H, s))
    BY <1>5, <1>7, <1>8
  <1> QED  BY <1>9 DEF R, FewerReaders

LEMMA ProducersLess ==
  ASSUME NEW m, NEW n, NEW c \in Clients, SameButClient(m, n, c),
         NEW H, NEW Q, GivenUp(m.px[c], n.px[c], H, Q), NEW s
  PROVE  Cardinality(Producers(m, s)) = Cardinality(Producers(n, s)) + One(Q, s)
  <1>0. /\ Q \subseteq m.px[c].slabs.prod /\ n.px[c].slabs.prod = m.px[c].slabs.prod \ Q
        /\ \A d \in Clients : d # c => n.px[d].slabs.prod = m.px[d].slabs.prod
    BY DEF GivenUp, SameButClient
  <1>1. CASE s \in Q
    <2>1. c \in Producers(m, s) /\ Producers(n, s) = Producers(m, s) \ {c}
      BY <1>0, <1>1 DEF Producers
    <2>2. Cardinality(Producers(n, s)) = Cardinality(Producers(m, s)) - 1
      BY <2>1, RefSets, Shrinks
    <2> QED  BY <1>1, <2>2, RefSets DEF One
  <1>2. CASE s \notin Q
    <2>1. Producers(n, s) = Producers(m, s)
      BY <1>0, <1>2 DEF Producers
    <2> QED  BY <1>2, <2>1, RefSets DEF One
  <1> QED  BY <1>1, <1>2

Owes(e, f, H, Q) ==
  f \in [Slabs -> Nat] /\ \A s \in Slabs : f[s] = e[s] + One(Q, s) + Cardinality(In(H, s))

LEMMA GiveUpOk ==
  ASSUME NEW m, NEW e, Ok(m, e), NEW n \in MgrState, NEW c \in Clients, SameButClient(m, n, c),
         NEW H, NEW Q, GivenUp(m.px[c], n.px[c], H, Q), Counts(n.px[c].slabs, n.px[c].holding),
         NEW f, Owes(e, f, H, Q)
  PROVE  Ok(n, f)
  <1>0. /\ H \subseteq m.px[c].holding /\ n.px[c].holding = m.px[c].holding \ H
        /\ Q \subseteq m.px[c].slabs.prod /\ n.px[c].slabs.prod = m.px[c].slabs.prod \ Q
        /\ n.px[c].wantedQueue = m.px[c].wantedQueue
        /\ n.px[c].state = m.px[c].state \/ (n.px[c].slabs.prod = {} /\ n.px[c].holding = {})
    BY DEF GivenUp
  <1>1. /\ n.sm = m.sm /\ n.fill = m.fill /\ n.intact = m.intact /\ n.err = m.err
        /\ \A d \in Clients : d # c => n.px[d] = m.px[d]
    BY DEF SameButClient
  <1>2. m.px[c].holding \in SUBSET Blocks
    BY OkClient
  <1>3. References(n, f)
    <2> SUFFICES ASSUME NEW s \in Slabs
                 PROVE  n.sm.heldRefcnt[s] =
                          Cardinality(Producers(n, s)) + Cardinality(Readers(n, s)) + f[s]
      BY DEF References
    <2>1. m.sm.heldRefcnt[s] = Cardinality(Producers(m, s)) + Cardinality(Readers(m, s)) + e[s]
      BY DEF Ok, References
    <2>2. Cardinality(Readers(m, s)) = Cardinality(Readers(n, s)) + Cardinality(In(H, s))
      <3>1. FewerReaders(m, n, H, s)
        BY ReadersLess
      <3> QED  BY <3>1 DEF FewerReaders
    <2>3. Cardinality(Producers(m, s)) = Cardinality(Producers(n, s)) + One(Q, s)
      BY ProducersLess
    <2>4. e[s] \in Nat /\ f[s] = e[s] + One(Q, s) + Cardinality(In(H, s)) /\ One(Q, s) \in Nat
      BY DEF Ok, One, Owes
    <2>5. H \in SUBSET Blocks
      BY <1>0, <1>2
    <2>6. Cardinality(In(H, s)) \in Nat
      BY <2>5, InSlab
    <2> QED  BY <1>1, <2>1, <2>2, <2>3, <2>4, <2>6, RefSets
  <1>4. Trackers(n)
    <2> SUFFICES ASSUME NEW d \in Clients
                 PROVE  Counts(n.px[d].slabs, n.px[d].holding)
      BY DEF Trackers
    <2>1. CASE d = c
      BY <2>1
    <2>2. CASE d # c
      BY <1>1, <2>2, OkClient
    <2> QED  BY <2>1, <2>2
  <1>5. \A d \in Clients : n.px[d].wantedQueue = m.px[d].wantedQueue
    BY <1>0, <1>1
  <1>6. Queues(n)
    BY <1>1, <1>5 DEF Ok, Queues
  <1>7. Gone(n)
    <2> SUFFICES ASSUME NEW d \in Clients, ~Up(n, d)
                 PROVE  n.px[d].slabs.prod = {} /\ n.px[d].holding = {}
      BY DEF Gone
    <2>1. CASE d # c
      BY <1>1, <2>1 DEF Ok, Gone, Up
    <2>2. CASE d = c /\ n.px[c].state = m.px[c].state
      <3>1. m.px[c].slabs.prod = {} /\ m.px[c].holding = {}
        BY <2>2 DEF Ok, Gone, Up
      <3> QED  BY <1>0, <2>2, <3>1
    <2>3. CASE d = c /\ n.px[c].slabs.prod = {} /\ n.px[c].holding = {}
      BY <2>3
    <2> QED  BY <1>0, <2>1, <2>2, <2>3
  <1>8. Filled(n)
    <2>1. \A d \in Clients, y \in Blocks : Refers(n.px[d], y) => Refers(m.px[d], y)
      BY <1>0, <1>1, <1>5 DEF Refers
    <2>2. \A d \in Clients : n.px[d].slabs.prod \subseteq m.px[d].slabs.prod
      BY <1>0, <1>1
    <2> QED  BY <1>1, <2>1, <2>2 DEF Ok, Filled
  <1>9. Matched(n.sm) /\ n.intact /\ ~n.err
    BY <1>1 DEF Ok
  <1>10. f \in [Slabs -> Nat]
    BY DEF Owes
  <1> QED  BY <1>3, <1>4, <1>6, <1>7, <1>8, <1>9, <1>10 DEF Ok

\* DecrementHeldRefcnts, a loop over the slabs of a message
Left(ids, k) == [s \in Slabs |-> Cardinality({i \in 1..Len(ids) : i > k /\ ids[i] = s})]

DecrRound(a, x, i) == DecrementHeldRefcnt(x, a[2][i], 1)
DecrInv(a, x, k) == Ok(x, Left(a[2], k)) /\ Frame(a[1], x)
DecrLoop == INSTANCE LoopFacts WITH Step <- DecrRound, Inv <- DecrInv

LEMMA LeftIs ==
  ASSUME NEW ids \in Seq(Slabs), NEW k \in Nat
  PROVE  /\ Left(ids, k) \in [Slabs -> Nat]
         /\ k >= Len(ids) => Left(ids, k) = Zero
         /\ k \in 1..Len(ids) =>
              /\ Left(ids, k - 1)[ids[k]] >= 1
              /\ Left(ids, k) = [Left(ids, k - 1) EXCEPT ![ids[k]] = @ - 1]
  <1> DEFINE S(s, j) == {i \in 1..Len(ids) : i > j /\ ids[i] = s}
  <1>1. Len(ids) \in Nat /\ \A s, j : IsFiniteSet(S(s, j)) /\ Cardinality(S(s, j)) \in Nat
    <2>1. Len(ids) \in Nat /\ Len(ids) \in Int /\ 1 \in Int
      OBVIOUS
    <2>2. IsFiniteSet(1..Len(ids))
      BY <2>1, FS_Interval
    <2>3. \A s, j : S(s, j) \subseteq 1..Len(ids)
      OBVIOUS
    <2> HIDE DEF S
    <2> QED  BY <2>1, <2>2, <2>3, FS_Subset, FS_CardinalityType
  <1>2. \A j : Left(ids, j) = [s \in Slabs |-> Cardinality(S(s, j))]
    BY DEF Left
  <1>3. k >= Len(ids) => Left(ids, k) = Zero
    <2> SUFFICES ASSUME k >= Len(ids)
                 PROVE  Left(ids, k) = Zero
      OBVIOUS
    <2>1. \A s \in Slabs : S(s, k) = {}
      BY <1>1
    <2>2. \A s \in Slabs : Cardinality(S(s, k)) = 0
      BY <2>1, FS_EmptySet
    <2> HIDE DEF S
    <2>3. Left(ids, k) = [s \in Slabs |-> Cardinality(S(s, k))]
      BY <1>2
    <2> QED  BY <2>2, <2>3 DEF Zero
  <1>4. ASSUME k \in 1..Len(ids)
        PROVE  /\ Left(ids, k - 1)[ids[k]] >= 1
               /\ Left(ids, k) = [Left(ids, k - 1) EXCEPT ![ids[k]] = @ - 1]
    <2>0. ids[k] \in Slabs
      BY <1>4
    <2>1. k \in S(ids[k], k - 1) /\ S(ids[k], k) = S(ids[k], k - 1) \ {k}
      BY <1>4
    <2>2. \A s \in Slabs : s # ids[k] => S(s, k) = S(s, k - 1)
      BY <1>4
    <2> HIDE DEF S
    <2>3. /\ Cardinality(S(ids[k], k)) = Cardinality(S(ids[k], k - 1)) - 1
          /\ Cardinality(S(ids[k], k - 1)) > 0
      BY <1>1, <2>1, Shrinks
    <2>4. Cardinality(S(ids[k], k - 1)) \in Nat
      BY <1>1
    <2> QED  BY <1>2, <2>0, <2>2, <2>3, <2>4
  <1>5. Left(ids, k) \in [Slabs -> Nat]
    <2> HIDE DEF S
    <2> QED  BY <1>1, <1>2
  <1> QED  BY <1>3, <1>4, <1>5

LEMMA DecrementsOk ==
  ASSUME NEW m, NEW ids \in Seq(Slabs), Ok(m, Left(ids, 0))
  PROVE  LET n == DecrementHeldRefcnts(m, ids)
         IN  Ok(n, Zero) /\ Frame(m, n)
  <1> DEFINE k == Len(ids)
             a == <<m, ids>>
             n == DecrLoop!After(a, m, k)
  <1>1. k \in Nat
    OBVIOUS
  <1>2. DecrementHeldRefcnts(m, ids) = n
    <2> HIDE DEF k
    <2> QED  BY DEF DecrementHeldRefcnts, DecrLoop!After, Iterate, DecrLoop!Iterate, DecrRound, k
  <1>3. DecrInv(a, m, 0)
    BY FrameSame DEF DecrInv
  <1>4. ASSUME NEW i \in 1..k, NEW x, DecrInv(a, x, i - 1)
        PROVE  DecrInv(a, DecrRound(a, x, i), i)
    <2> DEFINE e == Left(ids, i - 1)
               s == ids[i]
               y == DecrementHeldRefcnt(x, s, 1)
    <2>1. Ok(x, e) /\ Frame(m, x)
      BY <1>4 DEF DecrInv
    <2>2. s \in Slabs /\ i \in Nat
      OBVIOUS
    <2>3. 1 <= e[s] /\ Left(ids, i) = [e EXCEPT ![s] = @ - 1]
      <3>1. /\ Left(ids, i - 1)[ids[i]] >= 1
            /\ Left(ids, i) = [Left(ids, i - 1) EXCEPT ![ids[i]] = @ - 1]
        BY <2>2, LeftIs
      <3>2. e \in [Slabs -> Nat]
        BY <2>1 DEF Ok
      <3> HIDE DEF e
      <3>3. e[s] \in Nat
        BY <2>2, <3>2
      <3> QED  BY <3>1, <3>3 DEF e
    <2> HIDE DEF e, s
    <2>4. Ok(y, [e EXCEPT ![s] = @ - 1]) /\ Frame(x, y)
      <3>1. 1 \in Nat \ {0}
        OBVIOUS
      <3> QED  BY <2>1, <2>2, <2>3, <3>1, DecrementOk
    <2> HIDE DEF y
    <2>5. Frame(m, y)
      BY <2>1, <2>4, FrameThrough
    <2> QED  BY <2>3, <2>4, <2>5 DEF DecrInv, DecrRound, y, s
  <1> HIDE DEF k, a, n
  <1>5. DecrInv(a, n, k)
    BY <1>1, <1>3, <1>4, CountUp, DecrLoop!LoopInvariant DEF n, DecrLoop!CountsUp
  <1>6. Left(ids, k) = Zero
    <2>1. k >= Len(ids)
      BY <1>1 DEF k
    <2> QED  BY <1>1, <2>1, LeftIs
  <1> QED  BY <1>2, <1>5, <1>6 DEF DecrInv, a

\* DecrementConsSlabs, a loop over the segments xs that a client returns
First(xs, k) == {xs[i] : i \in 1..k}

PassRound(a, x, i) == T!DecrementConsSlab(x, a[2][i])
PassInv(a, x, k) ==
  /\ x = [t |-> x.t, errs |-> FALSE] /\ x.t \in TrackerState /\ Counts(x.t, a[4] \ First(a[3], k))
  /\ SameSizes(a[1], x.t) /\ x.t.prod = a[1].prod
PassLoop == INSTANCE LoopFacts WITH Step <- PassRound, Inv <- PassInv

LEMMA ReturnCounts ==
  ASSUME NEW t \in TrackerState, NEW H \in SUBSET Blocks, Counts(t, H),
         NEW xs \in Seq(H), IsInjective(xs),
         NEW ids, ids = [i \in 1..Len(xs) |-> SlabOf(xs[i])]
  PROVE  LET u == T!DecrementConsSlabs(t, ids)
         IN  /\ u \in TrackerState /\ Counts(u, H \ Range(xs)) /\ SameSizes(t, u) /\ u.prod = t.prod
             /\ ~T!DecrementErrs(t, ids)
  <1> DEFINE k == Len(xs)
             a == <<t, ids, xs, H>>
             start == [t |-> t, errs |-> FALSE]
             n == PassLoop!After(a, start, k)
  <1>1. k \in Nat /\ Len(ids) = k
    OBVIOUS
  <1>2. T!DecrementPass(t, ids) = n
    <2> HIDE DEF k
    <2>1. T!DecrementPass(t, ids) = T!Iterate(LAMBDA pass, i : T!DecrementConsSlab(pass, ids[i]), start, k)
      BY <1>1 DEF T!DecrementPass
    <2> QED  BY <2>1 DEF PassLoop!After, T!Iterate, PassLoop!Iterate, PassRound
  <1>3. PassInv(a, start, 0)
    <2>1. H \ First(xs, 0) = H
      BY DEF First
    <2> QED  BY <2>1 DEF PassInv, SameSizes
  <1>4. ASSUME NEW i \in 1..k, NEW x, PassInv(a, x, i - 1)
        PROVE  PassInv(a, PassRound(a, x, i), i)
    <2> DEFINE b == xs[i]
               G == H \ First(xs, i - 1)
               y == T!DecrementConsSlab([t |-> x.t, errs |-> FALSE], SlabOf(b))
    <2>1. /\ x = [t |-> x.t, errs |-> FALSE] /\ x.t \in TrackerState /\ Counts(x.t, G)
          /\ SameSizes(t, x.t) /\ x.t.prod = t.prod
      BY <1>4 DEF PassInv
    <2>2. b \in H /\ b \notin First(xs, i - 1)
      BY DEF First, IsInjective
    <2>3. H \ First(xs, i) = G \ {b}
      <3>1. First(xs, i) = First(xs, i - 1) \cup {b}
        <4>1. 1..i = (1..(i - 1)) \cup {i}
          OBVIOUS
        <4> QED  BY <4>1 DEF First
      <3> QED  BY <3>1
    <2>4. G \in SUBSET Blocks /\ b \in G
      BY <2>2
    <2>5. ids[i] = SlabOf(b)
      OBVIOUS
    <2>6. PassRound(a, x, i) = y
      BY <2>1, <2>5 DEF PassRound
    <2> HIDE DEF b, G
    <2>7. /\ y.t \in TrackerState /\ Counts(y.t, G \ {b}) /\ SameSizes(x.t, y.t)
          /\ y.t.prod = x.t.prod /\ y.errs = FALSE /\ y = [t |-> y.t, errs |-> FALSE]
      BY <2>1, <2>4, CountsDecrement
    <2> HIDE DEF y
    <2>8. SameSizes(t, y.t) /\ y.t.prod = t.prod
      BY <2>1, <2>7 DEF SameSizes
    <2> QED  BY <2>3, <2>6, <2>7, <2>8 DEF PassInv
  <1> HIDE DEF k, a, n, start
  <1>5. PassInv(a, n, k)
    BY <1>1, <1>3, <1>4, CountUp, PassLoop!LoopInvariant DEF n, PassLoop!CountsUp
  <1>6. /\ n = [t |-> n.t, errs |-> FALSE] /\ n.t \in TrackerState /\ Counts(n.t, H \ First(xs, k))
        /\ SameSizes(t, n.t) /\ n.t.prod = t.prod
    BY <1>5 DEF PassInv, a
  <1>7. ~n.errs
    BY <1>6
  <1>8. First(xs, k) = Range(xs)
    BY DEF First, Range, k
  <1>9. T!DecrementConsSlabs(t, ids) = n.t /\ ~T!DecrementErrs(t, ids)
    BY <1>2, <1>7, Zenon DEF T!DecrementConsSlabs, T!DecrementErrs
  <1> QED  BY <1>6, <1>8, <1>9

(***************************************************************************)
(* Returning too much: the second pass of DecrementConsSlabs undoes the    *)
(* first.                                                                  *)
(***************************************************************************)
\* a tracker whose counters may be out of step
LooseTracker ==
  [numProdSlabs : Asked, numConsSlabs : Asked,
   prodSlabsHeld : Nat, consSlabsHeld : Int,
   prod : SUBSET Slabs, cons : [Slabs -> 0..(UInt16Range - 1)]]

Below(v) == IF v = 0 THEN UInt16Range - 1 ELSE v - 1

LEMMA BelowIs ==
  ASSUME NEW v \in 0..(UInt16Range - 1)
  PROVE  /\ Below(v) \in 0..(UInt16Range - 1) /\ (v - 1) % UInt16Range = Below(v)
         /\ (Below(v) + 1) % UInt16Range = v
         /\ UInt16Range \in Nat /\ UInt16Range >= 2
  <1>1. UInt16Range \in Nat /\ UInt16Range >= 2
    BY ManagerAssumption
  <1>2. Below(v) \in 0..(UInt16Range - 1)
    BY <1>1 DEF Below
  <1>3. (v - 1) % UInt16Range = Below(v)
    BY <1>1 DEF Below
  <1>4. (Below(v) + 1) % UInt16Range = v
    BY <1>1 DEF Below
  <1> QED  BY <1>1, <1>2, <1>3, <1>4

\* a tracker with one refcount changed, as both passes change it
Retallied(t, u, s, v, held) ==
  /\ u \in LooseTracker /\ SameSizes(t, u) /\ u.prodSlabsHeld = t.prodSlabsHeld
  /\ u.prod = t.prod /\ u.cons = [t.cons EXCEPT ![s] = v] /\ u.consSlabsHeld = held

LEMMA Retally ==
  ASSUME NEW t \in LooseTracker, NEW s \in Slabs, NEW v \in 0..(UInt16Range - 1), NEW held \in Int
  PROVE  Retallied(t, [t EXCEPT !.cons = [t.cons EXCEPT ![s] = v], !.consSlabsHeld = held], s, v, held)
  <1>1. [t.cons EXCEPT ![s] = v] \in [Slabs -> 0..(UInt16Range - 1)]
    BY DEF LooseTracker
  <1> QED  BY <1>1 DEF LooseTracker, Retallied, SameSizes

\* what the first pass counts as an error
Wrong(e, v, held) == e \/ v = 0 \/ (Below(v) = 0 /\ held = 0)

LEMMA PassOne ==
  ASSUME NEW t \in LooseTracker, NEW e \in BOOLEAN, NEW s \in Slabs
  PROVE  LET p == T!DecrementConsSlab([t |-> t, errs |-> e], s)
             b == Below(t.cons[s])
         IN  /\ p = [t |-> p.t, errs |-> p.errs]
             /\ Retallied(t, p.t, s, b, IF b = 0 THEN t.consSlabsHeld - 1 ELSE t.consSlabsHeld)
             /\ p.errs = Wrong(e, t.cons[s], t.consSlabsHeld)
  <1> DEFINE p == T!DecrementConsSlab([t |-> t, errs |-> e], s)
             b == Below(t.cons[s])
             held == IF b = 0 THEN t.consSlabsHeld - 1 ELSE t.consSlabsHeld
             u == [t EXCEPT !.cons = [t.cons EXCEPT ![s] = b], !.consSlabsHeld = held]
             errs == e \/ t.cons[s] = 0 \/ (b = 0 /\ t.consSlabsHeld = 0)
  <1>1. /\ t.cons[s] \in 0..(UInt16Range - 1) /\ t.consSlabsHeld \in Int
        /\ t.cons \in [Slabs -> 0..(UInt16Range - 1)]
    BY DEF LooseTracker
  <1>2. b \in 0..(UInt16Range - 1) /\ (t.cons[s] - 1) % UInt16Range = b
    BY <1>1, BelowIs
  <1>7. Wrong(e, t.cons[s], t.consSlabsHeld) = errs
    BY DEF Wrong
  <1> HIDE DEF b
  <1>3. held \in Int
    BY <1>1
  <1>4. p = [t |-> u, errs |-> errs]
    <2>1. p.t = u
      BY <1>1, <1>2 DEF T!DecrementConsSlab, LooseTracker
    <2>2. p.errs = errs
      BY <1>2, Zenon DEF T!DecrementConsSlab
    <2> QED  BY <2>1, <2>2 DEF T!DecrementConsSlab
  <1> HIDE DEF held
  <1>5. Retallied(t, u, s, b, held)
    BY <1>2, <1>3, Retally
  <1> HIDE DEF u, errs, p
  <1>6. p.t = u /\ p.errs = errs
    BY <1>4
  <1> QED  BY <1>4, <1>5, <1>6, <1>7 DEF p, b, held

LEMMA UndoOne ==
  ASSUME NEW t \in LooseTracker, NEW s \in Slabs, NEW v \in 0..(UInt16Range - 1), t.cons[s] = Below(v)
  PROVE  Retallied(t, T!UndoDecrement(t, s), s, v,
                   IF Below(v) = 0 THEN t.consSlabsHeld + 1 ELSE t.consSlabsHeld)
  <1> DEFINE held == IF Below(v) = 0 THEN t.consSlabsHeld + 1 ELSE t.consSlabsHeld
             u == [t EXCEPT !.cons = [t.cons EXCEPT ![s] = v], !.consSlabsHeld = held]
  <1>1. t.cons \in [Slabs -> 0..(UInt16Range - 1)] /\ t.consSlabsHeld \in Int
    BY DEF LooseTracker
  <1>2. (t.cons[s] + 1) % UInt16Range = v
    BY BelowIs
  <1>3. T!UndoDecrement(t, s) = u
    BY <1>1, <1>2 DEF T!UndoDecrement, LooseTracker
  <1>4. held \in Int
    BY <1>1
  <1> HIDE DEF held
  <1>5. Retallied(t, u, s, v, held)
    BY <1>4, Retally
  <1> HIDE DEF u
  <1> QED  BY <1>3, <1>5 DEF held

\* DecrementConsSlabs' second pass, a loop
UndoRound(a, x, i) == T!UndoDecrement(x, a[i])
UndoLoop == INSTANCE LoopFacts WITH Step <- UndoRound, Inv <- PassInv

\* Two rounds of each pass
LEMMA Passes ==
  ASSUME NEW t, NEW ids, Len(ids) = 2
  PROVE  LET p == T!DecrementConsSlab([t |-> t, errs |-> FALSE], ids[1])
             q == T!DecrementConsSlab(p, ids[2])
         IN  /\ T!DecrementErrs(t, ids) = q.errs
             /\ q.errs => T!DecrementConsSlabs(t, ids)
                            = T!UndoDecrement(T!UndoDecrement(q.t, ids[1]), ids[2])
  <1> DEFINE start == [t |-> t, errs |-> FALSE]
             p == T!DecrementConsSlab(start, ids[1])
             q == T!DecrementConsSlab(p, ids[2])
  <1>1. T!DecrementPass(t, ids) = q
    <2>1. T!DecrementPass(t, ids) = PassLoop!After(<<t, ids>>, start, 2)
      BY DEF T!DecrementPass, PassLoop!After, T!Iterate, PassLoop!Iterate, PassRound
    <2>2. PassLoop!After(<<t, ids>>, start, 2)
            = PassRound(<<t, ids>>, PassRound(<<t, ids>>, start, 1), 2)
      <3>1. PassLoop!CountsUp(2)
        BY CountUp DEF PassLoop!CountsUp
      <3> QED  BY <3>1, PassLoop!Twice
    <2> QED  BY <2>1, <2>2 DEF PassRound
  <1> HIDE DEF q
  <1>2. ASSUME q.errs
        PROVE  T!DecrementConsSlabs(t, ids) = T!UndoDecrement(T!UndoDecrement(q.t, ids[1]), ids[2])
    <2>1. T!DecrementConsSlabs(t, ids) = T!Iterate(LAMBDA u, i : T!UndoDecrement(u, ids[i]), q.t, 2)
      BY <1>1, <1>2 DEF T!DecrementConsSlabs
    <2>2. T!DecrementConsSlabs(t, ids) = UndoLoop!After(ids, q.t, 2)
      BY <2>1 DEF UndoLoop!After, T!Iterate, UndoLoop!Iterate, UndoRound
    <2>3. UndoLoop!After(ids, q.t, 2) = UndoRound(ids, UndoRound(ids, q.t, 1), 2)
      <3>1. UndoLoop!CountsUp(2)
        BY CountUp DEF UndoLoop!CountsUp
      <3> QED  BY <3>1, UndoLoop!Twice
    <2> QED  BY <2>2, <2>3 DEF UndoRound
  <1> QED  BY <1>1, <1>2 DEF T!DecrementErrs, q

\* What the tracker counts
LEMMA TwoRefused ==
  ASSUME NEW t \in TrackerState, NEW H \in SUBSET Blocks, Counts(t, H), NEW ids \in [1..2 -> Slabs]
  PROVE  LET over == \E s \in ToSet(ids) : Cardinality({i \in 1..Len(ids) : ids[i] = s}) > t.cons[s]
         IN  /\ T!DecrementErrs(t, ids) <=> over
             /\ over => T!DecrementConsSlabs(t, ids) = t
  <1> DEFINE r == ids[1]
             s == ids[2]
             c == t.cons[r]
             d == t.cons[s]
             over == \E x \in ToSet(ids) : Cardinality({i \in 1..Len(ids) : ids[i] = x}) > t.cons[x]
             less == IF r = s THEN c < 2 ELSE c = 0 \/ d = 0
  <1>1. /\ r \in Slabs /\ s \in Slabs /\ ids \in Seq(Slabs) /\ Len(ids) = 2
        /\ t.cons \in [Slabs -> Nat] /\ c \in Nat /\ d \in Nat /\ t.consSlabsHeld \in Nat
    <2>1. r \in Slabs /\ s \in Slabs
      OBVIOUS
    <2>2. ids \in Seq(Slabs) /\ Len(ids) = 2
      <3>1. 2 \in Nat /\ ids \in [1..2 -> Slabs]
        OBVIOUS
      <3> HIDE DEF r, s
      <3> QED  BY ONLY <3>1, FunctionList
    <2> HIDE DEF r, s
    <2>4. t.cons \in [Slabs -> Nat] /\ t.consSlabsHeld \in Nat
      BY TrackerFields
    <2> QED  BY <2>1, <2>2, <2>4
  <1>2. over <=> less
    <2>1. ToSet(ids) = {r, s}
      BY <1>1 DEF ToSet
    <2>2. /\ r = s => {i \in 1..Len(ids) : ids[i] = r} = {1, 2}
          /\ r # s => {i \in 1..Len(ids) : ids[i] = r} = {1} /\ {i \in 1..Len(ids) : ids[i] = s} = {2}
      BY <1>1
    <2>3. Cardinality({1, 2}) = 2 /\ Cardinality({1}) = 1 /\ Cardinality({2}) = 1
      <3>1. IsFiniteSet({1}) /\ Cardinality({1}) = 1 /\ Cardinality({2}) = 1
        BY FS_Singleton
      <3>2. {1, 2} = {1} \cup {2} /\ 2 \notin {1}
        OBVIOUS
      <3>3. Cardinality({1} \cup {2}) = 1 + 1
        BY <3>1, <3>2, Grows
      <3> QED  BY <3>1, <3>2, <3>3
    <2> DEFINE count(x) == Cardinality({i \in 1..Len(ids) : ids[i] = x})
    <2>4. /\ r = s => count(r) = 2
          /\ r # s => count(r) = 1 /\ count(s) = 1
      BY <2>2, <2>3
    <2>5. over <=> \E x \in {r, s} : count(x) > t.cons[x]
      BY <2>1
    <2> HIDE DEF count, over
    <2>6. over <=> count(r) > c \/ count(s) > d
      BY <2>5
    <2> QED  BY <1>1, <2>4, <2>6
  <1> HIDE DEF over
  <1>3. /\ t \in LooseTracker
        /\ c > 0 => t.consSlabsHeld >= 1
        /\ c > 0 /\ d > 0 /\ r # s => t.consSlabsHeld >= 2
    <2> DEFINE A == {x \in Slabs : t.cons[x] > 0}
    <2>1. t.consSlabsHeld = Cardinality(A)
      BY DEF Counts
    <2>2. IsFiniteSet(A)
      BY Finite, FS_Subset
    <2>3. \A x \in Slabs : t.cons[x] \in 0..(UInt16Range - 1)
      <3> SUFFICES ASSUME NEW x \in Slabs
                   PROVE  t.cons[x] \in 0..(UInt16Range - 1)
        OBVIOUS
      <3>1. t.cons[x] = Cardinality(In(H, x))
        BY DEF Counts
      <3> QED  BY <3>1, InSlab, ManagerAssumption
    <2>4. t \in LooseTracker
      <3>1. t.cons \in [Slabs -> 0..(UInt16Range - 1)]
        BY <1>1, <2>3
      <3> QED  BY <3>1 DEF TrackerState, LooseTracker
    <2>5. c > 0 => r \in A
      BY <1>1
    <2>6. d > 0 => s \in A
      BY <1>1
    <2> HIDE DEF A
    <2>7. c > 0 => Cardinality(A) >= 1 /\ IsFiniteSet(A \ {r}) /\ Cardinality(A \ {r}) = Cardinality(A) - 1
      BY <2>2, <2>5, Shrinks
    <2>8. c > 0 /\ d > 0 /\ r # s => Cardinality(A \ {r}) > 0
      BY <2>6, <2>7, Shrinks
    <2> QED  BY <1>1, <2>1, <2>4, <2>7, <2>8
  <1> DEFINE p == T!DecrementConsSlab([t |-> t, errs |-> FALSE], r)
             q == T!DecrementConsSlab(p, s)
             b == Below(c)
             w == p.t.cons[s]
             g == Below(w)
             held == IF b = 0 THEN t.consSlabsHeld - 1 ELSE t.consSlabsHeld
             left == IF g = 0 THEN held - 1 ELSE held
  <1>4. /\ p = [t |-> p.t, errs |-> p.errs] /\ Retallied(t, p.t, r, b, held)
        /\ p.errs = Wrong(FALSE, c, t.consSlabsHeld)
    <2> HIDE DEF r, p, held
    <2>1. LET x == T!DecrementConsSlab([t |-> t, errs |-> FALSE], r)
              y == Below(t.cons[r])
          IN  /\ x = [t |-> x.t, errs |-> x.errs]
              /\ Retallied(t, x.t, r, y, IF y = 0 THEN t.consSlabsHeld - 1 ELSE t.consSlabsHeld)
              /\ x.errs = Wrong(FALSE, t.cons[r], t.consSlabsHeld)
      BY <1>1, <1>3, PassOne
    <2> QED  BY <2>1 DEF p, held
  <1> HIDE DEF p
  <1>5. p.t \in LooseTracker /\ p.t.consSlabsHeld = held /\ p.errs \in BOOLEAN
    <2>1. Wrong(FALSE, c, t.consSlabsHeld) \in BOOLEAN
      BY DEF Wrong
    <2> HIDE DEF held, b
    <2> QED  BY <1>4, <2>1 DEF Retallied
  <1>6. /\ Retallied(p.t, q.t, s, g, left)
        /\ q.errs = Wrong(p.errs, w, held)
    <2>1. q = T!DecrementConsSlab([t |-> p.t, errs |-> p.errs], s)
      BY <1>4
    <2> HIDE DEF q, held, s
    <2>2. LET x == T!DecrementConsSlab([t |-> p.t, errs |-> p.errs], s)
              y == Below(p.t.cons[s])
          IN  /\ Retallied(p.t, x.t, s, y, IF y = 0 THEN p.t.consSlabsHeld - 1 ELSE p.t.consSlabsHeld)
              /\ x.errs = Wrong(p.errs, p.t.cons[s], p.t.consSlabsHeld)
      BY <1>1, <1>5, PassOne
    <2> QED  BY <1>5, <2>1, <2>2
  <1>7. /\ w = IF r = s THEN b ELSE d
        /\ c \in 0..(UInt16Range - 1) /\ d \in 0..(UInt16Range - 1)
    BY <1>1, <1>3, <1>4 DEF Retallied, LooseTracker
  <1>8. /\ b \in 0..(UInt16Range - 1) /\ w \in 0..(UInt16Range - 1) /\ g \in 0..(UInt16Range - 1)
        /\ UInt16Range \in Nat /\ UInt16Range >= 2
    <2> HIDE DEF w
    <2> QED  BY <1>7, BelowIs
  <1> HIDE DEF q, w
  <1>9. q.errs <=> less
    <2>1. b = (IF c = 0 THEN UInt16Range - 1 ELSE c - 1) /\ g = (IF w = 0 THEN UInt16Range - 1 ELSE w - 1)
      BY DEF Below
    <2> HIDE DEF b, g, r, s
    <2>2. p.errs <=> c = 0
      <3>1. Wrong(FALSE, c, t.consSlabsHeld) <=> c = 0 \/ (b = 0 /\ t.consSlabsHeld = 0)
        BY DEF Wrong, b
      <3>2. c # 0 => ~(b = 0 /\ t.consSlabsHeld = 0)
        BY <1>1, <1>3
      <3> QED  BY <1>4, <3>1, <3>2
    <2>6. q.errs <=> c = 0 \/ w = 0 \/ (g = 0 /\ held = 0)
      <3>1. Wrong(p.errs, w, held) <=> p.errs \/ w = 0 \/ (g = 0 /\ held = 0)
        BY DEF Wrong, g
      <3> QED  BY <1>6, <2>2, <3>1
    <2>3. CASE c = 0
      BY <1>1, <2>3, <2>6
    <2>4. CASE c > 0 /\ r = s
      BY <1>1, <1>3, <1>7, <1>8, <2>1, <2>4, <2>6
    <2>5. CASE c > 0 /\ r # s
      BY <1>1, <1>3, <1>7, <1>8, <2>1, <2>5, <2>6
    <2> QED  BY <1>1, <2>3, <2>4, <2>5
  <1> DEFINE j == T!UndoDecrement(q.t, r)
             k == T!UndoDecrement(j, s)
  <1>10. k = t
    <2>1. /\ q.t \in LooseTracker /\ SameSizes(t, q.t) /\ q.t.prodSlabsHeld = t.prodSlabsHeld
          /\ q.t.prod = t.prod /\ q.t.cons = [[t.cons EXCEPT ![r] = b] EXCEPT ![s] = g]
          /\ q.t.consSlabsHeld = left
      BY <1>4, <1>6 DEF Retallied, SameSizes
    <2> DEFINE z == IF r = s THEN w ELSE c
               lift == IF Below(z) = 0 THEN left + 1 ELSE left
               y == IF r = s THEN c ELSE d
               high == IF Below(y) = 0 THEN lift + 1 ELSE lift
    <2>2. z \in 0..(UInt16Range - 1) /\ q.t.cons[r] = Below(z)
      BY <1>1, <1>3, <1>7, <1>8, <2>1 DEF LooseTracker
    <2>3. Retallied(q.t, j, r, z, lift)
      <3> HIDE DEF z, j, left
      <3>1. Retallied(q.t, T!UndoDecrement(q.t, r), r, z,
                      IF Below(z) = 0 THEN q.t.consSlabsHeld + 1 ELSE q.t.consSlabsHeld)
        BY <1>1, <2>1, <2>2, UndoOne
      <3> QED  BY <2>1, <3>1 DEF j
    <2> HIDE DEF j
    <2>4. y \in 0..(UInt16Range - 1) /\ j.cons[s] = Below(y)
      BY <1>1, <1>3, <1>7, <1>8, <2>1, <2>3 DEF LooseTracker, Retallied
    <2>5. j \in LooseTracker /\ j.consSlabsHeld = lift
      BY <2>3 DEF Retallied
    <2>6. Retallied(j, k, s, y, high)
      <3> HIDE DEF y, k, lift
      <3>1. Retallied(j, T!UndoDecrement(j, s), s, y,
                      IF Below(y) = 0 THEN j.consSlabsHeld + 1 ELSE j.consSlabsHeld)
        BY <1>1, <2>4, <2>5, UndoOne
      <3> QED  BY <2>5, <3>1 DEF k
    <2> HIDE DEF k
    <2>7. k.cons = t.cons
      <3>1. k.cons = [[[[t.cons EXCEPT ![r] = b] EXCEPT ![s] = g] EXCEPT ![r] = z] EXCEPT ![s] = y]
        BY <2>1, <2>3, <2>6 DEF Retallied
      <3>2. r = s => y = t.cons[s] /\ y = t.cons[r]
        OBVIOUS
      <3>3. r # s => y = t.cons[s] /\ z = t.cons[r]
        OBVIOUS
      <3> HIDE DEF y, z, b, g
      <3> QED  BY <1>1, <3>1, <3>2, <3>3
    <2>8. high = t.consSlabsHeld
      <3>1. r = s => Below(z) = g /\ Below(y) = b
        OBVIOUS
      <3>2. r # s => Below(z) = b /\ Below(y) = g
        BY <1>7
      <3> HIDE DEF y, z, b, g
      <3> QED  BY <1>1, <3>1, <3>2
    <2>9. /\ k \in LooseTracker /\ SameSizes(t, k) /\ k.prodSlabsHeld = t.prodSlabsHeld
          /\ k.prod = t.prod /\ k.consSlabsHeld = t.consSlabsHeld
      BY <2>1, <2>3, <2>6, <2>8 DEF Retallied, SameSizes
    <2> QED  BY <1>3, <2>7, <2>9 DEF LooseTracker, SameSizes
  <1> HIDE DEF less, k
  <1>11. /\ T!DecrementErrs(t, ids) = q.errs
         /\ q.errs => T!DecrementConsSlabs(t, ids) = k
    BY <1>1, Passes DEF k, j, q, p
  <1> QED  BY <1>2, <1>9, <1>10, <1>11 DEF over

-----------------------------------------------------------------------------
(***************************************************************************)
(* The destructor of a proxy.                                              *)
(***************************************************************************)
\* ReleaseQueue, a loop
DrainRound(a, x, i) == PopFront(x, a[2])
DrainInv(a, x, k) ==
  /\ Ok(x, a[3]) /\ Unqueued(a[1], x, a[2])
  /\ Len(x.px[a[2]].wantedQueue) = Len(a[1].px[a[2]].wantedQueue) - k
DrainLoop == INSTANCE LoopFacts WITH Step <- DrainRound, Inv <- DrainInv

LEMMA UnqueuedThrough ==
  ASSUME NEW k, NEW m, NEW n, NEW c \in Clients, Unqueued(k, m, c), Unqueued(m, n, c)
  PROVE  Unqueued(k, n, c)
  <1>1. Others(k, n, c) /\ Kept(k, n)
    BY OthersThrough, KeptThrough DEF Unqueued
  <1> QED  BY <1>1 DEF Unqueued, SameButQueue

LEMMA ReleaseQueueOk ==
  ASSUME NEW m, NEW e, Ok(m, e), NEW c \in Clients
  PROVE  LET n == ReleaseQueue(m, c)
         IN  Ok(n, e) /\ Unqueued(m, n, c) /\ n.px[c].wantedQueue = <<>>
  <1> DEFINE k == Len(m.px[c].wantedQueue)
             a == <<m, c, e>>
             n == DrainLoop!After(a, m, k)
  <1>1. k \in Nat
    BY OkClient
  <1>2. ReleaseQueue(m, c) = n
    <2> HIDE DEF k
    <2> QED  BY DEF ReleaseQueue, DrainLoop!After, Iterate, DrainLoop!Iterate, DrainRound, k
  <1>3. DrainInv(a, m, 0)
    <2>1. Others(m, m, c) /\ Kept(m, m)
      BY FrameSame
    <2>2. Unqueued(m, m, c)
      BY <2>1 DEF Unqueued, SameButQueue
    <2>3. Len(m.px[c].wantedQueue) = Len(m.px[c].wantedQueue) - 0
      BY <1>1
    <2> QED  BY <2>2, <2>3 DEF DrainInv
  <1>4. ASSUME NEW i \in 1..k, NEW x, DrainInv(a, x, i - 1)
        PROVE  DrainInv(a, DrainRound(a, x, i), i)
    <2> DEFINE y == PopFront(x, c)
               q == x.px[c].wantedQueue
    <2>1. Ok(x, e) /\ Unqueued(m, x, c) /\ Len(q) = k - (i - 1)
      BY <1>4 DEF DrainInv
    <2>2. q \in Seq(Blocks)
      BY <2>1, OkClient
    <2>3. q # <<>> /\ Len(Tail(q)) = k - i
      <3>1. Len(q) > 0
        BY <1>1, <2>1
      <3> HIDE DEF q, k
      <3> QED  BY <1>1, <2>1, <2>2, <3>1
    <2>4. Ok(y, e) /\ Unqueued(x, y, c) /\ y.px[c].wantedQueue = Tail(q)
      BY <2>1, <2>3, PopFrontOk
    <2> HIDE DEF y
    <2>5. Unqueued(m, y, c)
      BY <2>1, <2>4, UnqueuedThrough
    <2> QED  BY <2>3, <2>4, <2>5 DEF DrainInv, DrainRound, y
  <1> HIDE DEF k, a, n
  <1>5. DrainInv(a, n, k)
    BY <1>1, <1>3, <1>4, CountUp, DrainLoop!LoopInvariant DEF n, DrainLoop!CountsUp
  <1>6. Ok(n, e) /\ Unqueued(m, n, c) /\ Len(n.px[c].wantedQueue) = k - k
    BY <1>5 DEF DrainInv, a, k
  <1>7. n.px[c].wantedQueue = <<>>
    <2>1. n.px[c].wantedQueue \in Seq(Blocks)
      BY <1>6, OkClient
    <2> QED  BY <1>1, <1>6, <2>1
  <1> QED  BY <1>2, <1>6, <1>7

\* ReleaseSlabs, two loops over the slabs: what is left to give back after k of them
ProdLeft(t, k) == [s \in Slabs |-> (IF s \in t.prod /\ s >= k THEN 1 ELSE 0) + t.cons[s]]
ConsLeft(t, k) == [s \in Slabs |-> IF s >= k THEN t.cons[s] ELSE 0]

UnprodRound(a, x, i) == IF i - 1 \in a[2].prod THEN DecrementHeldRefcnt(x, i - 1, 1) ELSE x
UnprodInv(a, x, k) == Ok(x, ProdLeft(a[2], k)) /\ Frame(a[1], x)
UnprodLoop == INSTANCE LoopFacts WITH Step <- UnprodRound, Inv <- UnprodInv

UnconsRound(a, x, i) ==
  IF a[2].cons[i - 1] > 0 THEN DecrementHeldRefcnt(x, i - 1, a[2].cons[i - 1]) ELSE x
UnconsInv(a, x, k) == Ok(x, ConsLeft(a[2], k)) /\ Frame(a[1], x)
UnconsLoop == INSTANCE LoopFacts WITH Step <- UnconsRound, Inv <- UnconsInv

LEMMA SlabNumbers ==
  /\ TotalNumSlabs \in Nat /\ \A s \in Slabs : s \in Nat /\ s < TotalNumSlabs
  /\ \A i \in 1..TotalNumSlabs : i - 1 \in Slabs
  <1>1. TotalNumSlabs \in Nat
    <2>1. SlabsPerBuf * MaxBuffers \in Nat
      BY SlabsAssumption
    <2> QED  BY <2>1 DEF TotalNumSlabs
  <1> QED  BY <1>1 DEF Slabs

LEMMA ReleaseProdOk ==
  ASSUME NEW m, NEW t \in TrackerState, Ok(m, ProdLeft(t, 0))
  PROVE  LET n == UnprodLoop!After(<<m, t>>, m, TotalNumSlabs)
         IN  Ok(n, ProdLeft(t, TotalNumSlabs)) /\ Frame(m, n)
  <1> DEFINE k == TotalNumSlabs
             a == <<m, t>>
             n == UnprodLoop!After(a, m, k)
  <1>1. k \in Nat /\ t.cons \in [Slabs -> Nat]
    BY SlabNumbers, TrackerFields
  <1>2. UnprodInv(a, m, 0)
    BY FrameSame DEF UnprodInv
  <1>3. ASSUME NEW i \in 1..k, NEW x, UnprodInv(a, x, i - 1)
        PROVE  UnprodInv(a, UnprodRound(a, x, i), i)
    <2> DEFINE e == ProdLeft(t, i - 1)
               s == i - 1
               y == DecrementHeldRefcnt(x, s, 1)
    <2>1. Ok(x, e) /\ Frame(m, x)
      BY <1>3 DEF UnprodInv
    <2>2. s \in Slabs /\ \A r \in Slabs : r \in Nat /\ t.cons[r] \in Nat
      BY <1>1, SlabNumbers
    <2>3. CASE s \in t.prod
      <3>1. 1 <= e[s] /\ ProdLeft(t, i) = [e EXCEPT ![s] = @ - 1]
        <4>1. e \in [Slabs -> Nat]
          BY <2>2 DEF ProdLeft
        <4>2. e[s] = 1 + t.cons[s]
          BY <2>2, <2>3 DEF ProdLeft
        <4>3. \A r \in Slabs : ProdLeft(t, i)[r] = [e EXCEPT ![s] = @ - 1][r]
          BY <2>2, <2>3 DEF ProdLeft
        <4>4. ProdLeft(t, i) \in [Slabs -> Nat] /\ [e EXCEPT ![s] = @ - 1] \in [Slabs -> Int]
          BY <2>2, <4>1 DEF ProdLeft
        <4>5. 1 <= e[s]
          BY <2>2, <4>2
        <4> HIDE DEF e, s
        <4>6. DOMAIN ProdLeft(t, i) = Slabs /\ ProdLeft(t, i) = [r \in Slabs |-> ProdLeft(t, i)[r]]
          BY <4>4
        <4> QED  BY <4>1, <4>3, <4>5, <4>6
      <3>2. 1 \in Nat \ {0}
        OBVIOUS
      <3> HIDE DEF e, s
      <3>3. Ok(y, [e EXCEPT ![s] = @ - 1]) /\ Frame(x, y)
        BY <2>1, <2>2, <3>1, <3>2, DecrementOk
      <3>4. UnprodRound(a, x, i) = y
        BY <2>3 DEF UnprodRound, s
      <3> HIDE DEF y
      <3>5. Frame(m, y)
        BY <2>1, <3>3, FrameThrough
      <3> QED  BY <3>1, <3>3, <3>4, <3>5 DEF UnprodInv
    <2>4. CASE s \notin t.prod
      <3>1. ProdLeft(t, i) = e
        BY <2>2, <2>4 DEF ProdLeft
      <3>2. UnprodRound(a, x, i) = x
        BY <2>4 DEF UnprodRound
      <3> QED  BY <2>1, <3>1, <3>2 DEF UnprodInv
    <2> QED  BY <2>3, <2>4
  <1> HIDE DEF k, a, n
  <1>4. UnprodInv(a, n, k)
    BY <1>1, <1>2, <1>3, CountUp, UnprodLoop!LoopInvariant DEF n, UnprodLoop!CountsUp
  <1> QED  BY <1>4 DEF UnprodInv, a, n, k

LEMMA ReleaseConsOk ==
  ASSUME NEW m, NEW t \in TrackerState, Ok(m, ConsLeft(t, 0))
  PROVE  LET n == UnconsLoop!After(<<m, t>>, m, TotalNumSlabs)
         IN  Ok(n, ConsLeft(t, TotalNumSlabs)) /\ Frame(m, n)
  <1> DEFINE k == TotalNumSlabs
             a == <<m, t>>
             n == UnconsLoop!After(a, m, k)
  <1>1. k \in Nat /\ t.cons \in [Slabs -> Nat]
    BY SlabNumbers, TrackerFields
  <1>2. UnconsInv(a, m, 0)
    BY FrameSame DEF UnconsInv
  <1>3. ASSUME NEW i \in 1..k, NEW x, UnconsInv(a, x, i - 1)
        PROVE  UnconsInv(a, UnconsRound(a, x, i), i)
    <2> DEFINE e == ConsLeft(t, i - 1)
               s == i - 1
               b == t.cons[s]
               y == DecrementHeldRefcnt(x, s, b)
    <2>1. Ok(x, e) /\ Frame(m, x)
      BY <1>3 DEF UnconsInv
    <2>2. s \in Slabs /\ b \in Nat /\ \A r \in Slabs : r \in Nat /\ t.cons[r] \in Nat
      BY <1>1, SlabNumbers
    <2>3. CASE b > 0
      <3>1. b \in Nat \ {0} /\ b <= e[s] /\ ConsLeft(t, i) = [e EXCEPT ![s] = @ - b]
        <4>1. e \in [Slabs -> Nat]
          BY <2>2 DEF ConsLeft
        <4>2. e[s] = b
          BY <2>2 DEF ConsLeft
        <4>3. \A r \in Slabs : ConsLeft(t, i)[r] = [e EXCEPT ![s] = @ - b][r]
          BY <2>2 DEF ConsLeft
        <4>4. ConsLeft(t, i) \in [Slabs -> Nat]
          BY <2>2 DEF ConsLeft
        <4>5. b \in Nat \ {0} /\ b <= e[s]
          BY <2>2, <2>3, <4>2
        <4> HIDE DEF e, s, b
        <4>6. DOMAIN ConsLeft(t, i) = Slabs /\ ConsLeft(t, i) = [r \in Slabs |-> ConsLeft(t, i)[r]]
          BY <4>4
        <4> QED  BY <4>1, <4>3, <4>5, <4>6
      <3> HIDE DEF e, s, b
      <3>3. Ok(y, [e EXCEPT ![s] = @ - b]) /\ Frame(x, y)
        BY <2>1, <2>2, <3>1, DecrementOk
      <3>4. UnconsRound(a, x, i) = y
        BY <2>3 DEF UnconsRound, s, b
      <3> HIDE DEF y
      <3>5. Frame(m, y)
        BY <2>1, <3>3, FrameThrough
      <3> QED  BY <3>1, <3>3, <3>4, <3>5 DEF UnconsInv
    <2>4. CASE ~(b > 0)
      <3>1. ConsLeft(t, i) = e
        <4>1. t.cons[s] = 0
          BY <2>2, <2>4
        <4> QED  BY <2>2, <4>1 DEF ConsLeft
      <3>2. UnconsRound(a, x, i) = x
        BY <2>4 DEF UnconsRound
      <3> QED  BY <2>1, <3>1, <3>2 DEF UnconsInv
    <2> QED  BY <2>3, <2>4
  <1> HIDE DEF k, a, n
  <1>4. UnconsInv(a, n, k)
    BY <1>1, <1>2, <1>3, CountUp, UnconsLoop!LoopInvariant DEF n, UnconsLoop!CountsUp
  <1> QED  BY <1>4 DEF UnconsInv, a, n, k

LEMMA ReleaseSlabsOk ==
  ASSUME NEW m, NEW t \in TrackerState, Ok(m, ProdLeft(t, 0))
  PROVE  LET n == ReleaseSlabs(m, t)
         IN  Ok(n, Zero) /\ Frame(m, n)
  <1> DEFINE k == UnprodLoop!After(<<m, t>>, m, TotalNumSlabs)
             n == UnconsLoop!After(<<k, t>>, k, TotalNumSlabs)
  <1>1. ReleaseSlabs(m, t) = n
    BY DEF ReleaseSlabs, UnprodLoop!After, UnconsLoop!After, Iterate, UnprodLoop!Iterate,
           UnconsLoop!Iterate, UnprodRound, UnconsRound
  <1>2. Ok(k, ProdLeft(t, TotalNumSlabs)) /\ Frame(m, k)
    BY ReleaseProdOk
  <1>3. /\ ProdLeft(t, TotalNumSlabs) = ConsLeft(t, 0)
        /\ ConsLeft(t, TotalNumSlabs) = Zero
    <2>1. \A s \in Slabs : s \in Nat /\ s < TotalNumSlabs /\ t.cons[s] \in Nat
      BY SlabNumbers, TrackerFields
    <2>2. TotalNumSlabs \in Nat
      BY SlabNumbers
    <2>3. \A s \in Slabs : ~(s >= TotalNumSlabs) /\ s >= 0 /\ 0 + t.cons[s] = t.cons[s]
      BY <2>1, <2>2
    <2> QED  BY <2>3 DEF ProdLeft, ConsLeft, Zero
  <1> HIDE DEF k
  <1>4. Ok(n, Zero) /\ Frame(k, n)
    BY <1>2, <1>3, ReleaseConsOk
  <1> HIDE DEF n
  <1> QED  BY <1>1, <1>2, <1>4, FrameThrough

\* A proxy that is not there counts nothing.
LEMMA NewProxyIs ==
  /\ NewProxy \in ProxyState /\ Absent("gone") \in ProxyState /\ Absent("new") \in ProxyState
  /\ \A p \in {NewProxy, Absent("gone"), Absent("new")} :
       /\ p.slabs = T!NewTracker /\ p.holding = {} /\ Bare(p)
       /\ p.slabs.prod = {} /\ p.owed = {} /\ ~p.lost /\ p.inOrder /\ ~p.needReport /\ ~p.throttle
       /\ p.nice = 0
  /\ Counts(T!NewTracker, {})
  /\ NewProxy.state = "up" /\ Absent("gone").state = "gone" /\ Absent("new").state = "new"
  <1>1. 0 \in Asked
    BY SlabsAssumption DEF Asked
  <1>2. T!NewTracker \in TrackerState
    BY <1>1 DEF T!NewTracker, TrackerState
  <1>3. /\ T!NewTracker.prod = {} /\ \A s \in Slabs : T!NewTracker.cons[s] = 0
        /\ T!NewTracker.numProdSlabs = 0 /\ T!NewTracker.numConsSlabs = 0
    BY DEF T!NewTracker
  <1>4. Counts(T!NewTracker, {})
    <2>1. {s \in Slabs : T!NewTracker.cons[s] > 0} = {}
      BY <1>3
    <2>2. Cardinality({}) = 0 /\ \A s : In({}, s) = {}
      BY FS_EmptySet DEF In
    <2>3. /\ T!NewTracker.prodSlabsHeld = 0 /\ T!NewTracker.consSlabsHeld = 0
          /\ T!NewTracker.numConsSlabs = 0
      BY DEF T!NewTracker
    <2> DEFINE t == T!NewTracker
    <2>4. /\ t.prod = {} /\ t.prodSlabsHeld = 0 /\ t.consSlabsHeld = 0 /\ t.numConsSlabs = 0
          /\ {s \in Slabs : t.cons[s] > 0} = {} /\ \A s \in Slabs : t.cons[s] = 0
      BY <1>3, <2>1, <2>3
    <2> HIDE DEF t
    <2>5. Counts(t, {})
      BY <2>2, <2>4 DEF Counts
    <2> QED  BY <2>5 DEF t
  <1>5. /\ NewProxy \in ProxyState /\ NewProxy.slabs = T!NewTracker /\ NewProxy.holding = {}
        /\ NewProxy.wantedQueue = <<>> /\ NewProxy.state = "up" /\ NewProxy.owed = {} /\ ~NewProxy.lost
        /\ NewProxy.inOrder /\ ~NewProxy.needReport /\ ~NewProxy.throttle /\ NewProxy.nice = 0
    BY <1>2 DEF NewProxy, ProxyState
  <1>6. ASSUME NEW st \in {"gone", "new"}
        PROVE  LET p == Absent(st)
               IN  /\ p \in ProxyState /\ p.slabs = T!NewTracker /\ p.holding = {}
                   /\ p.wantedQueue = <<>> /\ p.state = st /\ p.owed = {} /\ ~p.lost
                   /\ p.inOrder /\ ~p.needReport /\ ~p.throttle /\ p.nice = 0
    <2> HIDE DEF NewProxy
    <2> QED  BY <1>5 DEF Absent, ProxyState
  <1> HIDE DEF NewProxy, Absent
  <1> QED  BY <1>3, <1>4, <1>5, <1>6 DEF Bare

(***************************************************************************)
(* What the clients have reserved, when one of them reserves or releases.  *)
(***************************************************************************)
Size(m, c) == m.px[c].slabs.numProdSlabs + m.px[c].slabs.numConsSlabs
Slots(m, c) == {c} \X (1..Size(m, c))
OtherSlots(m, c) == UNION {Slots(m, d) : d \in Clients \ {c}}

LEMMA SlotsCount ==
  ASSUME NEW m, \A d \in Clients : Size(m, d) \in Nat, NEW c \in Clients
  PROVE  /\ Cardinality(Reservations(m)) = Size(m, c) + Cardinality(OtherSlots(m, c))
         /\ Cardinality(OtherSlots(m, c)) \in Nat
  <1> DEFINE O == Clients \ {c}
             S == {Slots(m, d) : d \in O}
  <1>1. \A d \in Clients : IsFiniteSet(Slots(m, d)) /\ Cardinality(Slots(m, d)) = Size(m, d)
    <2> SUFFICES ASSUME NEW d \in Clients
                 PROVE  IsFiniteSet(Slots(m, d)) /\ Cardinality(Slots(m, d)) = Size(m, d)
      OBVIOUS
    <2> DEFINE k == Size(m, d)
    <2>1. k \in Nat /\ 1 \in Int /\ k \in Int
      OBVIOUS
    <2> HIDE DEF k
    <2>2. IsFiniteSet(1..k) /\ Cardinality(1..k) = k
      <3>1. IsFiniteSet(1..k) /\ Cardinality(1..k) = IF 1 > k THEN 0 ELSE k - 1 + 1
        BY <2>1, FS_Interval, Zenon
      <3> QED  BY <2>1, <3>1
    <2>3. IsFiniteSet({d}) /\ Cardinality({d}) = 1
      BY FS_Singleton
    <2>4. IsFiniteSet({d} \X (1..k)) /\ Cardinality({d} \X (1..k)) = 1 * k
      BY <2>2, <2>3, FS_Product, Zenon
    <2> QED  BY <2>1, <2>4 DEF Slots, k
  <1>2. IsFiniteSet(S)
    <2> DEFINE f == [d \in O |-> Slots(m, d)]
    <2>1. f \in Surjection(O, S)
      BY DEF Surjection
    <2>2. IsFiniteSet(O)
      BY Finite, FS_Subset
    <2> HIDE DEF f, O, S
    <2> QED  BY <2>1, <2>2, FS_Surjection
  <1>3. IsFiniteSet(OtherSlots(m, c))
    <2>1. \A A \in S : IsFiniteSet(A)
      BY <1>1
    <2> HIDE DEF S
    <2>2. IsFiniteSet(UNION S)
      BY <1>2, <2>1, FS_UNION
    <2> QED  BY <2>2 DEF OtherSlots, S
  <1>4. Reservations(m) = Slots(m, c) \cup OtherSlots(m, c)
    BY DEF Reservations, OtherSlots, Slots, Size
  <1>5. Slots(m, c) \cap OtherSlots(m, c) = {}
    BY DEF OtherSlots, Slots
  <1>6. Cardinality(OtherSlots(m, c)) \in Nat
    BY <1>3, FS_CardinalityType
  <1>7. Cardinality(Reservations(m)) =
          Cardinality(Slots(m, c)) + Cardinality(OtherSlots(m, c)) - Cardinality({})
    BY <1>1, <1>3, <1>4, <1>5, FS_Union
  <1> QED  BY <1>1, <1>6, <1>7, FS_EmptySet

LEMMA ReservationsChange ==
  ASSUME NEW m, NEW n, NEW c \in Clients, \A d \in Clients : Size(m, d) \in Nat, Size(n, c) \in Nat,
         \A d \in Clients : d # c => Size(n, d) = Size(m, d)
  PROVE  /\ Cardinality(Reservations(m)) \in Nat /\ Size(m, c) <= Cardinality(Reservations(m))
         /\ Cardinality(Reservations(n)) = Cardinality(Reservations(m)) - Size(m, c) + Size(n, c)
  <1>1. OtherSlots(n, c) = OtherSlots(m, c)
    BY DEF OtherSlots, Slots
  <1>2. /\ Cardinality(Reservations(m)) = Size(m, c) + Cardinality(OtherSlots(m, c))
        /\ Cardinality(OtherSlots(m, c)) \in Nat
    BY SlotsCount
  <1>3. \A d \in Clients : Size(n, d) \in Nat
    OBVIOUS
  <1>4. Cardinality(Reservations(n)) = Size(n, c) + Cardinality(OtherSlots(n, c))
    BY <1>3, SlotsCount
  <1> QED  BY <1>1, <1>2, <1>4

LEMMA SizesAre ==
  ASSUME NEW m, NEW e, Ok(m, e), NEW c \in Clients
  PROVE  Size(m, c) \in 0..(UIntRange - 1) /\ Size(m, c) \in Nat
  <1> DEFINE t == m.px[c].slabs
  <1>1. /\ t.numProdSlabs \in Nat /\ 2 * t.numProdSlabs < UIntRange
        /\ t.numConsSlabs \in Nat /\ 2 * t.numConsSlabs < UIntRange
    BY OkClient, TrackerFields DEF Asked
  <1> QED  BY <1>1, SlabsAssumption DEF Size

LEMMA DestroyOk ==
  ASSUME NEW m, Ok(m, Zero), Settled(m), NEW c \in Clients
  PROVE  LET n == DestroyProxy(m, c)
         IN  Ok(n, Zero) /\ Settled(n)
  <1> DEFINE p  == m.px[c]
             q  == [Absent("gone") EXCEPT !.wantedQueue = p.wantedQueue]
             m0 == [m EXCEPT !.px[c] = q]
             m1 == ReleaseQueue(m0, c)
             reserved == Size(m, c)
             sm == SM!ReleaseSlabReservation(m1.sm, reserved)
             m2 == [m1 EXCEPT !.sm = sm]
             n  == ReleaseSlabs(m2, p.slabs)
             f  == ProdLeft(p.slabs, 0)
  <1>1. DestroyProxy(m, c) = n
    BY Zenon DEF DestroyProxy, Size
  <1>2. /\ p \in ProxyState /\ p.slabs \in TrackerState /\ p.holding \in SUBSET Blocks
        /\ Counts(p.slabs, p.holding) /\ p.wantedQueue \in Seq(Blocks) /\ m \in MgrState
    BY OkClient DEF Ok
  <1>3. /\ q \in ProxyState /\ q.wantedQueue = p.wantedQueue /\ q.slabs = T!NewTracker
        /\ q.holding = {} /\ q.state = "gone" /\ q.slabs.prod = {}
        /\ q.slabs.numProdSlabs = 0 /\ q.slabs.numConsSlabs = 0
        /\ q.owed = {} /\ ~q.lost /\ q.inOrder /\ ~q.needReport /\ ~q.throttle /\ q.nice = 0
    <2> DEFINE g == Absent("gone")
    <2>1. /\ g \in ProxyState /\ g.slabs = T!NewTracker /\ g.holding = {} /\ g.slabs.prod = {}
          /\ g.state = "gone" /\ Bare(g)
          /\ g.owed = {} /\ ~g.lost /\ g.inOrder /\ ~g.needReport /\ ~g.throttle /\ g.nice = 0
      BY NewProxyIs
    <2> HIDE DEF g
    <2>2. q = [g EXCEPT !.wantedQueue = p.wantedQueue]
      BY DEF g
    <2> HIDE DEF q
    <2> QED  BY <1>2, <2>1, <2>2 DEF ProxyState, Bare
  <1> HIDE DEF q
  <1>4. m0 \in MgrState /\ m0.px[c] = q /\ SameButClient(m, m0, c)
    BY <1>2, <1>3, WithProxy
  <1> HIDE DEF m0
  <1>5. f \in [Slabs -> Nat]
    <2>1. \A s \in Slabs : p.slabs.cons[s] \in Nat
      BY <1>2, TrackerFields
    <2> HIDE DEF p
    <2> QED  BY <2>1 DEF ProdLeft
  <1>6. \A s \in Slabs : f[s] = Zero[s] + One(p.slabs.prod, s) + Cardinality(In(p.holding, s))
    <2> SUFFICES ASSUME NEW s \in Slabs
                 PROVE  f[s] = Zero[s] + One(p.slabs.prod, s) + Cardinality(In(p.holding, s))
      OBVIOUS
    <2>1. p.slabs.cons[s] = Cardinality(In(p.holding, s)) /\ p.slabs.cons[s] \in Nat
      BY <1>2, TrackerFields DEF Counts
    <2>2. s >= 0
      BY SlabNumbers
    <2> QED  BY <2>1, <2>2 DEF ProdLeft, Zero, One
  <1> HIDE DEF f
  <1>7. Ok(m0, f)
    <2> DEFINE H == p.holding
               Q == p.slabs.prod
    <2>1. GivenUp(m.px[c], m0.px[c], H, Q)
      BY <1>3, <1>4 DEF GivenUp
    <2>3. Owes(Zero, f, H, Q)
      BY <1>5, <1>6 DEF Owes
    <2>2. Counts(m0.px[c].slabs, m0.px[c].holding)
      BY <1>3, <1>4, NewProxyIs
    <2> HIDE DEF H, Q, p
    <2> QED  BY <1>4, <2>1, <2>2, <2>3, GiveUpOk
  <1>8. Ok(m1, f) /\ Unqueued(m0, m1, c) /\ m1.px[c].wantedQueue = <<>>
    BY <1>7, ReleaseQueueOk
  <1> HIDE DEF m1
  <1>9. reserved \in 0..(UIntRange - 1)
    BY SizesAre
  <1> HIDE DEF reserved
  <1>10. /\ Matched(sm) /\ sm.heldRefcnt = m1.sm.heldRefcnt /\ sm.wantedSegs = m1.sm.wantedSegs
         /\ sm.numBuffers = m1.sm.numBuffers
         /\ sm.reserved = IF reserved > m1.sm.reserved THEN m1.sm.reserved ELSE m1.sm.reserved - reserved
    BY <1>8, <1>9, ReservationMatched DEF Ok
  <1> HIDE DEF sm
  <1>11. Ok(m2, f) /\ Resized(m1, m2) /\ m2.sm = sm
    BY <1>8, <1>10, ResizeOk
  <1> HIDE DEF m2
  <1>12. Ok(n, Zero) /\ Frame(m2, n)
    BY <1>2, <1>11, ReleaseSlabsOk DEF f
  <1>13. /\ m2.info = m.info /\ m2.older = m.older /\ m2.setup = m.setup /\ m2.px = m1.px
         /\ m1.sm.reserved = m.sm.reserved /\ m1.sm.numBuffers = m.sm.numBuffers
    BY <1>4, <1>8, <1>11 DEF SameButClient, Unqueued, Others, SameGlobal, Resized
  <1>14. ASSUME NEW d \in Clients
         PROVE  Served(m2, m1.px[d]) /\ (~Up(m1, d) => Bare(m1.px[d]))
    <2>1. CASE d = c
      <3>1. SameButQueue(q, m1.px[c]) /\ SameBase(q, m1.px[c])
        BY <1>4, <1>8 DEF Unqueued, Others
      <3>2. Served(m2, m1.px[c])
        BY <1>3, <1>8, <3>1, NothingServed DEF SameButQueue, SameBase
      <3> QED  BY <1>3, <1>8, <2>1, <3>1, <3>2 DEF Bare, SameBase, SameSizes
    <2>2. CASE d # c
      <3>1. m0.px[d] = m.px[d] /\ SameRest(m0.px[d], m1.px[d]) /\ SameBase(m0.px[d], m1.px[d])
        BY <1>4, <1>8, <2>2 DEF SameButClient, Unqueued, Others
      <3>2. Served(m, m.px[d]) /\ (~Up(m, d) => Bare(m.px[d]))
        BY DEF Settled
      <3>3. Served(m2, m1.px[d])
        BY <1>13, <3>1, <3>2, SameServed DEF SameBase
      <3> QED  BY <3>1, <3>2, <3>3 DEF Bare, SameRest, SameBase, SameSizes, Up
    <2> QED  BY <2>1, <2>2
  <1>15. AsksFit => Booked(m2)
    <2> SUFFICES ASSUME AsksFit
                 PROVE  Booked(m2)
      OBVIOUS
    <2>1. Booked(m) /\ Matched(m.sm)
      BY DEF Settled, Ok
    <2>2. \A d \in Clients : Size(m, d) \in Nat
      BY SizesAre
    <2>3. \A d \in Clients : d # c => Size(m2, d) = Size(m, d)
      BY <1>4, <1>8, <1>13 DEF Size, SameButClient, Unqueued, Others, SameBase, SameSizes
    <2>4. Size(m2, c) = 0
      BY <1>3, <1>4, <1>8, <1>13 DEF Size, Unqueued, Others, SameBase, SameSizes
    <2>5. /\ Cardinality(Reservations(m)) \in Nat /\ Size(m, c) <= Cardinality(Reservations(m))
          /\ Cardinality(Reservations(m2)) = Cardinality(Reservations(m)) - Size(m, c) + Size(m2, c)
      BY <2>2, <2>3, <2>4, ReservationsChange
    <2>6. m.sm.reserved = Cardinality(Reservations(m)) /\ Bounded(m.sm)
      BY <2>1 DEF Booked
    <2>7. sm.reserved = Cardinality(Reservations(m2)) /\ sm.reserved \in Nat /\ sm.reserved <= m.sm.reserved
      BY <1>10, <1>13, <2>2, <2>4, <2>5, <2>6 DEF reserved
    <2>8. Bounded(sm)
      BY <1>10, <1>13, <2>1, <2>6, <2>7, BoundedShrinks
    <2> QED  BY <1>11, <2>7, <2>8 DEF Booked
  <1>16. Settled(m2)
    BY <1>13, <1>14, <1>15 DEF Settled, Up
  <1>17. Settled(n)
    BY <1>12, <1>16, FrameSettled
  <1> QED  BY <1>1, <1>12, <1>17

-----------------------------------------------------------------------------
(***************************************************************************)
(* The handlers.                                                           *)
(***************************************************************************)
LEMMA FillOk ==
  ASSUME NEW m, NEW e, Ok(m, e), NEW n \in MgrState,
         n.sm = m.sm, n.px = m.px, n.intact, n.err = m.err,
         \A s \in Slabs : (\E d \in Clients : s \in m.px[d].slabs.prod) => m.fill[s] <= n.fill[s]
  PROVE  Ok(n, e)
  <1>1. References(n, e) /\ Trackers(n) /\ Queues(n) /\ Gone(n)
    BY DEF Ok, References, Producers, Readers, Trackers, Queues, Gone, Up
  <1>2. Filled(n)
    <2> SUFFICES ASSUME NEW b \in Clients, NEW d \in Clients, NEW y \in Blocks,
                        Refers(m.px[b], y), SlabOf(y) \in m.px[d].slabs.prod
                 PROVE  y[2] <= n.fill[SlabOf(y)]
      BY DEF Filled
    <2>1. y[2] <= m.fill[SlabOf(y)]
      BY DEF Ok, Filled
    <2>2. SlabOf(y) \in Slabs /\ y[2] \in Nat
      BY SlabOfBlock
    <2>3. m.fill[SlabOf(y)] \in Nat /\ n.fill[SlabOf(y)] \in Nat
      <3>1. m.fill \in [Slabs -> 0..BlocksPerSlab] /\ n.fill \in [Slabs -> 0..BlocksPerSlab]
        BY MgrFields DEF Ok
      <3> QED  BY <2>2, <3>1
    <2>4. m.fill[SlabOf(y)] <= n.fill[SlabOf(y)]
      BY <2>2
    <2> QED  BY <2>1, <2>2, <2>3, <2>4
  <1> QED  BY <1>1, <1>2 DEF Ok

\* what the end of a handler does to the history of a client
Trimmed(p, q, queued) ==
  /\ SameClient(p, q) /\ q.regs = p.regs /\ q.nice = p.nice
  /\ q.needReport = p.needReport /\ q.throttle = p.throttle /\ q.inOrder = p.inOrder
  /\ q.owed = p.owed \cap queued /\ (q.lost <=> p.lost \/ ~(p.owed \subseteq queued))

LEMMA TrimmedServed ==
  ASSUME NEW m, NEW e, Ok(m, e), NEW c \in Clients, Served(m, m.px[c]), NEW n, n.setup = m.setup,
         n.older = m.older \cap (Referenced(m) \X Referenced(m)),
         \A x \in Referenced(m) : n.info[x] = m.info[x],
         Trimmed(m.px[c], n.px[c], Queued(m, c))
  PROVE  Served(n, n.px[c])
  <1> DEFINE p == m.px[c]
             q == n.px[c]
  <1>1. /\ q.holding = p.holding /\ q.wantedQueue = p.wantedQueue /\ q.regs = p.regs
        /\ q.nice = p.nice /\ q.needReport = p.needReport /\ q.throttle = p.throttle
        /\ q.inOrder = p.inOrder /\ q.owed = p.owed \cap Queued(m, c)
        /\ (q.lost <=> p.lost \/ ~(p.owed \subseteq Queued(m, c)))
    BY DEF Trimmed, SameClient
  <1>2. p.wantedQueue \in Seq(Blocks)
    BY OkClient
  <1>3. \A x : x \in Queued(m, c) <=> Contains(p.wantedQueue, x)
    BY <1>2, RangeIs DEF Queued
  <1>4. Queued(m, c) \subseteq Referenced(m)
    BY DEF Referenced
  <1>5. Due(q, n.info) = Due(p, m.info)
    BY <1>1, <1>3, <1>4 DEF Due
  <1>6. Due(p, m.info) \subseteq Queued(m, c)
    BY <1>3 DEF Due
  <1>7. Ordered(q.wantedQueue, n.older)
    <2>1. \A i \in 1..Len(p.wantedQueue) : p.wantedQueue[i] \in Referenced(m)
      BY <1>2, <1>4, RangeIs DEF Queued
    <2> QED  BY <1>1, <2>1 DEF Ordered, Served, Delivering
  <1> HIDE DEF q
  <1>8. Apart(q)
    BY <1>1 DEF Served, Apart
  <1>9. Delivering(q, n.info, n.older)
    BY <1>1, <1>5, <1>6, <1>7 DEF Served, Delivering
  <1>10. NoClientMessages => NothingLost(q, n.info)
    BY <1>1, <1>5, <1>6 DEF Served, NothingLost
  <1>11. Dropless(n) => Undropped(q)
    BY <1>1 DEF Served, Undropped, Dropless
  <1> QED  BY <1>8, <1>9, <1>10, <1>11 DEF Served, q

\* The end of a handler
LEMMA DoneOk ==
  ASSUME NEW m, NEW e, Ok(m, e), Settled(m)
  PROVE  LET n == Done(m)
         IN  Ok(n, e) /\ Settled(n)
  <1> DEFINE live == Referenced(m)
             info == [x \in Blocks |-> IF x \in live THEN m.info[x] ELSE NoInfo]
             older == m.older \cap (live \X live)
             fill == [s \in Slabs |->
                        IF \E c \in Clients : s \in m.px[c].slabs.prod THEN m.fill[s] ELSE 0]
             q(c) == [m.px[c] EXCEPT
                        !.owed = m.px[c].owed \cap Queued(m, c),
                        !.lost = m.px[c].lost \/ ~(m.px[c].owed \subseteq Queued(m, c))]
             px == [c \in Clients |-> q(c)]
             n == Done(m)
             k == [m EXCEPT !.fill = fill]
  <1>1. n = [m EXCEPT !.info = info, !.older = older, !.fill = fill, !.px = px]
    BY DEF Done
  <1>2. /\ m \in MgrState /\ Matched(m.sm) /\ e \in [Slabs -> Nat] /\ m.intact
        /\ m.info \in [Blocks -> Kinds] /\ m.older \in SUBSET (Blocks \X Blocks)
        /\ m.fill \in [Slabs -> 0..BlocksPerSlab]
    BY MgrFields DEF Ok
  <1>3. info \in [Blocks -> Kinds]
    <2>1. NoInfo \in Kinds
      BY DEF NoInfo, Kinds
    <2> HIDE DEF live
    <2> QED  BY <1>2, <2>1
  <1>4. older \in SUBSET (Blocks \X Blocks)
    BY <1>2
  <1>5. fill \in [Slabs -> 0..BlocksPerSlab]
    BY <1>2, ManagerAssumption
  <1>6. \A c \in Clients : q(c) \in ProxyState /\ Trimmed(m.px[c], q(c), Queued(m, c))
    <2> SUFFICES ASSUME NEW c \in Clients
                 PROVE  q(c) \in ProxyState /\ Trimmed(m.px[c], q(c), Queued(m, c))
      OBVIOUS
    <2> DEFINE p == m.px[c]
               owed == p.owed \cap Queued(m, c)
               lost == p.lost \/ ~(p.owed \subseteq Queued(m, c))
    <2>1. p \in ProxyState
      BY OkClient
    <2>2. owed \in SUBSET Blocks /\ lost \in BOOLEAN
      BY <2>1, ProxyFields
    <2> HIDE DEF p, owed, lost
    <2>3. LET r == [p EXCEPT !.owed = owed, !.lost = lost]
          IN  /\ r \in ProxyState /\ SameClient(p, r) /\ r.regs = p.regs /\ r.nice = p.nice
              /\ r.needReport = p.needReport /\ r.throttle = p.throttle /\ r.inOrder = p.inOrder
              /\ r.owed = owed /\ r.lost = lost
      BY <2>1, <2>2 DEF ProxyState, SameClient
    <2>4. Trimmed(p, [p EXCEPT !.owed = owed, !.lost = lost], Queued(m, c))
      BY <2>3 DEF Trimmed, owed, lost
    <2> QED  BY <2>3, <2>4 DEF p, owed, lost
  <1>7. px \in [Clients -> ProxyState] /\ \A c \in Clients : Trimmed(m.px[c], px[c], Queued(m, c))
    BY <1>6, Zenon
  <1>8. \A s \in Slabs : (\E d \in Clients : s \in m.px[d].slabs.prod) => m.fill[s] <= fill[s]
    BY <1>2, ManagerAssumption
  <1> HIDE DEF info, older, fill, q, px, n
  <1>9. /\ n \in MgrState /\ n.sm = m.sm /\ n.px = px /\ n.fill = fill /\ n.intact = m.intact
        /\ n.err = m.err /\ n.setup = m.setup /\ n.info = info /\ n.older = older
    BY <1>1, <1>2, <1>3, <1>4, <1>5, <1>7 DEF MgrState
  <1>10. k \in MgrState /\ k.sm = m.sm /\ k.px = m.px /\ k.fill = fill /\ k.intact /\ k.err = m.err
    BY <1>2, <1>5 DEF MgrState
  <1> HIDE DEF k
  <1>11. Ok(k, e)
    BY <1>8, <1>10, FillOk
  <1>12. Ok(n, e)
    <2>1. /\ n.sm = k.sm /\ n.fill = k.fill /\ n.err = k.err
          /\ \A d \in Clients : SameClient(k.px[d], n.px[d])
      BY <1>7, <1>9, <1>10 DEF Trimmed
    <2>2. n.intact = k.intact
      <3>1. m.intact \in BOOLEAN /\ k.intact \in BOOLEAN
        BY <1>2, <1>10, MgrFields
      <3> QED  BY <1>2, <1>9, <1>10, <3>1
    <2> QED  BY <1>2, <1>9, <1>10, <1>11, <2>1, <2>2, OkSame
  <1>13. \A x \in live : info[x] = m.info[x]
    <2>1. live \subseteq Blocks
      <3> SUFFICES ASSUME NEW c \in Clients
                   PROVE  m.px[c].holding \subseteq Blocks /\ Queued(m, c) \subseteq Blocks
        BY DEF Referenced
      <3> QED  BY OkClient, RangeIs DEF Queued
    <2> HIDE DEF live
    <2> QED  BY <2>1 DEF info
  <1>14. ASSUME NEW c \in Clients
         PROVE  Served(n, n.px[c]) /\ (~Up(n, c) => Bare(n.px[c]))
    <2>1. Served(m, m.px[c]) /\ (~Up(m, c) => Bare(m.px[c])) /\ Trimmed(m.px[c], n.px[c], Queued(m, c))
      BY <1>7, <1>9 DEF Settled
    <2>2. n.older = m.older \cap (live \X live) /\ \A x \in live : n.info[x] = m.info[x]
      BY <1>9, <1>13 DEF older
    <2>3. Served(n, n.px[c])
      BY <1>9, <2>1, <2>2, TrimmedServed
    <2> QED  BY <2>1, <2>3 DEF Trimmed, SameClient, Bare, Up
  <1>15. AsksFit => Booked(n)
    <2>1. SameBooks(m, n)
      BY <1>7, <1>9 DEF SameBooks, Trimmed, SameClient, SameSizes
    <2> QED  BY <2>1, BookedSame DEF Settled
  <1>16. Settled(n)
    BY <1>14, <1>15 DEF Settled
  <1> QED  BY <1>12, <1>16 DEF n

LEMMA ExpectOk ==
  ASSUME NEW m, NEW e, Ok(m, e), NEW ok, ok
  PROVE  LET n == Expect(m, ok)
         IN  Ok(n, e) /\ n.px = m.px /\ n \in MgrState /\ Frame(m, n)
  <1> DEFINE n == Expect(m, ok)
  <1>1. m \in MgrState /\ ~m.err /\ e \in [Slabs -> Nat] /\ Matched(m.sm)
    BY DEF Ok
  <1>2. /\ n \in MgrState /\ ~n.err /\ n.sm = m.sm /\ n.px = m.px /\ n.fill = m.fill
        /\ n.intact = m.intact /\ n.setup = m.setup /\ n.info = m.info /\ n.older = m.older
    BY <1>1, ExpectIs
  <1> HIDE DEF n
  <1>3. n.err = m.err
    BY <1>1, <1>2, MgrFields
  <1>4. Ok(n, e)
    BY <1>1, <1>2, <1>3, OkSame DEF SameClient
  <1>5. Frame(m, n)
    BY <1>2 DEF Frame, SameGlobal, SameBase, SameRest, SameSizes
  <1> QED  BY <1>2, <1>4, <1>5 DEF n

\* A client changes in what no slab depends on.
LEMMA ProxySettled ==
  ASSUME NEW m, Ok(m, Zero), Settled(m), NEW c \in Clients, NEW q \in ProxyState,
         SameClient(m.px[c], q), Served(m, q)
  PROVE  LET n == [m EXCEPT !.px[c] = q]
         IN  Ok(n, Zero) /\ Settled(n)
  <1> DEFINE n == [m EXCEPT !.px[c] = q]
  <1>1. Ok(n, Zero) /\ n.px[c] = q /\ SameButClient(m, n, c)
    BY ProxyOk
  <1> HIDE DEF n
  <1>2. SameSizes(m.px[c].slabs, q.slabs) /\ (Up(n, c) \/ Bare(q))
    BY <1>1 DEF SameClient, SameSizes, Settled, Up, Bare
  <1>3. Settled(n)
    BY <1>1, <1>2, ClientSettled
  <1> QED  BY <1>1, <1>3 DEF n

Inv == Ok(mgr, Zero) /\ Settled(mgr)

LEMMA Connecting ==
  ASSUME Inv, NEW c \in Clients, AddConnectedClient(c)
  PROVE  Inv'
  <1> DEFINE p == mgr.px[c]
             n == [mgr EXCEPT !.px[c] = NewProxy]
  <1>1. mgr' = n /\ p.state = "new" /\ Ok(mgr, Zero) /\ Settled(mgr) /\ mgr \in MgrState
    BY DEF AddConnectedClient, Inv, Ok
  <1>2. p.slabs.prod = {} /\ p.holding = {} /\ p.wantedQueue = <<>>
    BY <1>1 DEF Ok, Gone, Settled, Up, Bare
  <1>3. /\ NewProxy \in ProxyState /\ NewProxy.slabs = T!NewTracker /\ NewProxy.holding = {}
        /\ NewProxy.wantedQueue = <<>> /\ NewProxy.slabs.prod = {} /\ Counts(T!NewTracker, {})
        /\ Bare(NewProxy)
    BY NewProxyIs DEF Bare
  <1>4. n \in MgrState /\ n.px[c] = NewProxy /\ SameButClient(mgr, n, c)
    BY <1>1, <1>3, WithProxy
  <1> HIDE DEF n
  <1>5. GivenUp(mgr.px[c], n.px[c], {}, {}) /\ Counts(n.px[c].slabs, n.px[c].holding)
    BY <1>2, <1>3, <1>4 DEF GivenUp
  <1>6. Owes(Zero, Zero, {}, {})
    <2>1. \A s : In({}, s) = {}
      BY DEF In
    <2> QED  BY <2>1, FS_EmptySet DEF Owes, Zero, One
  <1>7. Ok(n, Zero)
    BY <1>1, <1>4, <1>5, <1>6, GiveUpOk
  <1>8. Settled(n)
    <2>1. Served(mgr, NewProxy)
      BY <1>3, NewProxyIs, NothingServed
    <2>2. SameSizes(p.slabs, NewProxy.slabs)
      BY <1>1, <1>3 DEF Settled, Up, Bare, SameSizes
    <2> HIDE DEF p
    <2> QED  BY <1>1, <1>3, <1>4, <2>1, <2>2, ClientSettled DEF p
  <1>9. (Ok(mgr, Zero) /\ Settled(mgr))' <=> Ok(n, Zero) /\ Settled(n)
    BY <1>1
  <1> QED  BY <1>7, <1>8, <1>9 DEF Inv

LEMMA Levelled ==
  ASSUME Inv, NEW c \in Clients, NEW level \in Int, HandleProdNiceLevel(c, level),
         Dropless(mgr) => ((level + 128) % 256) - 128 # -1
  PROVE  Inv'
  <1> DEFINE p == mgr.px[c]
             nice == ((level + 128) % 256) - 128
             q == [p EXCEPT !.nice = nice]
             n == [mgr EXCEPT !.px[c] = q]
  <1>1. mgr' = n /\ Ok(mgr, Zero) /\ Settled(mgr)
    BY DEF HandleProdNiceLevel, Inv
  <1>2. p \in ProxyState /\ nice \in Int /\ (Dropless(mgr) => nice # -1)
    BY <1>1, OkClient
  <1> HIDE DEF nice
  <1>3. /\ q \in ProxyState /\ SameClient(p, q) /\ q.nice = nice /\ q.regs = p.regs
        /\ q.owed = p.owed /\ q.lost = p.lost /\ q.inOrder = p.inOrder
        /\ q.needReport = p.needReport /\ q.throttle = p.throttle
    BY <1>2 DEF ProxyState, SameClient
  <1> HIDE DEF q
  <1>6. Served(mgr, q)
    <2>1. Served(mgr, p)
      BY <1>1 DEF Settled
    <2>2. q.holding = p.holding /\ q.wantedQueue = p.wantedQueue
      BY <1>3 DEF SameClient
    <2>3. (q.needReport => q.throttle) /\ (Dropless(mgr) => Undropped(q))
      BY <1>2, <1>3, <2>1 DEF Served, Delivering, Undropped
    <2> QED  BY <1>3, <2>1, <2>2, <2>3, ServedStill
  <1>4. Ok(n, Zero) /\ Settled(n)
    BY <1>1, <1>3, <1>6, ProxySettled
  <1> HIDE DEF n
  <1>5. (Ok(mgr, Zero) /\ Settled(mgr))' <=> Ok(n, Zero) /\ Settled(n)
    BY <1>1
  <1> QED  BY <1>4, <1>5 DEF Inv

LEMMA Deleted ==
  ASSUME Inv, NEW c \in Clients
  PROVE  LET n == Done(DestroyProxy(mgr, c))
         IN  Ok(n, Zero) /\ Settled(n)
  <1> DEFINE k == DestroyProxy(mgr, c)
  <1>1. Ok(k, Zero) /\ Settled(k)
    BY DestroyOk DEF Inv
  <1> HIDE DEF k
  <1>2. Ok(Done(k), Zero) /\ Settled(Done(k))
    BY <1>1, DoneOk
  <1> QED  BY <1>2 DEF k

LEMMA Deleting ==
  ASSUME Inv, NEW c \in Clients, DeleteClient(c)
  PROVE  Inv'
  <1> DEFINE n == Done(DestroyProxy(mgr, c))
  <1>1. mgr' = n
    BY DEF DeleteClient
  <1>2. Ok(n, Zero) /\ Settled(n)
    BY Deleted
  <1> HIDE DEF n
  <1>3. (Ok(mgr, Zero) /\ Settled(mgr))' <=> Ok(n, Zero) /\ Settled(n)
    BY <1>1
  <1> QED  BY <1>2, <1>3 DEF Inv

LEMMA Grouped ==
  ASSUME Inv, NEW c \in Clients, NEW gid \in Nat, HandleGroupIDStr(c, gid)
  PROVE  Inv'
  <1> DEFINE p == mgr.px[c]
             q == [p EXCEPT !.group = gid]
             k == [mgr EXCEPT !.px[c] = q]
             d == Done(DestroyProxy(mgr, c))
  <1>1. (mgr' = k \/ mgr' = d) /\ Ok(mgr, Zero) /\ Settled(mgr)
    BY DEF HandleGroupIDStr, Inv
  <1>2. p \in ProxyState
    BY <1>1, OkClient
  <1>3. /\ q \in ProxyState /\ SameClient(p, q) /\ SameRest(p, q)
        /\ q.regs = p.regs /\ q.nice = p.nice
    BY <1>2 DEF ProxyState, SameClient, SameRest
  <1> HIDE DEF q
  <1>7. Served(mgr, q)
    BY <1>1, <1>3, SameServed DEF Settled
  <1>4. Ok(k, Zero) /\ Settled(k)
    BY <1>1, <1>3, <1>7, ProxySettled
  <1>5. Ok(d, Zero) /\ Settled(d)
    BY Deleted
  <1> HIDE DEF k, d
  <1>6. /\ mgr' = k => ((Ok(mgr, Zero) /\ Settled(mgr))' <=> Ok(k, Zero) /\ Settled(k))
        /\ mgr' = d => ((Ok(mgr, Zero) /\ Settled(mgr))' <=> Ok(d, Zero) /\ Settled(d))
    OBVIOUS
  <1> QED  BY <1>1, <1>4, <1>5, <1>6 DEF Inv

\* A client changes its mind about what is queued for it.
Rewanted(p, q) ==
  /\ q.nice = p.nice /\ q.needReport = p.needReport /\ q.throttle = p.throttle
  /\ q.inOrder = p.inOrder /\ q.lost = p.lost

LEMMA RewantedServed ==
  ASSUME NEW m, NEW p, NEW q, Served(m, p), SameClient(p, q), Rewanted(p, q),
         Due(q, m.info) \subseteq q.owed, NoClientMessages => q.owed \subseteq Due(q, m.info)
  PROVE  Served(m, q)
  <1>1. Apart(q)
    BY DEF Served, Apart, SameClient
  <1>2. Delivering(q, m.info, m.older)
    BY DEF Served, Delivering, SameClient, Rewanted
  <1>3. NoClientMessages => NothingLost(q, m.info)
    BY DEF Served, NothingLost, Rewanted
  <1>4. Dropless(m) => Undropped(q)
    BY DEF Served, Undropped, Rewanted
  <1> QED  BY <1>1, <1>2, <1>3, <1>4 DEF Served

LEMMA Registered ==
  ASSUME Inv, NEW c \in Clients, NEW id \in MsgIDs, Register(c, id) \/ Deregister(c, id)
  PROVE  Inv'
  <1> DEFINE p == mgr.px[c]
             segs == QueuedOf(mgr, c, id)
             q == [p EXCEPT !.regs = p.regs \cup {id}, !.owed = p.owed \cup segs]
             r == [p EXCEPT !.regs = p.regs \ {id}, !.owed = p.owed \ segs]
             k == [mgr EXCEPT !.px[c] = q]
             d == [mgr EXCEPT !.px[c] = r]
  <1>1. (mgr' = k \/ mgr' = d) /\ Ok(mgr, Zero) /\ Settled(mgr)
    BY DEF Register, Deregister, Inv
  <1>2. p \in ProxyState /\ p.regs \in SUBSET MsgIDs /\ p.owed \in SUBSET Blocks
    BY <1>1, OkClient, ProxyFields
  <1>3. /\ segs \in SUBSET Blocks
        /\ segs = {x \in Blocks : Contains(p.wantedQueue, x) /\ mgr.info[x][1] = id}
    <2>1. p.wantedQueue \in Seq(Blocks)
      BY <1>1, OkClient
    <2> QED  BY <2>1, RangeIs DEF QueuedOf, Queued
  <1> HIDE DEF segs
  <1>4. /\ q \in ProxyState /\ SameClient(p, q) /\ Rewanted(p, q)
        /\ q.regs = p.regs \cup {id} /\ q.owed = p.owed \cup segs
        /\ r \in ProxyState /\ SameClient(p, r) /\ Rewanted(p, r)
        /\ r.regs = p.regs \ {id} /\ r.owed = p.owed \ segs
    BY <1>2, <1>3, Zenon DEF ProxyState, SameClient, Rewanted
  <1> HIDE DEF q, r
  <1>7. Served(mgr, p)
    BY <1>1 DEF Settled
  <1>8. Due(q, mgr.info) = Due(p, mgr.info) \cup segs /\ Due(r, mgr.info) = Due(p, mgr.info) \ segs
    BY <1>3, <1>4 DEF SameClient, Due
  <1>9. Served(mgr, q) /\ Served(mgr, r)
    <2>1. Due(p, mgr.info) \subseteq p.owed /\ (NoClientMessages => p.owed \subseteq Due(p, mgr.info))
      BY <1>7 DEF Served, Delivering, NothingLost
    <2>2. Due(q, mgr.info) \subseteq q.owed /\ (NoClientMessages => q.owed \subseteq Due(q, mgr.info))
      BY <1>4, <1>8, <2>1
    <2>3. Due(r, mgr.info) \subseteq r.owed /\ (NoClientMessages => r.owed \subseteq Due(r, mgr.info))
      BY <1>4, <1>8, <2>1
    <2> HIDE DEF p
    <2> QED  BY <1>4, <1>7, <2>2, <2>3, RewantedServed
  <1>5. Ok(k, Zero) /\ Settled(k) /\ Ok(d, Zero) /\ Settled(d)
    BY <1>1, <1>4, <1>9, ProxySettled
  <1> HIDE DEF k, d
  <1>6. /\ mgr' = k => ((Ok(mgr, Zero) /\ Settled(mgr))' <=> Ok(k, Zero) /\ Settled(k))
        /\ mgr' = d => ((Ok(mgr, Zero) /\ Settled(mgr))' <=> Ok(d, Zero) /\ Settled(d))
    OBVIOUS
  <1> QED  BY <1>1, <1>5, <1>6 DEF Inv

LEMMA SendFailed ==
  ASSUME Inv, NEW c \in Clients, SendFails(c)
  PROVE  Inv'
  <1> DEFINE p == mgr.px[c]
             q == [p EXCEPT !.sendFailed = TRUE]
             n == [mgr EXCEPT !.px[c] = q]
  <1>1. mgr' = n /\ Ok(mgr, Zero) /\ Settled(mgr)
    BY DEF SendFails, Inv
  <1>2. p \in ProxyState
    BY <1>1, OkClient
  <1>3. /\ q \in ProxyState /\ SameClient(p, q) /\ SameRest(p, q)
        /\ q.regs = p.regs /\ q.nice = p.nice
    BY <1>2 DEF ProxyState, SameClient, SameRest
  <1> HIDE DEF q
  <1>6. Served(mgr, q)
    BY <1>1, <1>3, SameServed DEF Settled
  <1>4. Ok(n, Zero) /\ Settled(n)
    BY <1>1, <1>3, <1>6, ProxySettled
  <1> HIDE DEF n
  <1>5. (Ok(mgr, Zero) /\ Settled(mgr))' <=> Ok(n, Zero) /\ Settled(n)
    BY <1>1
  <1> QED  BY <1>4, <1>5 DEF Inv

LEMMA Acknowledged ==
  ASSUME Inv, NEW c \in Clients, HandleDropReportAck(c)
  PROVE  Inv'
  <1> DEFINE p == mgr.px[c]
             q == [p EXCEPT !.throttle = FALSE]
             k == [mgr EXCEPT !.px[c] = q]
             n == SendDropReport(k, c, {})
  <1>1. mgr' = n /\ Ok(mgr, Zero) /\ Settled(mgr) /\ p.throttle
    BY DEF HandleDropReportAck, Inv
  <1>2. p \in ProxyState
    BY <1>1, OkClient
  <1>3. /\ q \in ProxyState /\ SameClient(p, q) /\ q.regs = p.regs
        /\ q.owed = p.owed /\ q.lost = p.lost /\ q.inOrder = p.inOrder
    BY <1>2 DEF ProxyState, SameClient
  <1> HIDE DEF q
  <1>4. Ok(k, Zero) /\ k.px[c] = q /\ SameButClient(mgr, k, c)
    BY <1>1, <1>3, ProxyOk
  <1> HIDE DEF k
  <1>5. /\ Ok(n, Zero) /\ SameClient(k.px[c], n.px[c]) /\ SameButClient(k, n, c)
        /\ Others(k, n, c) /\ Reported(k.px[c], n.px[c], {})
    BY <1>4, DropReportOk
  <1> HIDE DEF n
  <1>8. SameButClient(mgr, n, c)
    BY <1>4, <1>5 DEF SameButClient
  <1>9. Served(mgr, n.px[c])
    <2>1. Served(mgr, p) /\ ~Dropless(mgr)
      BY <1>1 DEF Settled, Served, Undropped
    <2>2. /\ n.px[c].holding = p.holding /\ n.px[c].wantedQueue = p.wantedQueue
          /\ n.px[c].regs = p.regs /\ n.px[c].owed = p.owed /\ n.px[c].lost = p.lost
          /\ n.px[c].inOrder = p.inOrder /\ (n.px[c].needReport => n.px[c].throttle)
      BY <1>3, <1>4, <1>5 DEF SameClient, Others, SameBase, Reported
    <2> HIDE DEF p
    <2> QED  BY <2>1, <2>2, ServedStill
  <1>10. SameSizes(p.slabs, n.px[c].slabs) /\ (Up(n, c) \/ Bare(n.px[c]))
    <2>1. n.px[c].slabs = p.slabs /\ n.px[c].state = p.state /\ n.px[c].wantedQueue = p.wantedQueue
      BY <1>3, <1>4, <1>5 DEF SameClient
    <2> QED  BY <1>1, <2>1 DEF Settled, Up, Bare, SameSizes
  <1>6. Settled(n)
    BY <1>1, <1>8, <1>9, <1>10, ClientSettled
  <1>7. (Ok(mgr, Zero) /\ Settled(mgr))' <=> Ok(n, Zero) /\ Settled(n)
    BY <1>1
  <1> QED  BY <1>5, <1>6, <1>7 DEF Inv

\* Nothing is given up.
LEMMA OwesNothing ==
  ASSUME NEW e, e \in [Slabs -> Nat]
  PROVE  Owes(e, e, {}, {})
  <1>1. \A s : In({}, s) = {}
    BY DEF In
  <1> QED  BY <1>1, FS_EmptySet DEF Owes, One

\* a reservation only grows
Larger(p, r, prod, cons) ==
  /\ r = [p EXCEPT !.slabs.numProdSlabs = prod, !.slabs.numConsSlabs = cons]
  /\ prod >= p.slabs.numProdSlabs /\ cons >= p.slabs.numConsSlabs

Enlarged(p, q) == q.state = p.state /\ q.regs = p.regs /\ q.nice = p.nice /\ SameRest(p, q)

LEMMA SizesGrow ==
  ASSUME NEW m, NEW e, Ok(m, e), NEW c \in Clients,
         NEW prod \in Asked, NEW cons \in Asked, NEW r, Larger(m.px[c], r, prod, cons)
  PROVE  LET n == [m EXCEPT !.px[c] = r]
         IN  /\ Ok(n, e) /\ SameButClient(m, n, c) /\ Enlarged(m.px[c], n.px[c])
             /\ Size(n, c) = prod + cons
  <1> DEFINE p == m.px[c]
             t == p.slabs
             u == [t EXCEPT !.numProdSlabs = prod, !.numConsSlabs = cons]
             q == [p EXCEPT !.slabs = u]
             n == [m EXCEPT !.px[c] = q]
  <1>1. r = q
    <2>1. p \in ProxyState /\ t \in TrackerState
      BY OkClient
    <2> QED  BY <2>1 DEF Larger, ProxyState, TrackerState
  <1>2. p \in ProxyState /\ t \in TrackerState /\ Counts(t, p.holding) /\ m \in MgrState
    BY OkClient DEF Ok
  <1>3. /\ u \in TrackerState /\ u.prod = t.prod /\ u.cons = t.cons
        /\ u.prodSlabsHeld = t.prodSlabsHeld /\ u.consSlabsHeld = t.consSlabsHeld
        /\ u.numProdSlabs = prod /\ u.numConsSlabs = cons
    BY <1>2 DEF TrackerState
  <1> HIDE DEF u
  <1>4. Counts(u, p.holding)
    <2>1. /\ t.consSlabsHeld <= t.numConsSlabs /\ t.consSlabsHeld \in Nat /\ t.numConsSlabs \in Nat
          /\ cons \in Nat
      BY <1>2, TrackerFields DEF Counts, Asked
    <2>2. cons >= t.numConsSlabs
      BY DEF Larger
    <2>3. u.consSlabsHeld <= u.numConsSlabs
      BY <1>3, <2>1, <2>2
    <2> QED  BY <1>2, <1>3, <2>3 DEF Counts
  <1>5. /\ q \in ProxyState /\ q.slabs = u /\ q.holding = p.holding /\ q.state = p.state
        /\ q.wantedQueue = p.wantedQueue /\ Enlarged(p, q)
    BY <1>2, <1>3 DEF ProxyState, Enlarged, SameRest
  <1> HIDE DEF q
  <1>6. n \in MgrState /\ n.px[c] = q /\ SameButClient(m, n, c)
    BY <1>2, <1>5, WithProxy
  <1>7. [m EXCEPT !.px[c] = r] = n
    BY <1>1
  <1> HIDE DEF n
  <1>8. GivenUp(m.px[c], n.px[c], {}, {}) /\ Counts(n.px[c].slabs, n.px[c].holding)
    BY <1>3, <1>4, <1>5, <1>6 DEF GivenUp
  <1>9. Owes(e, e, {}, {})
    BY OwesNothing DEF Ok
  <1>10. Ok(n, e)
    BY <1>6, <1>8, <1>9, GiveUpOk
  <1>11. Size(n, c) = prod + cons
    BY <1>3, <1>5, <1>6 DEF Size
  <1> QED  BY <1>5, <1>6, <1>7, <1>10, <1>11

\* A reservation is granted, and the client counts it.
LEMMA GrantSettled ==
  ASSUME NEW m, Ok(m, Zero), Settled(m), NEW c \in Clients, Up(m, c),
         NEW k, Resized(m, k), NEW n, SameButClient(k, n, c), Enlarged(k.px[c], n.px[c]),
         NEW more \in Nat, Size(n, c) = Size(m, c) + more,
         AsksFit => k.sm.reserved = m.sm.reserved + more /\ Bounded(k.sm)
  PROVE  Settled(n)
  <1>1. /\ n.info = m.info /\ n.older = m.older /\ n.setup = m.setup /\ n.sm = k.sm
        /\ k.px = m.px /\ \A d \in Clients : d # c => n.px[d] = m.px[d]
    BY DEF Resized, SameButClient
  <1>2. ASSUME NEW d \in Clients
        PROVE  Served(n, n.px[d]) /\ (~Up(n, d) => Bare(n.px[d]))
    <2>1. Served(m, m.px[d]) /\ (~Up(m, d) => Bare(m.px[d]))
      BY DEF Settled
    <2>2. /\ SameRest(m.px[d], n.px[d]) /\ n.px[d].regs = m.px[d].regs /\ n.px[d].nice = m.px[d].nice
          /\ n.px[d].state = m.px[d].state
      BY <1>1 DEF Enlarged, SameRest
    <2>3. Served(n, n.px[d])
      BY <1>1, <2>1, <2>2, SameServed
    <2>4. ~Up(n, d) => Bare(n.px[d])
      BY <1>1, <2>1, <2>2 DEF Up
    <2> QED  BY <2>3, <2>4
  <1>3. AsksFit => Booked(n)
    <2> SUFFICES ASSUME AsksFit
                 PROVE  Booked(n)
      OBVIOUS
    <2>1. m.sm.reserved = Cardinality(Reservations(m))
      BY DEF Settled, Booked
    <2>2. \A d \in Clients : Size(m, d) \in Nat
      BY SizesAre
    <2>3. \A d \in Clients : d # c => Size(n, d) = Size(m, d)
      BY <1>1 DEF Size
    <2>4. Size(n, c) \in Nat
      BY <2>2
    <2>5. /\ Cardinality(Reservations(m)) \in Nat
          /\ Cardinality(Reservations(n)) = Cardinality(Reservations(m)) - Size(m, c) + Size(n, c)
      BY <2>2, <2>3, <2>4, ReservationsChange
    <2>6. n.sm.reserved = Cardinality(Reservations(n))
      BY <1>1, <2>1, <2>2, <2>5
    <2> QED  BY <1>1, <2>6 DEF Booked
  <1> QED  BY <1>2, <1>3 DEF Settled

\* It is refused.
LEMMA RefusalSettled ==
  ASSUME NEW m, Settled(m), NEW k, Resized(m, k), k.sm.reserved = m.sm.reserved,
         AsksFit => Bounded(k.sm)
  PROVE  Settled(k)
  <1>1. k.info = m.info /\ k.older = m.older /\ k.setup = m.setup /\ k.px = m.px
    BY DEF Resized
  <1>2. ASSUME NEW d \in Clients
        PROVE  Served(k, k.px[d]) /\ (~Up(k, d) => Bare(k.px[d]))
    <2>1. Served(m, m.px[d]) /\ (~Up(m, d) => Bare(m.px[d])) /\ SameRest(m.px[d], m.px[d])
      BY DEF Settled, SameRest
    <2>2. Served(k, m.px[d])
      BY <1>1, <2>1, SameServed
    <2> QED  BY <1>1, <2>1, <2>2 DEF Up
  <1>3. Reservations(k) = Reservations(m)
    BY <1>1 DEF Reservations
  <1> QED  BY <1>2, <1>3 DEF Settled, Booked

LEMMA Reserving ==
  ASSUME Inv, NEW c \in Clients, NEW prodSlbs \in Asked, NEW consSlbs \in Asked,
         HandleNumSlabs(c, prodSlbs, consSlbs),
         AsksFit => prodSlbs + consSlbs + TotalNumSlabs < UIntRange
  PROVE  Inv'
  <1> DEFINE t == mgr.px[c].slabs
             dProd == MoreSlabs(prodSlbs, t.numProdSlabs)
             dCons == MoreSlabs(consSlbs, t.numConsSlabs)
             prod == t.numProdSlabs + dProd
             cons == t.numConsSlabs + dCons
             more == dProd + dCons
             result == GetSlabReservation(mgr, more)
             k == result.m
             p == [mgr.px[c] EXCEPT !.slabs.numProdSlabs = prod, !.slabs.numConsSlabs = cons]
             l == [k EXCEPT !.px[c] = p]
             f == FillProducerSlabs(l, c)
             n == Done(f)
  <1>1. /\ mgr' = Done(IF result.failed THEN DestroyProxy(k, c) ELSE f)
        /\ Ok(mgr, Zero) /\ Settled(mgr) /\ Up(mgr, c)
    BY Zenon DEF HandleNumSlabs, Inv
  <1>2. t.numProdSlabs \in Asked /\ t.numConsSlabs \in Asked
    BY <1>1, OkClient, TrackerFields, Zenon
  <1>3. /\ prod \in Asked /\ prod >= t.numProdSlabs /\ cons \in Asked /\ cons >= t.numConsSlabs
        /\ more \in 0..(UIntRange - 1) /\ more \in Nat /\ prod + cons = Size(mgr, c) + more
        /\ AsksFit => more + TotalNumSlabs < UIntRange
    <2>1. dProd \in Nat /\ dProd <= prodSlbs /\ dCons \in Nat /\ dCons <= consSlbs
      BY <1>2, SlabsAssumption DEF Asked, MoreSlabs
    <2>2. TotalNumSlabs \in Nat
      BY SlabNumbers
    <2>3. /\ prod \in Asked /\ prod >= t.numProdSlabs /\ cons \in Asked /\ cons >= t.numConsSlabs
          /\ more \in 0..(UIntRange - 1)
      BY <1>2, SlabsAssumption DEF Asked, MoreSlabs
    <2>4. t.numProdSlabs \in Nat /\ t.numConsSlabs \in Nat /\ prodSlbs \in Nat /\ consSlbs \in Nat
          /\ UIntRange \in Nat
      BY <1>2, SlabsAssumption DEF Asked
    <2> HIDE DEF t, dProd, dCons
    <2>5. prod + cons = t.numProdSlabs + t.numConsSlabs + more
      BY <2>1, <2>4
    <2>6. AsksFit => more + TotalNumSlabs < UIntRange
      BY <2>1, <2>2, <2>4
    <2>7. Size(mgr, c) = t.numProdSlabs + t.numConsSlabs
      BY DEF Size, t
    <2> QED  BY <2>1, <2>3, <2>5, <2>6, <2>7
  <1> HIDE DEF prod, cons, more
  <1>4. /\ Ok(k, Zero) /\ Resized(mgr, k)
        /\ result.failed => k.sm.reserved = mgr.sm.reserved
        /\ Bounded(mgr.sm) /\ more + TotalNumSlabs < UIntRange =>
             Bounded(k.sm) /\ (~result.failed => k.sm.reserved = mgr.sm.reserved + more)
    BY <1>1, <1>3, GetSlabReservationOk
  <1> HIDE DEF result
  <1>5. /\ k.px = mgr.px
        /\ AsksFit => Bounded(k.sm) /\ (~result.failed => k.sm.reserved = mgr.sm.reserved + more)
    BY <1>1, <1>3, <1>4 DEF Resized, Settled, Booked
  <1> HIDE DEF k
  <1>6. CASE ~result.failed
    <2>1. Larger(k.px[c], p, prod, cons)
      BY <1>3, <1>5 DEF Larger
    <2>2. Ok(k, Zero) /\ prod \in Asked /\ cons \in Asked
      BY <1>3, <1>4
    <2> HIDE DEF p, t, dProd, dCons
    <2>3. /\ Ok(l, Zero) /\ SameButClient(k, l, c) /\ Enlarged(k.px[c], l.px[c])
          /\ Size(l, c) = prod + cons
      BY <2>1, <2>2, SizesGrow
    <2> HIDE DEF l
    <2>4. Settled(l)
      BY <1>1, <1>3, <1>4, <1>5, <1>6, <2>3, GrantSettled
    <2>5. Up(l, c)
      BY <1>1, <1>5, <2>3 DEF Up, Enlarged
    <2>6. Ok(f, Zero) /\ Settled(f)
      BY <2>3, <2>4, <2>5, FillProducerSlabsOk
    <2> HIDE DEF f
    <2>7. Ok(n, Zero) /\ Settled(n)
      BY <2>6, DoneOk
    <2>8. mgr' = n
      BY <1>1, <1>6
    <2> HIDE DEF n
    <2>9. (Ok(mgr, Zero) /\ Settled(mgr))' <=> Ok(n, Zero) /\ Settled(n)
      BY <2>8
    <2> QED  BY <2>7, <2>9 DEF Inv
  <1>7. CASE result.failed
    <2> DEFINE g == DestroyProxy(k, c)
    <2>1. Settled(k)
      BY <1>1, <1>4, <1>5, <1>7, RefusalSettled
    <2>2. Ok(g, Zero) /\ Settled(g)
      BY <1>4, <2>1, DestroyOk
    <2> HIDE DEF g
    <2>3. Ok(Done(g), Zero) /\ Settled(Done(g))
      BY <2>2, DoneOk
    <2>4. mgr' = Done(g)
      BY <1>1, <1>7 DEF g
    <2>5. (Ok(mgr, Zero) /\ Settled(mgr))' <=> Ok(Done(g), Zero) /\ Settled(Done(g))
      BY <2>4
    <2> QED  BY <2>3, <2>5 DEF Inv
  <1> QED  BY <1>6, <1>7

\* What the tracker counts of the segments that a client returns is left to give back.
LEMMA OwesReturned ==
  ASSUME NEW H \in SUBSET Blocks, NEW xs \in Seq(H), IsInjective(xs),
         NEW ids, ids = [i \in 1..Len(xs) |-> SlabOf(xs[i])]
  PROVE  Owes(Zero, Left(ids, 0), Range(xs), {}) /\ ids \in Seq(Slabs)
  <1>1. Len(xs) \in Nat /\ \A i \in 1..Len(xs) : SlabOf(xs[i]) \in Slabs
    BY SlabOfBlock
  <1>2. ids \in Seq(Slabs) /\ Len(ids) = Len(xs) /\ \A i \in 1..Len(xs) : ids[i] = SlabOf(xs[i])
    BY <1>1
  <1>3. Left(ids, 0) \in [Slabs -> Nat]
    BY <1>2, LeftIs
  <1>4. ASSUME NEW s \in Slabs
        PROVE  Left(ids, 0)[s] = Zero[s] + One({}, s) + Cardinality(In(Range(xs), s))
    <2> DEFINE A == {i \in 1..Len(ids) : i > 0 /\ ids[i] = s}
    <2>1. A \subseteq 1..Len(xs)
      BY <1>2
    <2>2. In(Range(xs), s) = {xs[i] : i \in A}
      <3>1. Range(xs) = {xs[i] : i \in 1..Len(xs)}
        BY DEF Range
      <3>2. \A i \in 1..Len(xs) : i > 0
        BY <1>1
      <3> QED  BY <1>2, <3>1, <3>2 DEF In
    <2>3. Left(ids, 0)[s] = Cardinality(A)
      BY DEF Left
    <2> HIDE DEF A
    <2>4. Cardinality({xs[i] : i \in A}) = Cardinality(A) /\ IsFiniteSet(A)
      BY <2>1, PlacesCount
    <2>5. Cardinality(A) \in Nat
      BY <2>4, FS_CardinalityType
    <2> QED  BY <2>2, <2>3, <2>4, <2>5 DEF Zero, One
  <1> QED  BY <1>2, <1>3, <1>4 DEF Owes

\* A client gives back what it holds.
SameHistory(p, q) ==
  /\ q.state = p.state /\ q.regs = p.regs /\ q.nice = p.nice /\ q.owed = p.owed
  /\ q.lost = p.lost /\ q.inOrder = p.inOrder
  /\ q.needReport = p.needReport /\ q.throttle = p.throttle

LEMMA LessHeld ==
  ASSUME NEW m, Settled(m), NEW c \in Clients, Up(m, c), NEW n, SameButClient(m, n, c),
         SameHistory(m.px[c], n.px[c]), n.px[c].wantedQueue = m.px[c].wantedQueue,
         n.px[c].holding \subseteq m.px[c].holding, SameSizes(m.px[c].slabs, n.px[c].slabs)
  PROVE  Settled(n)
  <1> DEFINE p == m.px[c]
             q == n.px[c]
  <1>1. Served(m, p)
    BY DEF Settled
  <1>2. (q.needReport => q.throttle) /\ (Dropless(m) => Undropped(q))
    BY <1>1 DEF SameHistory, Served, Delivering, Undropped
  <1>3. /\ q.regs = p.regs /\ q.owed = p.owed /\ q.lost = p.lost /\ q.inOrder = p.inOrder
        /\ q.wantedQueue = p.wantedQueue /\ q.holding \subseteq p.holding
    BY DEF SameHistory
  <1> HIDE DEF p, q
  <1>4. Served(m, q)
    BY <1>1, <1>2, <1>3, ServedStill
  <1>5. Up(n, c)
    BY DEF Up, SameHistory
  <1> QED  BY <1>4, <1>5, ClientSettled DEF q

LEMMA Returning ==
  ASSUME Inv, NEW c \in Clients, NEW xs \in Seq(mgr.px[c].holding), IsInjective(xs),
         HandleBlockIDs(c, xs)
  PROVE  Inv'
  <1> DEFINE p == mgr.px[c]
             H == p.holding
             ids == [i \in 1..Len(xs) |-> SlabOf(xs[i])]
             u == T!DecrementConsSlabs(p.slabs, ids)
             q == [p EXCEPT !.slabs = u, !.holding = H \ Range(xs)]
             m0 == [mgr EXCEPT !.px[c] = q]
             ok == ~T!DecrementErrs(p.slabs, ids)
             m1 == Expect(m0, ok)
             m2 == DecrementHeldRefcnts(m1, ids)
             m3 == PopWantedQueue(m2, c)
             n == Done(m3)
  <1>1. mgr' = n /\ Ok(mgr, Zero) /\ Settled(mgr) /\ Up(mgr, c) /\ mgr \in MgrState
    BY DEF HandleBlockIDs, Inv, Ok
  <1>2. /\ p \in ProxyState /\ p.slabs \in TrackerState /\ Counts(p.slabs, H) /\ H \in SUBSET Blocks
    BY <1>1, OkClient
  <1>3. /\ u \in TrackerState /\ Counts(u, H \ Range(xs)) /\ u.prod = p.slabs.prod /\ ok
        /\ SameSizes(p.slabs, u)
    <2> HIDE DEF H
    <2> QED  BY <1>2, ReturnCounts DEF H
  <1>4. Owes(Zero, Left(ids, 0), Range(xs), {}) /\ ids \in Seq(Slabs)
    <2> HIDE DEF H
    <2> QED  BY <1>2, OwesReturned DEF H
  <1>5. Range(xs) \subseteq H
    BY RangeIs
  <1> HIDE DEF u, ids, ok
  <1>6. /\ q \in ProxyState /\ q.slabs = u /\ q.holding = H \ Range(xs) /\ q.state = p.state
        /\ q.wantedQueue = p.wantedQueue /\ SameHistory(p, q)
    BY <1>2, <1>3 DEF ProxyState, SameHistory
  <1> HIDE DEF q
  <1>7. m0 \in MgrState /\ m0.px[c] = q /\ SameButClient(mgr, m0, c)
    BY <1>1, <1>6, WithProxy
  <1> HIDE DEF m0
  <1>8. GivenUp(mgr.px[c], m0.px[c], Range(xs), {}) /\ Counts(m0.px[c].slabs, m0.px[c].holding)
    BY <1>3, <1>5, <1>6, <1>7 DEF GivenUp
  <1>9. Ok(m0, Left(ids, 0))
    BY <1>1, <1>4, <1>7, <1>8, GiveUpOk
  <1>10. Settled(m0)
    <2>1. q.holding \subseteq p.holding /\ SameSizes(p.slabs, q.slabs)
      BY <1>3, <1>6
    <2> HIDE DEF p
    <2> QED  BY <1>1, <1>6, <1>7, <2>1, LessHeld DEF p
  <1>11. Ok(m1, Left(ids, 0)) /\ m1.px = m0.px /\ Frame(m0, m1)
    BY <1>3, <1>9, ExpectOk
  <1> HIDE DEF m1
  <1>12. Ok(m2, Zero) /\ Frame(m1, m2)
    BY <1>4, <1>11, DecrementsOk
  <1> HIDE DEF m2
  <1>13. Settled(m1) /\ Up(m1, c)
    BY <1>1, <1>6, <1>7, <1>10, <1>11, FrameSettled DEF Up
  <1>14. Settled(m2) /\ Up(m2, c)
    BY <1>12, <1>13, FrameSettled DEF Frame, SameBase, Up
  <1>15. Ok(m3, Zero) /\ Settled(m3)
    BY <1>12, <1>14, PopWantedQueueOk
  <1> HIDE DEF m3
  <1>16. Ok(n, Zero) /\ Settled(n)
    BY <1>15, DoneOk
  <1> HIDE DEF n
  <1>17. (Ok(mgr, Zero) /\ Settled(mgr))' <=> Ok(n, Zero) /\ Settled(n)
    BY <1>1
  <1> QED  BY <1>16, <1>17 DEF Inv

\* The producer slabs that a client returns are left to give back.
LEMMA OwesSlabs ==
  ASSUME NEW S \in SUBSET Slabs, NEW ids \in Seq(S), IsInjective(ids)
  PROVE  Owes(Zero, Left(ids, 0), {}, Range(ids)) /\ ids \in Seq(Slabs)
  <1>1. ids \in Seq(Slabs)
    OBVIOUS
  <1>2. Left(ids, 0) \in [Slabs -> Nat]
    BY <1>1, LeftIs
  <1>3. ASSUME NEW s \in Slabs
        PROVE  Left(ids, 0)[s] = Zero[s] + One(Range(ids), s) + Cardinality(In({}, s))
    <2> DEFINE A == {i \in 1..Len(ids) : i > 0 /\ ids[i] = s}
    <2>1. A \subseteq 1..Len(ids)
      OBVIOUS
    <2>2. {ids[i] : i \in A} = IF s \in Range(ids) THEN {s} ELSE {}
      <3>1. Range(ids) = {ids[i] : i \in 1..Len(ids)}
        BY DEF Range
      <3>2. \A i \in 1..Len(ids) : i > 0
        OBVIOUS
      <3> QED  BY <3>1, <3>2
    <2>3. Left(ids, 0)[s] = Cardinality(A)
      BY DEF Left
    <2> HIDE DEF A
    <2>4. Cardinality({ids[i] : i \in A}) = Cardinality(A)
      BY <2>1, PlacesCount
    <2>5. In({}, s) = {} /\ Cardinality({}) = 0 /\ Cardinality({s}) = 1
      BY FS_EmptySet, FS_Singleton DEF In
    <2>6. Left(ids, 0)[s] = One(Range(ids), s)
      BY <2>2, <2>3, <2>4, <2>5 DEF One
    <2>7. One(Range(ids), s) \in Nat /\ Zero[s] = 0
      BY DEF One, Zero
    <2>8. Cardinality(In({}, s)) = 0
      BY <2>5
    <2> QED  BY <2>6, <2>7, <2>8
  <1> QED  BY <1>1, <1>2, <1>3 DEF Owes

LEMMA GivingBack ==
  ASSUME Inv, NEW c \in Clients, NEW ids \in Seq(mgr.px[c].slabs.prod), IsInjective(ids),
         HandleSlabIDs(c, ids)
  PROVE  Inv'
  <1> DEFINE p == mgr.px[c]
             S == p.slabs.prod
             u == T!EraseProdSlabs(p.slabs, ids)
             q == [p EXCEPT !.slabs = u]
             m0 == [mgr EXCEPT !.px[c] = q]
             ok == ~T!EraseThrows(p.slabs, ids)
             m1 == Expect(m0, ok)
             m2 == DecrementHeldRefcnts(m1, ids)
             m3 == FillProducerSlabs(m2, c)
             n == Done(m3)
  <1>1. mgr' = n /\ Ok(mgr, Zero) /\ Settled(mgr) /\ Up(mgr, c) /\ mgr \in MgrState
    BY DEF HandleSlabIDs, Inv, Ok
  <1>2. /\ p \in ProxyState /\ p.slabs \in TrackerState /\ Counts(p.slabs, p.holding)
        /\ p.holding \in SUBSET Blocks /\ S \in SUBSET Slabs
    BY <1>1, OkClient
  <1>3. /\ u \in TrackerState /\ Counts(u, p.holding) /\ u.prod = S \ Range(ids) /\ ok
        /\ SameSizes(p.slabs, u)
    BY <1>2, CountsErase
  <1>4. Owes(Zero, Left(ids, 0), {}, Range(ids)) /\ ids \in Seq(Slabs)
    BY <1>2, OwesSlabs
  <1>5. Range(ids) \subseteq S
    BY RangeIs
  <1> HIDE DEF u, ok
  <1>6. /\ q \in ProxyState /\ q.slabs = u /\ q.holding = p.holding /\ q.state = p.state
        /\ q.wantedQueue = p.wantedQueue /\ SameHistory(p, q)
    BY <1>2, <1>3 DEF ProxyState, SameHistory
  <1> HIDE DEF q
  <1>7. m0 \in MgrState /\ m0.px[c] = q /\ SameButClient(mgr, m0, c)
    BY <1>1, <1>6, WithProxy
  <1> HIDE DEF m0
  <1>8. GivenUp(mgr.px[c], m0.px[c], {}, Range(ids)) /\ Counts(m0.px[c].slabs, m0.px[c].holding)
    BY <1>3, <1>5, <1>6, <1>7 DEF GivenUp
  <1>9. Ok(m0, Left(ids, 0))
    BY <1>1, <1>4, <1>7, <1>8, GiveUpOk
  <1>10. Settled(m0)
    <2>1. q.holding \subseteq p.holding /\ SameSizes(p.slabs, q.slabs)
      BY <1>3, <1>6
    <2> HIDE DEF p
    <2> QED  BY <1>1, <1>6, <1>7, <2>1, LessHeld DEF p
  <1>11. Ok(m1, Left(ids, 0)) /\ m1.px = m0.px /\ Frame(m0, m1)
    BY <1>3, <1>9, ExpectOk
  <1> HIDE DEF m1
  <1>12. Ok(m2, Zero) /\ Frame(m1, m2)
    BY <1>4, <1>11, DecrementsOk
  <1> HIDE DEF m2
  <1>13. Settled(m1) /\ Up(m1, c)
    BY <1>1, <1>6, <1>7, <1>10, <1>11, FrameSettled DEF Up
  <1>14. Settled(m2) /\ Up(m2, c)
    BY <1>12, <1>13, FrameSettled DEF Frame, SameBase, Up
  <1>15. Ok(m3, Zero) /\ Settled(m3)
    BY <1>12, <1>14, FillProducerSlabsOk
  <1> HIDE DEF m3
  <1>16. Ok(n, Zero) /\ Settled(n)
    BY <1>15, DoneOk
  <1> HIDE DEF n
  <1>17. (Ok(mgr, Zero) /\ Settled(mgr))' <=> Ok(n, Zero) /\ Settled(n)
    BY <1>1
  <1> QED  BY <1>16, <1>17 DEF Inv

\* The uses of a slab in a message are counted on.
LEMMA UsesGrow ==
  ASSUME NEW S, NEW ids \in Seq(S), NEW s, NEW i \in 0..Len(ids), NEW j \in 0..Len(ids), i <= j
  PROVE  /\ Uses(ids, s, i) \in Nat /\ Uses(ids, s, j) \in Nat /\ Uses(ids, s, i) <= Uses(ids, s, j)
         /\ i < j /\ ids[j] = s => Uses(ids, s, i) < Uses(ids, s, j)
  <1> DEFINE A == {l \in 1..i : ids[l] = s}
             B == {l \in 1..j : ids[l] = s}
  <1>1. IsFiniteSet(A) /\ IsFiniteSet(B) /\ A \subseteq B
    <2>1. IsFiniteSet(1..j)
      BY FS_Interval
    <2>2. A \subseteq B /\ B \subseteq 1..j
      OBVIOUS
    <2> QED  BY <2>1, <2>2, FS_Subset
  <1>2. i < j /\ ids[j] = s => j \notin A /\ j \in B
    OBVIOUS
  <1>3. Uses(ids, s, i) = Cardinality(A) /\ Uses(ids, s, j) = Cardinality(B)
    BY DEF Uses
  <1> HIDE DEF A, B
  <1>4. Cardinality(A) \in Nat /\ Cardinality(B) \in Nat /\ Cardinality(A) <= Cardinality(B)
    BY <1>1, FS_CardinalityType, FS_Subset
  <1>5. i < j /\ ids[j] = s => Cardinality(A) < Cardinality(B)
    <2> SUFFICES ASSUME i < j /\ ids[j] = s
                 PROVE  Cardinality(A) < Cardinality(B)
      OBVIOUS
    <2>1. A \cup {j} \subseteq B /\ j \notin A
      BY <1>1, <1>2
    <2>2. Cardinality(A \cup {j}) = Cardinality(A) + 1
      BY <1>1, <2>1, Grows
    <2>3. Cardinality(A \cup {j}) <= Cardinality(B)
      BY <1>1, <2>1, FS_Subset
    <2> QED  BY <1>4, <2>2, <2>3
  <1> QED  BY <1>3, <1>4, <1>5

\* The blocks of a message are different ones, beyond those used before.
LEMMA NextBlocksAre ==
  ASSUME NEW fill \in [Slabs -> 0..BlocksPerSlab], NEW S \in SUBSET Slabs, NEW ids \in Seq(S),
         \A s \in Slabs : fill[s] + Uses(ids, s, Len(ids)) <= BlocksPerSlab
  PROVE  LET xs == NextBlocks(fill, ids)
         IN  /\ xs \in Seq(Blocks) /\ IsInjective(xs) /\ Len(xs) = Len(ids)
             /\ \A i \in 1..Len(ids) :
                  /\ SlabOf(xs[i]) = ids[i] /\ xs[i][2] > fill[ids[i]]
                  /\ xs[i][2] <= fill[ids[i]] + Uses(ids, ids[i], Len(ids))
  <1> DEFINE k == Len(ids)
             xs == NextBlocks(fill, ids)
  <1>1. /\ k \in Nat /\ Len(xs) = k /\ DOMAIN xs = 1..k
        /\ \A i \in 1..k : xs[i] = <<ids[i], fill[ids[i]] + Uses(ids, ids[i], i)>>
    BY DEF NextBlocks
  <1>2. ASSUME NEW i \in 1..k
        PROVE  /\ ids[i] \in Slabs /\ fill[ids[i]] \in Nat
               /\ Uses(ids, ids[i], i) \in Nat /\ Uses(ids, ids[i], i) > 0
               /\ Uses(ids, ids[i], k) \in Nat /\ Uses(ids, ids[i], i) <= Uses(ids, ids[i], k)
    <2>1. i \in 0..k /\ 0 \in 0..k /\ k \in 0..k /\ i <= k /\ 0 <= i /\ 0 < i
      BY <1>1
    <2>2. ids[i] \in Slabs
      OBVIOUS
    <2> HIDE DEF k
    <2>3. Uses(ids, ids[i], 0) \in Nat /\ Uses(ids, ids[i], 0) < Uses(ids, ids[i], i)
      BY <2>1, UsesGrow DEF k
    <2>4. /\ Uses(ids, ids[i], i) \in Nat /\ Uses(ids, ids[i], k) \in Nat
          /\ Uses(ids, ids[i], i) <= Uses(ids, ids[i], k)
      BY <2>1, UsesGrow DEF k
    <2> QED  BY <2>2, <2>3, <2>4
  <1> HIDE DEF xs
  <1>3. ASSUME NEW i \in 1..k
        PROVE  /\ xs[i] \in Blocks /\ SlabOf(xs[i]) = ids[i] /\ xs[i][2] > fill[ids[i]]
               /\ xs[i][2] <= fill[ids[i]] + Uses(ids, ids[i], k)
    <2> DEFINE b == fill[ids[i]] + Uses(ids, ids[i], i)
    <2>1. xs[i] = <<ids[i], b>>
      BY <1>1
    <2>2. fill[ids[i]] + Uses(ids, ids[i], k) <= BlocksPerSlab
      BY <1>2
    <2>3. b \in 1..BlocksPerSlab /\ b > fill[ids[i]] /\ b <= fill[ids[i]] + Uses(ids, ids[i], k)
      BY <1>2, <2>2, ManagerAssumption
    <2> HIDE DEF b
    <2> QED  BY <1>2, <2>1, <2>3 DEF Blocks, SlabOf
  <1>4. IsInjective(xs)
    <2> SUFFICES ASSUME NEW i \in 1..k, NEW j \in 1..k, xs[i] = xs[j], i # j
                 PROVE  FALSE
      BY <1>1 DEF IsInjective
    <2>1. ids[i] = ids[j] /\ Uses(ids, ids[i], i) = Uses(ids, ids[i], j)
      <3>1. /\ ids[i] = ids[j]
            /\ fill[ids[i]] + Uses(ids, ids[i], i) = fill[ids[j]] + Uses(ids, ids[j], j)
        BY <1>1
      <3> QED  BY <1>2, <3>1
    <2>2. ASSUME NEW a \in 1..k, NEW b \in 1..k, a < b, ids[a] = ids[b]
          PROVE  Uses(ids, ids[a], a) < Uses(ids, ids[a], b)
      <3>1. a \in 0..k /\ b \in 0..k /\ a <= b
        BY <1>1, <2>2
      <3> HIDE DEF k
      <3> QED  BY <2>2, <3>1, UsesGrow DEF k
    <2>3. i < j \/ j < i
      BY <1>1
    <2> QED  BY <1>2, <2>1, <2>2, <2>3
  <1>5. xs \in Seq(Blocks)
    <2>1. xs = [i \in 1..k |-> xs[i]]
      BY <1>1 DEF xs, NextBlocks
    <2> QED  BY <1>1, <1>3, <2>1
  <1> QED  BY <1>1, <1>3, <1>4, <1>5 DEF xs

\* What was published before is older, and is still what it was.
LEMMA ServedLater ==
  ASSUME NEW m, NEW p, Served(m, p), NEW n, n.setup = m.setup, m.older \subseteq n.older,
         \A x \in Blocks : Contains(p.wantedQueue, x) => n.info[x] = m.info[x]
  PROVE  Served(n, p)
  <1>1. Due(p, n.info) = Due(p, m.info)
    BY DEF Due
  <1>2. Ordered(p.wantedQueue, n.older)
    BY DEF Served, Delivering, Ordered
  <1>3. Dropless(n) => Undropped(p)
    BY DEF Served, Dropless
  <1> QED  BY <1>1, <1>2, <1>3 DEF Served, Delivering, NothingLost

LEMMA Publishing ==
  ASSUME Inv, NEW c \in Clients, NEW ids \in Seq(mgr.px[c].slabs.prod), NEW kind \in Kinds,
         NoClientMessages => kind[1] \in MsgIDs, HandleBlocksAndInfo(c, ids, kind)
  PROVE  Inv'
  <1> DEFINE xs == NextBlocks(mgr.fill, ids)
             new == Range(xs)
             fill == [s \in Slabs |-> mgr.fill[s] + Uses(ids, s, Len(ids))]
             info == [x \in Blocks |-> IF x \in new THEN kind ELSE mgr.info[x]]
             older == mgr.older \cup (Referenced(mgr) \X new)
                        \cup {xy \in new \X new :
                                \E i, j \in 1..Len(ids) : i < j /\ xy = <<xs[i], xs[j]>>}
             intact == mgr.intact /\ new \cap Referenced(mgr) = {}
             m0 == [mgr EXCEPT !.fill = fill, !.info = info, !.older = older, !.intact = intact]
             m1 == TakeBlocksAndInfo(m0, c, xs)
             n == Done(m1)
  <1>1. /\ mgr' = n /\ Ok(mgr, Zero) /\ Settled(mgr) /\ mgr \in MgrState /\ mgr.intact
        /\ \A s \in Slabs : fill[s] <= BlocksPerSlab
    BY DEF HandleBlocksAndInfo, Inv, Ok
  <1>2. /\ mgr.fill \in [Slabs -> 0..BlocksPerSlab] /\ mgr.info \in [Blocks -> Kinds]
        /\ mgr.older \in SUBSET (Blocks \X Blocks) /\ mgr.px[c].slabs.prod \in SUBSET Slabs
    BY <1>1, MgrFields, OkClient
  <1>3. \A s \in Slabs : mgr.fill[s] + Uses(ids, s, Len(ids)) <= BlocksPerSlab
    BY <1>1
  <1>4. /\ xs \in Seq(Blocks) /\ IsInjective(xs) /\ Len(xs) = Len(ids)
        /\ \A i \in 1..Len(ids) :
             /\ SlabOf(xs[i]) = ids[i] /\ xs[i][2] > mgr.fill[ids[i]]
             /\ xs[i][2] <= mgr.fill[ids[i]] + Uses(ids, ids[i], Len(ids))
    BY <1>2, <1>3, NextBlocksAre
  <1> HIDE DEF xs
  <1>5. \A s \in Slabs : Uses(ids, s, Len(ids)) \in Nat
    <2>1. Len(ids) \in 0..Len(ids)
      OBVIOUS
    <2> QED  BY <2>1, UsesGrow
  <1>6. fill \in [Slabs -> 0..BlocksPerSlab] /\ \A s \in Slabs : mgr.fill[s] <= fill[s]
    BY <1>2, <1>3, <1>5, ManagerAssumption
  <1>7. ASSUME NEW d \in Clients, NEW i \in 1..Len(ids)
        PROVE  ~Refers(mgr.px[d], xs[i])
    <2>1. SlabOf(xs[i]) \in mgr.px[c].slabs.prod /\ xs[i] \in Blocks /\ SlabOf(xs[i]) = ids[i]
      BY <1>4
    <2>2. Refers(mgr.px[d], xs[i]) => xs[i][2] <= mgr.fill[ids[i]]
      BY <1>1, <2>1 DEF Ok, Filled
    <2>3. xs[i][2] > mgr.fill[ids[i]] /\ xs[i][2] \in Nat /\ mgr.fill[ids[i]] \in Nat
      BY <1>2, <1>4, <2>1, SlabOfBlock
    <2> QED  BY <2>2, <2>3
  <1>8. new \in SUBSET Blocks /\ \A x \in new : \E i \in 1..Len(ids) : x = xs[i]
    BY <1>4 DEF Range
  <1>9. intact
    <2>1. ASSUME NEW x \in new, x \in Referenced(mgr)
          PROVE  FALSE
      <3>1. PICK d \in Clients : x \in mgr.px[d].holding \cup Queued(mgr, d)
        BY <2>1 DEF Referenced
      <3>2. mgr.px[d].wantedQueue \in Seq(Blocks)
        BY <1>1, OkClient
      <3>3. Refers(mgr.px[d], x)
        BY <3>1, <3>2, RangeIs DEF Queued, Refers
      <3> QED  BY <1>7, <1>8, <2>1, <3>3
    <2> QED  BY <1>1, <2>1
  <1>10. info \in [Blocks -> Kinds]
    BY <1>2
  <1>11. older \in SUBSET (Blocks \X Blocks)
    <2>1. Referenced(mgr) \subseteq Blocks
      <3>1. \A d \in Clients : mgr.px[d].holding \in SUBSET Blocks /\ mgr.px[d].wantedQueue \in Seq(Blocks)
        BY <1>1, OkClient
      <3>2. \A d \in Clients : Queued(mgr, d) \subseteq Blocks
        BY <3>1, RangeIs DEF Queued
      <3> QED  BY <3>1, <3>2 DEF Referenced
    <2> HIDE DEF new
    <2> QED  BY <1>2, <1>8, <2>1
  <1>12. /\ \A i \in 1..Len(ids) : xs[i] \in new /\ xs[i] \in Blocks /\ info[xs[i]] = kind
         /\ \A x \in Blocks : x \notin new => info[x] = mgr.info[x]
    <2>1. \A i \in 1..Len(ids) : xs[i] \in new /\ xs[i] \in Blocks
      BY <1>4 DEF Range
    <2> HIDE DEF new
    <2> QED  BY <2>1
  <1>13. /\ mgr.older \subseteq older
         /\ \A x \in Referenced(mgr), i \in 1..Len(ids) : <<x, xs[i]>> \in older
         /\ \A i, j \in 1..Len(ids) : i < j => <<xs[i], xs[j]>> \in older
    <2> HIDE DEF new
    <2> QED  BY <1>12
  <1> HIDE DEF fill, info, older, intact, new
  <1>14. /\ m0 \in MgrState /\ m0.sm = mgr.sm /\ m0.px = mgr.px /\ m0.fill = fill /\ m0.intact
         /\ m0.err = mgr.err /\ m0.setup = mgr.setup /\ m0.info = info /\ m0.older = older
    BY <1>1, <1>6, <1>9, <1>10, <1>11 DEF MgrState
  <1> HIDE DEF m0
  <1>15. Ok(m0, Zero)
    BY <1>1, <1>6, <1>14, FillOk
  <1>16. Settled(m0)
    <2>1. ASSUME NEW d \in Clients
          PROVE  Served(m0, m0.px[d]) /\ (~Up(m0, d) => Bare(m0.px[d]))
      <3>1. \A x \in Blocks : Contains(mgr.px[d].wantedQueue, x) => m0.info[x] = mgr.info[x]
        BY <1>7, <1>8, <1>14, <1>12 DEF Refers
      <3>2. Served(mgr, mgr.px[d]) /\ (~Up(mgr, d) => Bare(mgr.px[d]))
        BY <1>1 DEF Settled
      <3>3. Served(m0, mgr.px[d])
        BY <1>14, <1>13, <3>1, <3>2, ServedLater
      <3> QED  BY <1>14, <3>2, <3>3 DEF Up
    <2>2. SameBooks(mgr, m0)
      BY <1>14 DEF SameBooks, SameSizes
    <2> QED  BY <1>1, <2>1, <2>2, BookedSame DEF Settled
  <1>17. \A d \in Clients : NotYet(m0.older, m0.px[d], xs, 0)
    <2>1. ASSUME NEW d \in Clients, NEW y \in Blocks, Refers(mgr.px[d], y)
          PROVE  y \in Referenced(mgr)
      <3>1. mgr.px[d].wantedQueue \in Seq(Blocks)
        BY <1>1, OkClient
      <3>2. y \in mgr.px[d].holding \/ y \in Queued(mgr, d)
        BY <2>1, <3>1, RangeIs DEF Refers, Queued
      <3> QED  BY <3>2 DEF Referenced
    <2> QED  BY <1>4, <1>7, <1>14, <1>13, <2>1 DEF NotYet
  <1>18. Serial(m0, xs)
    <2>1. NoClientMessages => kind[1] # CCIMessageID
      BY ManagerAssumption
    <2> QED  BY <1>4, <1>14, <1>12, <1>13, <2>1 DEF Serial
  <1>19. \A i \in 1..Len(xs) : Published(m0, c, xs[i])
    <2> SUFFICES ASSUME NEW i \in 1..Len(ids)
                 PROVE  SlabOf(xs[i]) \in mgr.px[c].slabs.prod /\ xs[i][2] <= fill[SlabOf(xs[i])]
      BY <1>4, <1>14 DEF Published
    <2>1. SlabOf(xs[i]) = ids[i] /\ ids[i] \in mgr.px[c].slabs.prod /\ ids[i] \in Slabs
      BY <1>2, <1>4
    <2>2. xs[i][2] <= fill[ids[i]]
      BY <1>4, <2>1 DEF fill
    <2> QED  BY <2>1, <2>2
  <1>20. Ok(m1, Zero) /\ Settled(m1)
    BY <1>4, <1>15, <1>16, <1>17, <1>19, <1>18, TakeBlocksOk
  <1> HIDE DEF m1
  <1>21. Ok(n, Zero) /\ Settled(n)
    BY <1>20, DoneOk
  <1> HIDE DEF n
  <1>22. (Ok(mgr, Zero) /\ Settled(mgr))' <=> Ok(n, Zero) /\ Settled(n)
    BY <1>1
  <1> QED  BY <1>21, <1>22 DEF Inv

-----------------------------------------------------------------------------
(***************************************************************************)
(* The start, and the theorems.                                            *)
(***************************************************************************)
LEMMA SetupFields ==
  ASSUME NEW setup \in Setups, NEW c \in Clients
  PROVE  /\ setup.numBuffers \in InitBuffers..MaxBuffers /\ setup.playback \in {0, 1}
         /\ setup.options[c].numSlabs \in SUBSET (Asked \X Asked)
         /\ setup.options[c].nice \in SUBSET Int /\ setup.options[c].groups \in SUBSET Nat
         /\ setup.options[c].register \in SUBSET MsgIDs /\ setup.options[c].deregister \in SUBSET MsgIDs
         /\ setup.options[c].publish \in SUBSET Kinds
  <1>1. setup \in Setup
    BY ManagerAssumption
  <1>2. setup.options[c] \in OptionSet
    BY <1>1 DEF Setup
  <1> QED  BY <1>1, <1>2 DEF Setup, OptionSet

\* Nothing is reserved.
LEMMA NobodyReserves ==
  ASSUME NEW m, Matched(m.sm), m.sm.reserved = 0, \A c \in Clients : Bare(m.px[c])
  PROVE  Booked(m)
  <1> DEFINE N == SM!NumSlabs(m.sm)
  <1>1. \A c \in Clients : m.px[c].slabs.numProdSlabs + m.px[c].slabs.numConsSlabs = 0
    BY DEF Bare
  <1>2. Reservations(m) = {}
    BY <1>1 DEF Reservations
  <1>3. N \in Nat /\ 0 \in Nat /\ 0 + N = N
    BY SlabSums
  <1>4. SM!NumSlabsNonreservable(m.sm) = P!Nonreservable(N)
    BY DEF SM!NumSlabsNonreservable, P!Nonreservable
  <1> HIDE DEF N
  <1>5. P!Nonreservable(0 + N) <= P!Nonreservable(0) + N /\ P!Nonreservable(0) = 0
    BY <1>3, P!NonreservableGrows, SlabsAssumption, SlabsAre
  <1>6. SM!NumSlabsNonreservable(m.sm) \in Nat /\ SM!NumSlabsNonreservable(m.sm) <= N
    BY <1>3, <1>4, <1>5, SlabSums
  <1>7. Bounded(m.sm)
    BY <1>6 DEF Bounded, N
  <1> QED  BY <1>2, <1>7, FS_EmptySet DEF Booked

LEMMA Starting ==
  ASSUME Init
  PROVE  Inv
  <1>1. PICK setup \in Setups :
          mgr = [setup |-> setup,
                 sm |-> SM!NumBuffers(SM!NewSlabManager, setup.numBuffers),
                 rq |-> RQ!NoRequests,
                 px |-> [c \in Clients |-> Absent("new")],
                 info |-> [x \in Blocks |-> NoInfo],
                 fill |-> [s \in Slabs |-> 0],
                 older |-> {}, intact |-> TRUE, err |-> FALSE, ranOut |-> FALSE]
    BY DEF Init
  <1> DEFINE sm == SM!NumBuffers(SM!NewSlabManager, setup.numBuffers)
             p == Absent("new")
  <1>2. setup.numBuffers \in InitBuffers..MaxBuffers
    <2>1. setup \in Setup
      BY ManagerAssumption
    <2> QED  BY <2>1 DEF Setup
  <1>3. /\ Matched(sm) /\ sm.reserved = 0
        /\ \A s \in Slabs : sm.heldRefcnt[s] = 0 /\ sm.wantedSegs[s] = <<>>
    BY <1>2, StartMatched
  <1>4. /\ p \in ProxyState /\ p.slabs = T!NewTracker /\ p.holding = {} /\ Bare(p)
        /\ p.slabs.prod = {} /\ Counts(p.slabs, p.holding) /\ p.state = "new"
        /\ p.owed = {} /\ ~p.lost /\ p.inOrder /\ ~p.needReport /\ ~p.throttle /\ p.nice = 0
    BY NewProxyIs
  <1>5. p.wantedQueue = <<>>
    BY <1>4 DEF Bare
  <1>6. RQ!NoRequests \in [RQ!Levels -> Seq(Request)]
    BY DEF RQ!NoRequests
  <1>7. NoInfo \in Kinds /\ 0 \in 0..BlocksPerSlab
    BY ManagerAssumption DEF NoInfo, Kinds
  <1> HIDE DEF sm, p
  <1>8. /\ mgr.sm = sm /\ (\A c \in Clients : mgr.px[c] = p) /\ mgr.intact /\ ~mgr.err
        /\ mgr.fill = [s \in Slabs |-> 0]
    BY <1>1 DEF sm, p
  <1>9. mgr \in MgrState
    <2>1. sm \in SM!SlabState
      BY <1>3 DEF Matched
    <2> QED  BY <1>1, <1>4, <1>6, <1>7, <2>1 DEF MgrState, sm, p
  <1>10. References(mgr, Zero)
    <2> SUFFICES ASSUME NEW s \in Slabs
                 PROVE  sm.heldRefcnt[s] =
                          Cardinality(Producers(mgr, s)) + Cardinality(Readers(mgr, s)) + Zero[s]
      BY <1>8 DEF References
    <2>1. Producers(mgr, s) = {} /\ Readers(mgr, s) = {}
      BY <1>4, <1>8 DEF Producers, Readers
    <2>2. Zero[s] = 0
      BY DEF Zero
    <2> QED  BY <1>3, <2>1, <2>2, FS_EmptySet
  <1>11. Trackers(mgr)
    BY <1>4, <1>8 DEF Trackers
  <1>12. \A y : ~Contains(<<>>, y)
    BY DEF Contains
  <1>13. Queues(mgr)
    BY <1>3, <1>8, <1>12, <1>5 DEF Queues, IsInjective
  <1>14. Gone(mgr) /\ Filled(mgr)
    BY <1>4, <1>8, <1>12, <1>5 DEF Gone, Filled, Refers
  <1>15. Settled(mgr)
    <2>1. Served(mgr, p)
      BY <1>4, <1>5, NothingServed
    <2>2. Booked(mgr)
      BY <1>3, <1>4, <1>8, NobodyReserves
    <2> QED  BY <1>4, <1>8, <2>1, <2>2 DEF Settled
  <1>16. Zero \in [Slabs -> Nat]
    BY DEF Zero
  <1> QED  BY <1>3, <1>8, <1>9, <1>10, <1>11, <1>13, <1>14, <1>16, <1>15 DEF Inv, Ok

LEMMA BoundedIs ==
  ASSUME NEW S, NEW k, NEW q \in BoundedSeq(S, k)
  PROVE  q \in Seq(S)
  <1>1. PICK m \in 0..k : q \in [1..m -> S]
    BY DEF BoundedSeq, SeqOf
  <1> QED  BY <1>1

LEMMA ClientStepOk ==
  ASSUME Inv, NEW c \in Clients, ClientStep(c)
  PROVE  Inv'
  <1>1. mgr.setup \in Setups
    BY MgrFields DEF Inv, Ok
  <1> DEFINE options == mgr.setup.options[c]
  <1>2. /\ options.numSlabs \in SUBSET (Asked \X Asked) /\ options.nice \in SUBSET Int
        /\ options.groups \in SUBSET Nat /\ options.register \in SUBSET MsgIDs
        /\ options.deregister \in SUBSET MsgIDs /\ options.publish \in SUBSET Kinds
    BY <1>1, SetupFields
  <1> HIDE DEF options
  <1>3. CASE AddConnectedClient(c)
    BY <1>3, Connecting
  <1>4. ASSUME NEW n \in options.numSlabs, HandleNumSlabs(c, n[1], n[2])
        PROVE  Inv'
    <2>1. n[1] \in Asked /\ n[2] \in Asked
      BY <1>2
    <2>2. AsksFit => n[1] + n[2] + TotalNumSlabs < UIntRange
      BY <1>1 DEF AsksFit, options
    <2> QED  BY <1>4, <2>1, <2>2, Reserving
  <1>5. ASSUME NEW level \in options.nice, HandleProdNiceLevel(c, level)
        PROVE  Inv'
    <2>1. Dropless(mgr) => ((level + 128) % 256) - 128 # -1
      BY <1>1 DEF Dropless, PlaybackWaits, options
    <2>2. level \in Int
      BY <1>2
    <2> QED  BY <1>5, <2>1, <2>2, Levelled
  <1>6. ASSUME NEW gid \in options.groups, HandleGroupIDStr(c, gid)
        PROVE  Inv'
    BY <1>2, <1>6, Grouped
  <1>7. ASSUME NEW id \in options.register \cup options.deregister, Register(c, id) \/ Deregister(c, id)
        PROVE  Inv'
    BY <1>2, <1>7, Registered
  <1>8. ASSUME NEW kind \in options.publish,
               NEW ids \in BoundedSeq(mgr.px[c].slabs.prod, MaxBatch) \ {<<>>},
               HandleBlocksAndInfo(c, ids, kind)
        PROVE  Inv'
    <2>1. ids \in Seq(mgr.px[c].slabs.prod) /\ kind \in Kinds
      BY <1>2, BoundedIs
    <2>2. NoClientMessages => kind[1] \in MsgIDs
      BY <1>1 DEF NoClientMessages, options
    <2> QED  BY <1>8, <2>1, <2>2, Publishing
  <1>9. ASSUME NEW xs \in Arrays(mgr.px[c].holding), HandleBlockIDs(c, xs)
        PROVE  Inv'
    <2>1. xs \in Seq(mgr.px[c].holding) /\ IsInjective(xs)
      BY BoundedIs DEF Arrays
    <2> QED  BY <1>9, <2>1, Returning
  <1>10. ASSUME NEW ids \in Arrays(mgr.px[c].slabs.prod), HandleSlabIDs(c, ids)
         PROVE  Inv'
    <2>1. ids \in Seq(mgr.px[c].slabs.prod) /\ IsInjective(ids)
      BY BoundedIs DEF Arrays
    <2> QED  BY <1>10, <2>1, GivingBack
  <1>11. CASE HandleDropReportAck(c)
    BY <1>11, Acknowledged
  <1>12. CASE SendFails(c)
    BY <1>12, SendFailed
  <1>13. CASE DeleteClient(c)
    BY <1>13, Deleting
  <1> QED
    BY <1>3, <1>4, <1>5, <1>6, <1>7, <1>8, <1>9, <1>10, <1>11, <1>12, <1>13
    DEF ClientStep, options

(***************************************************************************)
(* In every reachable state references, trackers, queues and wanted        *)
(* segments agree, no slab that is referred to was handed out, and no      *)
(* exception occurred, whatever the clients do and however many there are: *)
(* each handler of ClientProxy.cc gives back what it takes, through all    *)
(* the callbacks of the slab manager.  Segments are sent in order, one     *)
(* that leaves a queue unsent is reported, and what is reserved is what    *)
(* the clients have reserved.                                              *)
(***************************************************************************)
THEOREM ManagerConsistent == Spec => []Inv
  <1>1. Init => Inv
    BY Starting
  <1>2. Inv /\ [Next]_mgr => Inv'
    <2> SUFFICES ASSUME Inv, [Next]_mgr
                 PROVE  Inv'
      OBVIOUS
    <2>1. CASE Next
      BY <2>1, ClientStepOk DEF Next
    <2>2. CASE UNCHANGED mgr
      <3>1. (Ok(mgr, Zero) /\ Settled(mgr))' <=> Ok(mgr, Zero) /\ Settled(mgr)
        BY <2>2
      <3> QED  BY <3>1 DEF Inv
    <2> QED  BY <2>1, <2>2
  <1> QED  BY <1>1, <1>2, PTL DEF Spec

(***************************************************************************)
(* A slab's heldRefcnt is the number of its producers and of the segments  *)
(* in it that consumers were sent and have not returned                    *)
(* (ClientProxy.cc, IncrementHeldRefcnt and DecrementHeldRefcnt).          *)
(***************************************************************************)
THEOREM RefcntAlwaysConserved == Spec => []RefcntConserved
  <1>1. Inv => RefcntConserved
    <2> SUFFICES ASSUME Inv, NEW s \in Slabs
                 PROVE  mgr.sm.heldRefcnt[s] =
                          Cardinality(Producers(mgr, s)) + Cardinality(Readers(mgr, s))
      BY DEF RefcntConserved
    <2>1. mgr.sm.heldRefcnt[s] =
            Cardinality(Producers(mgr, s)) + Cardinality(Readers(mgr, s)) + Zero[s]
      BY DEF Inv, Ok, References
    <2>2. Zero[s] = 0
      BY DEF Zero
    <2> QED  BY <2>1, <2>2, RefSets
  <1> QED  BY <1>1, ManagerConsistent, PTL

(***************************************************************************)
(* Each connected client's tracker counts what the client holds, and stays *)
(* within the reservation (ProxySlabTracker.cc).                           *)
(***************************************************************************)
THEOREM TrackersAlwaysCount == Spec => []TrackersCount
  <1>1. Inv => TrackersCount
    <2> SUFFICES ASSUME Inv, NEW c \in Clients
                 PROVE  /\ Tracker(c).prodSlabsHeld = Cardinality(Tracker(c).prod)
                        /\ Tracker(c).consSlabsHeld = Cardinality({s \in Slabs : Tracker(c).cons[s] > 0})
                        /\ Tracker(c).consSlabsHeld <= Tracker(c).numConsSlabs
                        /\ \A s \in Slabs :
                             Tracker(c).cons[s] = Cardinality({x \in Proxy(c).holding : SlabOf(x) = s})
      BY DEF TrackersCount, Connected
    <2>1. Counts(mgr.px[c].slabs, mgr.px[c].holding)
      BY DEF Inv, Ok, Trackers
    <2> QED  BY <2>1 DEF Counts, In, Tracker, Proxy
  <1> QED  BY <1>1, ManagerConsistent, PTL

(***************************************************************************)
(* A wanted segment is in its client's wantedQueue and on its slab's       *)
(* wantedSegs, or on neither (WantedSegment.h).                            *)
(***************************************************************************)
THEOREM WantedListsAlwaysAgree == Spec => []WantedListsAgree
  <1>1. Inv => WantedListsAgree
    <2> SUFFICES ASSUME Inv, NEW s \in Slabs
                 PROVE  /\ IsInjective(mgr.sm.wantedSegs[s])
                        /\ Range(mgr.sm.wantedSegs[s]) =
                             {cx \in Connected(mgr) \X Blocks :
                                cx[2] \in Queued(mgr, cx[1]) /\ SlabOf(cx[2]) = s}
      BY DEF WantedListsAgree
    <2>1. Ok(mgr, Zero) /\ Settled(mgr) /\ Matched(mgr.sm)
      BY DEF Inv, Ok
    <2>2. mgr.sm.wantedSegs[s] \in Seq(Clients \X Blocks) /\ IsInjective(mgr.sm.wantedSegs[s])
      BY <2>1, MatchedLists
    <2>3. \A cx : cx \in Range(mgr.sm.wantedSegs[s]) <=> Contains(mgr.sm.wantedSegs[s], cx)
      BY <2>2, RangeIs
    <2>4. Range(mgr.sm.wantedSegs[s]) \subseteq Clients \X Blocks
      BY <2>2, RangeIs
    <2>5. \A c \in Clients, x \in Blocks :
            Contains(mgr.sm.wantedSegs[s], <<c, x>>) <=>
              Contains(mgr.px[c].wantedQueue, x) /\ SlabOf(x) = s
      BY <2>1 DEF Ok, Queues
    <2>6. \A c \in Clients, x \in Blocks : x \in Queued(mgr, c) <=> Contains(mgr.px[c].wantedQueue, x)
      <3> SUFFICES ASSUME NEW c \in Clients, NEW x \in Blocks
                   PROVE  x \in Range(mgr.px[c].wantedQueue) <=> Contains(mgr.px[c].wantedQueue, x)
        BY DEF Queued
      <3>1. mgr.px[c].wantedQueue \in Seq(Blocks)
        BY <2>1, OkClient
      <3> QED  BY <3>1, RangeIs
    <2>7. \A c \in Clients, x \in Blocks : Contains(mgr.px[c].wantedQueue, x) => c \in Connected(mgr)
      <3>1. \A y : ~Contains(<<>>, y)
        BY DEF Contains
      <3> QED  BY <2>1, <3>1 DEF Settled, Bare, Connected
    <2>8. Connected(mgr) \subseteq Clients
      BY DEF Connected
    <2>9. \A c \in Clients, x \in Blocks :
            <<c, x>> \in Range(mgr.sm.wantedSegs[s]) <=>
              c \in Connected(mgr) /\ x \in Queued(mgr, c) /\ SlabOf(x) = s
      BY <2>3, <2>5, <2>6, <2>7
    <2>10. Range(mgr.sm.wantedSegs[s]) =
             {cx \in Connected(mgr) \X Blocks :
                cx[2] \in Queued(mgr, cx[1]) /\ SlabOf(cx[2]) = s}
      BY <2>4, <2>8, <2>9
    <2> QED  BY <2>2, <2>10
  <1> QED  BY <1>1, ManagerConsistent, PTL

(***************************************************************************)
(* No slab is handed to a producer, and no block written, while a segment  *)
(* in it is read or queued (ClientProxy.cc, SlabManager.cc).               *)
(***************************************************************************)
THEOREM ContentAlwaysIntact == Spec => []ContentIntact
  <1>1. Inv => ContentIntact
    BY DEF Inv, Ok, ContentIntact
  <1> QED  BY <1>1, ManagerConsistent, PTL

(***************************************************************************)
(* None of the exceptions that the manager marks as impossible is thrown   *)
(* (SlabManager.cc, ProxySlabTracker.cc).                                  *)
(***************************************************************************)
THEOREM NothingEverThrown == Spec => []NothingThrown
  <1>1. Inv => NothingThrown
    BY DEF Inv, Ok, NothingThrown
  <1> QED  BY <1>1, ManagerConsistent, PTL

(***************************************************************************)
(* An array that returns more segments of a slab than the client holds is  *)
(* refused, no other one is, and the tracker is then what it was, also     *)
(* where a refcount wrapped on the way (ProxySlabTracker.cc:135).          *)
(***************************************************************************)
THEOREM OverReturnAlwaysRefused == Spec => []OverReturnRefused
  <1>1. Inv => OverReturnRefused
    <2> SUFFICES ASSUME Inv, NEW c \in Clients, NEW ids \in [1..2 -> Slabs]
                 PROVE  LET t == Tracker(c)
                            over == \E s \in ToSet(ids) :
                                      Cardinality({i \in 1..Len(ids) : ids[i] = s}) > t.cons[s]
                        IN  /\ T!DecrementErrs(t, ids) <=> over
                            /\ over => T!DecrementConsSlabs(t, ids) = t
      BY DEF OverReturnRefused, Connected
    <2>1. /\ Tracker(c) \in TrackerState /\ Counts(Tracker(c), mgr.px[c].holding)
          /\ mgr.px[c].holding \in SUBSET Blocks
      BY OkClient DEF Inv, Tracker
    <2> QED  BY <2>1, TwoRefused
  <1> QED  BY <1>1, ManagerConsistent, PTL

(***************************************************************************)
(* Every client gets its segments in the order in which they were          *)
(* published, none twice: those sent at once, those that waited, and those *)
(* sent after others were dropped (SendSegments, PopWantedQueue).          *)
(***************************************************************************)
THEOREM DeliveryAlwaysInOrder == Spec => []DeliveryInOrder
  <1>1. Inv => DeliveryInOrder
    <2> SUFFICES ASSUME Inv, NEW c \in Clients
                 PROVE  Proxy(c).inOrder /\ Ordered(Proxy(c).wantedQueue, mgr.older)
      BY DEF DeliveryInOrder, Connected, Ordered
    <2>1. Served(mgr, mgr.px[c])
      BY DEF Inv, Settled
    <2> QED  BY <2>1 DEF Served, Delivering, Proxy
  <1> QED  BY <1>1, ManagerConsistent, PTL

(***************************************************************************)
(* No segment that a client wanted leaves its queue unsent, unless the     *)
(* client is told or has deregistered, and no report is held back without  *)
(* cause (README.md:30), as long as clients publish under message IDs that *)
(* others can register for: PopWantedQueue looks a waiting segment's ID up *)
(* among the registered ones, and the reserved ID of client-to-client      *)
(* messages is never there (ClientProxy.cc:355).                           *)
(***************************************************************************)
THEOREM NothingLostSilently ==
  ASSUME NoClientMessages
  PROVE  Spec => []NoSilentLoss
  <1>1. Inv => NoSilentLoss
    <2> SUFFICES ASSUME Inv, NEW c \in Clients
                 PROVE  ~Proxy(c).lost /\ (Proxy(c).needReport => Proxy(c).throttle)
      BY DEF NoSilentLoss, Connected
    <2>1. Served(mgr, mgr.px[c])
      BY DEF Inv, Settled
    <2> QED  BY <2>1 DEF Served, Delivering, NothingLost, Proxy
  <1> QED  BY <1>1, ManagerConsistent, PTL

(***************************************************************************)
(* In playback mode no drop report is ever due or sent                     *)
(* (ManagerParams.cc:178), as long as no producer asks for the nice level  *)
(* -1: RequestFreeSlabs adds the mode to the level, and that producer is   *)
(* then greedy and harvests (ClientProxy.cc).  It says nothing of segments *)
(* that leave a queue without a report.                                    *)
(***************************************************************************)
THEOREM PlaybackNeverReports ==
  ASSUME PlaybackWaits
  PROVE  Spec => []PlaybackLossless
  <1>1. Inv => PlaybackLossless
    <2> SUFFICES ASSUME Inv, mgr.setup.playback = 1, NEW c \in Clients
                 PROVE  ~Proxy(c).needReport /\ ~Proxy(c).throttle
      BY DEF PlaybackLossless
    <2>1. Served(mgr, mgr.px[c])
      BY DEF Inv, Settled
    <2> QED  BY <2>1 DEF Served, Dropless, Undropped, Proxy
  <1> QED  BY <1>1, ManagerConsistent, PTL

(***************************************************************************)
(* In playback mode nothing is dropped: a segment that a client wanted     *)
(* leaves its queue only when it is sent, or forgone by deregistering.     *)
(* The two cases in which something else can happen are excluded: a        *)
(* producer of nice level -1, and client-to-client messages, which leave   *)
(* the queue unsent in this mode too (ClientProxy.cc:355).                 *)
(***************************************************************************)
THEOREM PlaybackLosesNothing ==
  ASSUME PlaybackWaits, NoClientMessages
  PROVE  Spec => [](PlaybackLossless /\ NoSilentLoss)
  BY PlaybackNeverReports, NothingLostSilently, PTL

(***************************************************************************)
(* numSlabsReserved is what the connected clients reserved, also after     *)
(* repeated and refused NumSlabs messages and after disconnections, as     *)
(* long as no client asks for so many slabs that the unsigned sum wraps    *)
(* (SlabManager.cc, GetSlabReservation and ReleaseSlabReservation).        *)
(***************************************************************************)
THEOREM ReservedAlwaysSum ==
  ASSUME AsksFit
  PROVE  Spec => []ReservedIsSum
  <1>1. Inv => ReservedIsSum
    BY DEF Inv, Settled, Booked, ReservedIsSum
  <1> QED  BY <1>1, ManagerConsistent, PTL
=============================================================================
