---------------------------- MODULE SlabManager ----------------------------
(***************************************************************************)
(* The manager's bookkeeping of shared-memory slabs                        *)
(* (apps/MCSBManager/SlabManager.cc).  Every slab is on exactly one of     *)
(* three intrusive lists: free, held (a producer or a consumer has it) or  *)
(* wanted (nobody has it, but consumers that are behind still have         *)
(* segments queued in it).  The slab manager's state is one record, and    *)
(* each of its operations is an operator from that record to the next one, *)
(* so that a handler of the manager that makes several calls is a          *)
(* composition of these operators (module Manager).                        *)
(*                                                                         *)
(* Operations that loop over an array of slab IDs are given by their loop  *)
(* body, for one slab: the state-change handler runs between iterations.   *)
(*                                                                         *)
(* Spec is the component by itself, under any caller that releases only    *)
(* what it holds.                                                          *)
(***************************************************************************)
EXTENDS Integers, Sequences, FiniteSets, SequencesExt

CONSTANTS
  SlabsPerBuf,       \* slabs in one shared-memory buffer
  InitBuffers,       \* buffers created by the constructor
  MaxBuffers,        \* ManagerParams::maxNumBuffers
  PctNonreservable,  \* percentage of the slabs that is never reserved
  UIntRange,         \* 2^32 in the program: the range of uint32_t
  Segments,          \* identities of WantedSegment objects
  MaxRefcnt,         \* bound on a slab's refcount in Spec
  AskedSlabs         \* sizes that callers of Spec reserve and release

ASSUME BufferAssumption ==
  /\ SlabsPerBuf \in Nat \ {0}
  /\ InitBuffers \in Nat \ {0}
  /\ MaxBuffers \in Nat /\ InitBuffers <= MaxBuffers
  /\ UIntRange \in Nat /\ SlabsPerBuf * MaxBuffers < UIntRange

ASSUME PctAssumption == PctNonreservable \in 0..99

ASSUME CallerAssumption == MaxRefcnt \in Nat /\ AskedSlabs \subseteq 0..(UIntRange - 1)

Slabs == 0..(SlabsPerBuf * MaxBuffers - 1)

(***************************************************************************)
(* The state: SlabManager's members and the SlabInfo of every slab.        *)
(* heldSlabs is never traversed, so its order is left out.                 *)
(***************************************************************************)
SlabState ==
  [numBuffers : 0..MaxBuffers,
   reserved   : 0..(UIntRange - 1),   \* numSlabsReserved
   free       : Seq(Slabs),           \* freeSlabs
   held       : SUBSET Slabs,         \* heldSlabs
   wanted     : Seq(Slabs),           \* wantedSlabs
   heldRefcnt : [Slabs -> Nat],
   wantedSegs : [Slabs -> Seq(Segments)]]

\* Sum of two uint32_t values.
UAdd(a, b) == IF a + b < UIntRange THEN a + b ELSE a + b - UIntRange

NumSlabs(sm) == SlabsPerBuf * sm.numBuffers

\* ceil(pctNonreservable/100*NumSlabs()); recomputed when NumBuffers grows
NumSlabsNonreservable(sm) == (PctNonreservable * NumSlabs(sm) + 99) \div 100

Held(sm, s)   == sm.heldRefcnt[s] > 0
Wanted(sm, s) == sm.wantedSegs[s] # <<>>

(***************************************************************************)
(* Growing: the slabs of the new buffers join freeSlabs in order.  The     *)
(* state-change handler is not called for them.                            *)
(***************************************************************************)
NumBuffers(sm, n) ==
  IF n <= sm.numBuffers
  THEN sm
  ELSE [sm EXCEPT
          !.numBuffers = n,
          !.free = @ \o [i \in 1..(SlabsPerBuf * (n - sm.numBuffers)) |-> NumSlabs(sm) + i - 1]]

\* The constructor.
NewSlabManager ==
  NumBuffers([numBuffers |-> 0, reserved |-> 0,
              free |-> <<>>, held |-> {}, wanted |-> <<>>,
              heldRefcnt |-> [s \in Slabs |-> 0],
              wantedSegs |-> [s \in Slabs |-> <<>>]],
             InitBuffers)

\* Mutants of three operations below: an error that one could make in their code.
\* (The share set aside is the one that the constructor computed, for good.)
CanReserveInitialShare(sm, n) ==
  n = 0 \/ UAdd(UAdd(sm.reserved, NumSlabsNonreservable(NewSlabManager)), n) <= NumSlabs(sm)
ReleaseUnchecked(sm, n) == [sm EXCEPT !.reserved = @ - n]
ReleaseNotLast(sm, n) == IF n >= sm.reserved THEN sm ELSE [sm EXCEPT !.reserved = @ - n]

\* GetSlabReservation(n) returns 0
CanReserve(sm, n) ==
  n = 0 \/ UAdd(UAdd(sm.reserved, NumSlabsNonreservable(sm)), n) <= NumSlabs(sm)

GetSlabReservation(sm, n) == [sm EXCEPT !.reserved = UAdd(@, n)]

ReleaseSlabReservation(sm, n) ==
  IF n > sm.reserved THEN sm ELSE [sm EXCEPT !.reserved = @ - n]

(***************************************************************************)
(* GetFreeSlabs, for one slab: the front of freeSlabs becomes held.        *)
(***************************************************************************)
GetFreeSlabThrows(sm) == Held(sm, Head(sm.free)) \/ Wanted(sm, Head(sm.free))

GetFreeSlab(sm) ==
  LET s == Head(sm.free)
  IN  [sm EXCEPT !.free = Tail(@),
                 !.held = @ \cup {s},
                 !.heldRefcnt[s] = @ + 1]

(***************************************************************************)
(* IncrementHeldRefcnt, for one slab: only held or wanted slabs may gain a *)
(* reference, and a wanted one becomes held.                               *)
(***************************************************************************)
IncrementThrows(sm, s) == ~Held(sm, s) /\ ~Wanted(sm, s)

\* Mutant: a wanted slab stays on wantedSlabs when it becomes held.
IncrementKeepsWanted(sm, s) ==
  [sm EXCEPT !.held = @ \cup {s}, !.heldRefcnt[s] = @ + 1]

IncrementHeldRefcnt(sm, s) ==
  [sm EXCEPT !.wanted = IF Held(sm, s) THEN @ ELSE RemoveFirst(@, s),
             !.held = @ \cup {s},
             !.heldRefcnt[s] = @ + 1]

(***************************************************************************)
(* DecrementHeldRefcnt, for one slab: with its last reference gone the     *)
(* slab leaves heldSlabs for wantedSlabs or freeSlabs.                     *)
(***************************************************************************)
DecrementThrows(sm, s, amount) == sm.heldRefcnt[s] < amount

\* Mutant: an unheld slab is free, whoever still wants its segments.
DecrementFreesWanted(sm, s, amount) ==
  LET unheld == sm.heldRefcnt[s] = amount
  IN  [sm EXCEPT
         !.heldRefcnt[s] = @ - amount,
         !.held = IF unheld THEN @ \ {s} ELSE @,
         !.free = IF unheld THEN Append(@, s) ELSE @]

DecrementHeldRefcnt(sm, s, amount) ==
  LET unheld == sm.heldRefcnt[s] = amount
  IN  [sm EXCEPT
         !.heldRefcnt[s] = @ - amount,
         !.held   = IF unheld THEN @ \ {s} ELSE @,
         !.wanted = IF unheld /\ Wanted(sm, s) THEN Append(@, s) ELSE @,
         !.free   = IF unheld /\ ~Wanted(sm, s) THEN Append(@, s) ELSE @]

(***************************************************************************)
(* Wanted segments.  The pool of unused WantedSegment objects grows on     *)
(* demand (AddWantedSegmentBlock), so it is not part of the state.         *)
(***************************************************************************)
GetWantedThrows(sm, s) == ~Held(sm, s) /\ ~Wanted(sm, s)

GetWantedSegment(sm, seg, s) ==
  [sm EXCEPT !.wantedSegs[s] = Append(@, seg)]

\* Mutant: the slab's first segment is released, whichever one was given.
ReleaseFirstWanted(sm, seg, s) ==
  LET segs  == Tail(sm.wantedSegs[s])
      freed == segs = <<>> /\ ~Held(sm, s)
  IN  [sm EXCEPT
         !.wantedSegs[s] = segs,
         !.wanted = IF freed THEN RemoveFirst(@, s) ELSE @,
         !.free   = IF freed THEN Append(@, s) ELSE @]

ReleaseWantedSegment(sm, seg, s) ==
  LET segs  == RemoveFirst(sm.wantedSegs[s], seg)
      freed == segs = <<>> /\ ~Held(sm, s)
  IN  [sm EXCEPT
         !.wantedSegs[s] = segs,
         !.wanted = IF freed THEN RemoveFirst(@, s) ELSE @,
         !.free   = IF freed THEN Append(@, s) ELSE @]

\* FrontWantedSegment: the oldest segment of the slab that has been wanted longest.
FrontWantedSegment(sm) == Head(sm.wantedSegs[Head(sm.wanted)])

\* the WantedSegment objects in use
NumWantedSegs(sm) ==
  Cardinality(UNION {{s} \X (1..Len(sm.wantedSegs[s])) : s \in Slabs})

\* CallStateChangeHandler(kHeldToFree or kWantedToFree): the step freed slab s.
BecameFree(sm, new) == Len(new.free) > Len(sm.free)

-----------------------------------------------------------------------------
VARIABLE slabMgr

Init == slabMgr = NewSlabManager

Grow(n) ==
  /\ n > slabMgr.numBuffers
  /\ slabMgr' = NumBuffers(slabMgr, n)

Reserve(n) ==
  /\ CanReserve(slabMgr, n)
  /\ slabMgr' = GetSlabReservation(slabMgr, n)

Unreserve(n) == slabMgr' = ReleaseSlabReservation(slabMgr, n)

Acquire ==
  /\ slabMgr.free # <<>>
  /\ ~GetFreeSlabThrows(slabMgr)
  /\ slabMgr' = GetFreeSlab(slabMgr)

Increment(s) ==
  /\ ~IncrementThrows(slabMgr, s)
  /\ slabMgr.heldRefcnt[s] < MaxRefcnt
  /\ slabMgr' = IncrementHeldRefcnt(slabMgr, s)

Decrement(s, amount) ==
  /\ ~DecrementThrows(slabMgr, s, amount)
  /\ slabMgr' = DecrementHeldRefcnt(slabMgr, s, amount)

Want(seg, s) ==
  /\ ~GetWantedThrows(slabMgr, s)
  /\ \A t \in Slabs : ~Contains(slabMgr.wantedSegs[t], seg)
  /\ slabMgr' = GetWantedSegment(slabMgr, seg, s)

Unwant(seg, s) ==
  /\ Contains(slabMgr.wantedSegs[s], seg)
  /\ slabMgr' = ReleaseWantedSegment(slabMgr, seg, s)

Next ==
  \/ \E n \in 1..MaxBuffers : Grow(n)
  \/ \E n \in AskedSlabs : Reserve(n) \/ Unreserve(n)
  \/ Acquire
  \/ \E s \in Slabs : Increment(s) \/ \E amount \in 1..MaxRefcnt : Decrement(s, amount)
  \/ \E s \in Slabs, seg \in Segments : Want(seg, s) \/ Unwant(seg, s)

Spec == Init /\ [][Next]_slabMgr

-----------------------------------------------------------------------------
(***************************************************************************)
(* The slab manager's state stays within its declared types.               *)
(***************************************************************************)
TypeOK == slabMgr \in SlabState

\* freeSlabs and wantedSlabs hold a slab once, a slab's wantedSegs a segment once
ListsDistinct(sm) ==
  /\ IsInjective(sm.free)
  /\ IsInjective(sm.wanted)
  /\ \A s \in Slabs : IsInjective(sm.wantedSegs[s])

\* a slab is on the list that its refcount and its wanted segments call for
ListsAgree(sm) ==
  \A s \in Slabs :
    /\ Contains(sm.free, s) <=> s < NumSlabs(sm) /\ ~Held(sm, s) /\ ~Wanted(sm, s)
    /\ s \in sm.held <=> Held(sm, s)
    /\ Contains(sm.wanted, s) <=> ~Held(sm, s) /\ Wanted(sm, s)

\* only slabs of existing buffers are in use
InUseExists(sm) ==
  \A s \in Slabs : Held(sm, s) \/ Wanted(sm, s) => s < NumSlabs(sm)

ListsMatch(sm) == ListsDistinct(sm) /\ ListsAgree(sm) /\ InUseExists(sm)

(***************************************************************************)
(* freeSlabs, heldSlabs and wantedSlabs partition the slabs and agree with *)
(* Held() and Wanted() of every SlabInfo, through any interleaving of      *)
(* references, wanted segments and growth.  It is why GetFreeSlab and      *)
(* FrontWantedSegment ("this would indicate a deeper problem") never throw *)
(* on a listed slab, and why no slab is handed out twice.                  *)
(***************************************************************************)
ListsMatchState == ListsMatch(slabMgr)

(***************************************************************************)
(* What is reserved, with the nonreservable share set aside, never exceeds *)
(* the slabs that exist, also across growth, which raises both the share   *)
(* and NumSlabs after reservations were granted, and for requests up to    *)
(* the largest whose sum fits a uint32_t (GetSlabReservation, NumBuffers). *)
(***************************************************************************)
ReservationBound ==
  slabMgr.reserved + NumSlabsNonreservable(slabMgr) <= NumSlabs(slabMgr)

\* What the three lists say of every slab, and what is queued in it
Statuses(sm) ==
  [s \in Slabs |-> IF s \in sm.held THEN "held"
                   ELSE IF Contains(sm.wanted, s) THEN "wanted"
                   ELSE IF Contains(sm.free, s) THEN "free" ELSE "absent"]
Queued(sm) == [s \in Slabs |-> Range(sm.wantedSegs[s])]

Life == INSTANCE SlabLifeCycle WITH status <- Statuses(slabMgr), queued <- Queued(slabMgr)

(***************************************************************************)
(* The lists go through the life cycle that the enumeration of state       *)
(* changes in SlabManager.h allows: a slab becomes free only when nobody   *)
(* holds it and nothing is queued in it, whichever of the two ends first,  *)
(* and is handed out only when it is free.                                 *)
(***************************************************************************)
FollowsLifeCycle == Life!Spec
=============================================================================
