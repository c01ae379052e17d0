-------------------------- MODULE ProxySlabTracker --------------------------
(***************************************************************************)
(* What one client holds, as its proxy in the manager counts it            *)
(* (apps/MCSBManager/ProxySlabTracker.cc): the slabs it fills as a         *)
(* producer, and for every slab it reads as a consumer the number of       *)
(* segments it has not returned, a uint16_t.                               *)
(***************************************************************************)
EXTENDS Integers, Sequences, FiniteSets, SequencesExt, Loops

CONSTANTS
  TrackedSlabs,    \* the slab IDs
  UInt16Range      \* 2^16 in the program

NewTracker ==
  [numProdSlabs |-> 0, numConsSlabs |-> 0,
   prodSlabsHeld |-> 0, consSlabsHeld |-> 0,
   prod |-> {},                               \* prodSlabRefcnt, a vector<bool>
   cons |-> [s \in TrackedSlabs |-> 0]]       \* consSlabRefcnt

ProdSlabsNeeded(t) ==
  IF t.numProdSlabs > t.prodSlabsHeld THEN t.numProdSlabs - t.prodSlabsHeld ELSE 0

InsertProdSlab(t, s) ==
  [t EXCEPT !.prod = @ \cup {s},
            !.prodSlabsHeld = IF s \in t.prod THEN @ ELSE @ + 1]

\* EraseProdSlabs throws, having erased nothing
EraseThrows(t, ids) ==
  Len(ids) > t.prodSlabsHeld \/ \E i \in 1..Len(ids) : ids[i] \notin t.prod

EraseProdSlabs(t, ids) ==
  [t EXCEPT !.prod = @ \ ToSet(ids), !.prodSlabsHeld = @ - Len(ids)]

\* TakeConsSlab: within the reservation, or one more segment of a slab already held
CanTakeConsSlab(t, s) == t.consSlabsHeld < t.numConsSlabs \/ t.cons[s] > 0

\* Mutant: every segment counts as a slab.
TakeCountsSegments(t, s) ==
  [t EXCEPT !.cons[s] = (@ + 1) % UInt16Range, !.consSlabsHeld = @ + 1]

TakeConsSlab(t, s) ==
  [t EXCEPT !.cons[s] = (@ + 1) % UInt16Range,
            !.consSlabsHeld = IF t.cons[s] = 0 THEN @ + 1 ELSE @]

(***************************************************************************)
(* DecrementConsSlabs: one pass over the array decrements and counts the   *)
(* errors; on an error a second pass undoes the first and it throws.       *)
(***************************************************************************)
DecrementConsSlab(pass, s) ==
  LET t == pass.t
      refcnt == (t.cons[s] - 1) % UInt16Range
  IN  [t |-> [t EXCEPT !.cons[s] = refcnt,
                       !.consSlabsHeld = IF refcnt = 0 THEN @ - 1 ELSE @],
       errs |-> pass.errs \/ t.cons[s] = 0 \/ (refcnt = 0 /\ t.consSlabsHeld = 0)]

DecrementPass(t, ids) ==
  Iterate(LAMBDA pass, i : DecrementConsSlab(pass, ids[i]), [t |-> t, errs |-> FALSE], Len(ids))

DecrementErrs(t, ids) == DecrementPass(t, ids).errs

\* Mutant: the second pass restores only the refcounts.
UndoRefcntOnly(t, s) == [t EXCEPT !.cons[s] = (@ + 1) % UInt16Range]

UndoDecrement(t, s) ==
  [t EXCEPT !.cons[s] = (@ + 1) % UInt16Range,
            !.consSlabsHeld = IF t.cons[s] = 0 THEN @ + 1 ELSE @]

DecrementConsSlabs(t, ids) ==
  LET pass == DecrementPass(t, ids)
  IN  IF pass.errs
      THEN Iterate(LAMBDA u, i : UndoDecrement(u, ids[i]), pass.t, Len(ids))
      ELSE pass.t
=============================================================================
