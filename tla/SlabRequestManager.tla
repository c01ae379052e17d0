------------------------- MODULE SlabRequestManager -------------------------
(***************************************************************************)
(* Pending requests for free slabs of "nice" producers                     *)
(* (apps/MCSBManager/SlabRequestManager.cc): one FIFO list per nice level, *)
(* served from the lowest level up.  The pool of unused SlabRequest        *)
(* objects grows on demand (AddSlabRequestBlock) and is not state.         *)
(***************************************************************************)
EXTENDS Integers, Sequences, FiniteSets

CONSTANT MaxLevel    \* maxLevel, 3 by default

Levels == 0..MaxLevel

NoRequests == [level \in Levels |-> <<>>]

\* A level out of range, also a negative one, is the nicest level.
SafeLevel(level) == IF level \in Levels THEN level ELSE MaxLevel

AddRequest(requests, level, numSlabs, id) ==
  [requests EXCEPT ![SafeLevel(level)] = Append(@, [id |-> id, numSlabs |-> numSlabs])]

HasRequests(requests) == \E level \in Levels : requests[level] # <<>>

NumRequests(requests) ==
  Cardinality(UNION {{level} \X (1..Len(requests[level])) : level \in Levels})

LowestLevelPending(requests) ==
  CHOOSE level \in Levels :
    /\ requests[level] # <<>>
    /\ \A l \in Levels : l < level => requests[l] = <<>>

FrontRequest(requests, level) == Head(requests[level])

PopFrontRequest(requests, level) == [requests EXCEPT ![level] = Tail(@)]
=============================================================================
