--------------------------- MODULE SlabLifeCycle ---------------------------
(***************************************************************************)
(* What SlabManager promises its callers about a slab, without the lists   *)
(* and refcounts by which it keeps the promise: the state changes that     *)
(* SlabManager.h names (kFreeToHeld, kHeldToWanted, ...), of which one is  *)
(* commented out because it must not happen (kFreeToWanted), and what each *)
(* has to do with the segments that are queued in the slab.                *)
(***************************************************************************)
CONSTANTS Slabs, Segments

VARIABLES
  status,   \* of each slab: "absent" (its buffer does not exist yet), "free",
            \* "held" or "wanted"
  queued    \* of each slab: the segments that consumers have yet to take

vars == <<status, queued>>

LifeType ==
  /\ status \in [Slabs -> {"absent", "free", "held", "wanted"}]
  /\ queued \in [Slabs -> SUBSET Segments]

Becomes(s, st) == status' = [status EXCEPT ![s] = st]

\* The first buffers exist from the start.
Init ==
  /\ status \in [Slabs -> {"absent", "free"}]
  /\ queued = [s \in Slabs |-> {}]

\* A buffer is added: slabs that did not exist become free.
Added ==
  /\ \E new \in SUBSET {s \in Slabs : status[s] = "absent"} :
       status' = [s \in Slabs |-> IF s \in new THEN "free" ELSE status[s]]
  /\ UNCHANGED queued

FreeToHeld(s) == status[s] = "free" /\ Becomes(s, "held") /\ UNCHANGED queued

\* The last reference is gone and segments are still queued,
HeldToWanted(s) ==
  /\ status[s] = "held" /\ queued[s] # {}
  /\ Becomes(s, "wanted") /\ UNCHANGED queued

\* or none is.
HeldToFree(s) ==
  /\ status[s] = "held" /\ queued[s] = {}
  /\ Becomes(s, "free") /\ UNCHANGED queued

\* A consumer takes one of the queued segments.
WantedToHeld(s) == status[s] = "wanted" /\ Becomes(s, "held") /\ UNCHANGED queued

\* A segment of a slab in use is queued, for one consumer.
Queue(s, seg) ==
  /\ status[s] \in {"held", "wanted"}
  /\ \A t \in Slabs : seg \notin queued[t]
  /\ queued' = [queued EXCEPT ![s] = @ \cup {seg}]
  /\ UNCHANGED status

\* A segment leaves the queue, and others are left or somebody holds the slab.
Dequeue(s, seg) ==
  /\ seg \in queued[s]
  /\ status[s] = "held" \/ queued[s] # {seg}
  /\ queued' = [queued EXCEPT ![s] = @ \ {seg}]
  /\ UNCHANGED status

\* The last segment of a slab that nobody holds leaves the queue.
WantedToFree(s, seg) ==
  /\ status[s] = "wanted" /\ queued[s] = {seg}
  /\ Becomes(s, "free")
  /\ queued' = [queued EXCEPT ![s] = {}]

Next ==
  \/ Added
  \/ \E s \in Slabs :
       FreeToHeld(s) \/ HeldToWanted(s) \/ HeldToFree(s) \/ WantedToHeld(s)
  \/ \E s \in Slabs, seg \in Segments : Queue(s, seg) \/ Dequeue(s, seg) \/ WantedToFree(s, seg)

Spec == Init /\ [][Next]_vars

-----------------------------------------------------------------------------
(***************************************************************************)
(* A slab in which segments are queued is not free, so no producer gets it *)
(* to write over them; a slab is wanted only if segments are queued, so    *)
(* that there is something to harvest; and a segment is queued in one slab.*)
(***************************************************************************)
QueuedIsKept ==
  /\ \A s \in Slabs : queued[s] # {} => status[s] \in {"held", "wanted"}
  /\ \A s \in Slabs : status[s] = "wanted" => queued[s] # {}
  /\ \A s, t \in Slabs : s # t => queued[s] \cap queued[t] = {}

\* the invariant that every change of state keeps
KeptInv == LifeType /\ QueuedIsKept
=============================================================================
