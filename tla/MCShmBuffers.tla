---------------------------- MODULE MCShmBuffers ----------------------------
(* Sizes for the model checker: pages of 4 bytes, and sizes that need rounding. *)
EXTENDS ShmBuffers

MCDefault == [blockSize |-> 4, slabSize |-> 8, bufferSize |-> 16]
MCParams  == {[blockSize |-> 3, slabSize |-> 7, bufferSize |-> 9, force |-> f] : f \in BOOLEAN}
MCStale   == {{1}}
Symmetry  == Permutations(Clients)
=============================================================================
