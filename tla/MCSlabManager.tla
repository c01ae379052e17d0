--------------------------- MODULE MCSlabManager ---------------------------
(***************************************************************************)
(* Two buffers of two slabs, the second one created on demand; two wanted  *)
(* segments; up to two references to a slab.  Of the slabs 30 % are not     *)
(* reservable: one of the first two and, once a second buffer is there,    *)
(* two of the four, so that growth raises the share after reservations     *)
(* were granted.  The requests are small ones and 11, the largest for      *)
(* which the sum with the slabs there can be still fits below UIntRange.   *)
(***************************************************************************)
EXTENDS SlabManager

MCAskedSlabs == {1, 2, UIntRange - 1 - SlabsPerBuf * MaxBuffers}
=============================================================================
