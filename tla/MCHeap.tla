------------------------------- MODULE MCHeap -------------------------------
(* Units of 8 bytes: a header of 4 units (32 bytes), a smallest split of 2   *)
(* (16 bytes), alignments up to 2 units handled by kmalloc.  The heap holds  *)
(* up to eight blocks; it starts after page 0, at an aligned address.          *)
EXTENDS Heap
=============================================================================
