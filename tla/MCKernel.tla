------------------------------ MODULE MCKernel ------------------------------
(* Three slots on 7 pages, of which boot keeps pages 0 and 2 (the stack in  *)
(* TSS.RSP0), and the boot stack beyond them.                               *)
EXTENDS Kernel

MCBootUsed == {0, 2, 7}
=============================================================================
