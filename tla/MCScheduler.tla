---------------------------- MODULE MCScheduler ----------------------------
(* Four slots and a machine of 10 pages of which boot keeps 0, 1 and 4 (the *)
(* last as the stack in TSS.RSP0): few enough pages that a user stack, a    *)
(* kernel stack and the table each run out while the others do not, and     *)
(* free memory with a hole, so that a stack of 3 may fail where 1 fits.     *)
EXTENDS Scheduler

MCBootUsed == {0, 1, 4}
=============================================================================
