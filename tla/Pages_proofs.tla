---------------------------- MODULE Pages_proofs ----------------------------
(***************************************************************************)
(* What the answers of the first-fit scan of src/memory.c give its         *)
(* callers, for every bitmap.                                              *)
(***************************************************************************)
EXTENDS Pages, TLAPS

(* A non-NULL answer (memory.c:65-70) is a non-empty run of clear pages    *)
(* between page 1 and the last page of memory.                             *)
LEMMA AllocGrants ==
  ASSUME NEW used, NEW total \in 0 .. (MAX_PAGES - 1), NEW n \in Nat, NEW p \in Page,
         AllocReturns(used, total, n, p), p # NULL
  PROVE  n > 0 /\ Run(p, n) \subseteq 1 .. (total - 1) /\ Run(p, n) \cap used = {}
  BY MaxPagesAssumption DEF AllocReturns, Candidates, Run, Page, NULL

(* NULL (memory.c:53-54, 74) means that the size was refused or that no    *)
(* run of that length is clear.                                            *)
LEMMA AllocRefuses ==
  ASSUME NEW used, NEW total \in 0 .. (MAX_PAGES - 1), NEW n \in Nat,
         AllocReturns(used, total, n, NULL)
  PROVE  n = 0 \/ n > total \/ Candidates(used, total, n) = {}
  BY MaxPagesAssumption DEF AllocReturns, Candidates, NULL

(* The pages of a granted run are pages of the bitmap; its first page is   *)
(* one of them.                                                             *)
LEMMA GrantedPages ==
  ASSUME NEW used, NEW total \in 0 .. (MAX_PAGES - 1), NEW n \in Nat, NEW p \in Page,
         AllocReturns(used, total, n, p), p # NULL
  PROVE  Run(p, n) \subseteq Page \ {NULL} /\ p \in Run(p, n)
<1>1. n > 0 /\ Run(p, n) \subseteq 1 .. (total - 1)
  BY AllocGrants
<1>2. 1 .. (total - 1) \subseteq Page \ {NULL}
  BY MaxPagesAssumption DEF Page, NULL
<1>3. p \in Run(p, n)
  BY <1>1, MaxPagesAssumption DEF Run, Page
<1>4. QED
  BY <1>1, <1>2, <1>3
=============================================================================
