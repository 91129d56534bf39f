------------------------------- MODULE Pages -------------------------------
(***************************************************************************)
(* The pure part of the physical page allocator (src/memory.c): what its   *)
(* loops compute over the page bitmap.                                     *)
(*                                                                         *)
(* The bitmap is the set of the pages whose bit is 1 (in use).  A physical *)
(* address handed out is represented by its page number, so NULL is 0: a   *)
(* page that the first-fit scan, which starts at page 1, never returns.    *)
(***************************************************************************)
EXTENDS Integers

CONSTANT MAX_PAGES   \* number of bits in the bitmap

ASSUME MaxPagesAssumption == MAX_PAGES \in Nat \ {0}

NULL == 0

Page == 0 .. (MAX_PAGES - 1)

(* The n pages starting at page p. *)
Run(p, n) == p .. (p + n - 1)

(* Variants of Candidates with a plausible mistake, which the properties   *)
(* must notice: a scan that runs one page past the end, or stops one early. *)
Candidates_OneMore(used, total, n)  == {i \in 1 .. (total - n + 1) : Run(i, n) \cap used = {}}
Candidates_OneShort(used, total, n) == {i \in 1 .. (total - n - 1) : Run(i, n) \cap used = {}}

(* Where the scan of PageAllocator_Alloc would accept a run of n pages: it *)
(* tries i = 1, 2, ... up to total - n, and needs n clear bits from i on.  *)
Candidates(used, total, n) ==
  {i \in 1 .. (total - n) : Run(i, n) \cap used = {}}

(* p is what PageAllocator_Alloc(n) returns: the first candidate, or NULL  *)
(* when the size is refused or no run is clear.                            *)
AllocReturns(used, total, n, p) ==
  IF n = 0 \/ n > total \/ Candidates(used, total, n) = {}
    THEN p = NULL
    ELSE /\ p \in Candidates(used, total, n)
         /\ \A q \in Candidates(used, total, n) : p <= q

(* The bits set when a scan succeeded, and variants: the last page or all  *)
(* but the first are missed.                                               *)
AllocMarks_OneShort(used, p, n)  == used \cup Run(p, n - 1)
AllocMarks_FirstOnly(used, p, n) == used \cup {p}

AllocMarks(used, p, n) == used \cup Run(p, n)

(* PageAllocator_MarkUsed and PageAllocator_Free skip pages outside the    *)
(* bitmap instead of refusing them.                                        *)
MarkUsed(used, p, n) == used \cup (Run(p, n) \cap Page)

(* Variant: the last page stays marked. *)
FreeRun_OneShort(used, p, n) == used \ Run(p, n - 1)

FreeRun(used, p, n) == used \ Run(p, n)

-----------------------------------------------------------------------------
(* The firmware memory map, as PageAllocator_Init reads it: a set of       *)
(* descriptors (the loop only takes a maximum and clears bits, so their    *)
(* order does not matter).  The kinds of memory it treats as free:         *)
FreeTypes ==
  {"EfiConventionalMemory", "EfiBootServicesCode", "EfiBootServicesData"}

LastPage(d) == d.start + d.pages

(* total_pages ends as the largest region end that is below MAX_PAGES.     *)
InitTotal(map, total) ==
  LET ends == {0} \cup {e \in {LastPage(d) : d \in map} : e < MAX_PAGES}
  IN  total \in ends /\ \A e \in ends : e <= total

(* Every bit starts at 1 and is cleared for the pages of free regions.     *)
InitBitmap(map) ==
  Page \ UNION {Run(d.start, d.pages) : d \in {e \in map : e.type \in FreeTypes}}
=============================================================================
