------------------------- MODULE PageTables_proofs -------------------------
(***************************************************************************)
(* Proofs about the page allocator, for every bitmap size, memory map and  *)
(* sequence of requests, and about the page tables on top of it, for trees *)
(* of every depth and width.                                               *)
(*                                                                         *)
(* The page tables are a caller of the allocator like any other: a         *)
(* behaviour of PageTables is one of PageAllocator, with steps added that  *)
(* leave the allocator alone.  What is proved of the allocator thus holds  *)
(* with page tables on top, and the pages taken for tables stay with the   *)
(* tables.                                                                 *)
(*                                                                         *)
(* TablesInv says that the tables form a tree in which every table has a   *)
(* level, and that a PageTable_Map in progress is on the table its page's  *)
(* walk finds.  In a tree two pages do not share their last entry          *)
(* (TreeInjective), so one write changes one translation; this gives what  *)
(* the runs check of the tables, and that they implement an address space. *)
(***************************************************************************)
EXTENDS PageTables, Pages_proofs, FunctionTheorems, FiniteSetTheorems

-----------------------------------------------------------------------------
(***************************************************************************)
(* The page allocator.                                                     *)
(***************************************************************************)

(* The inductive invariant: the conjuncts are those the run checks.  None  *)
(* is inductive alone: an allocation keeps blocks apart only because every *)
(* block's bits are set (BitmapExact), and a free keeps BitmapExact only   *)
(* because the freed block is apart from the others and from the reserved  *)
(* pages.                                                                  *)
Inv == TypeOK /\ BlocksDisjoint /\ BlocksUsable /\ BitmapExact

-----------------------------------------------------------------------------
(* The state boot leaves (memory.c:8-50) satisfies the invariant. *)
LEMMA InitInv == Init => Inv
<1> SUFFICES ASSUME Init PROVE Inv
  OBVIOUS
<1> PICK map \in Maps : bitmap \in BootBitmap(map) /\ total_pages \in 0 .. (MAX_PAGES - 1)
  BY DEF Init
<1>1. bitmap \subseteq Page
  BY DEF BootBitmap, MarkUsed, InitBitmap
<1>2. TypeOK
  BY <1>1, MaxPagesAssumption DEF Init, TypeOK, NULL, Page
<1>3. QED
  BY <1>2 DEF Init, Inv, BlocksDisjoint, BlocksUsable, BitmapExact

LEMMA AllocStep ==
  ASSUME Inv, NEW n \in Sizes, PageAllocator_Alloc(n)
  PROVE  Inv'
<1> USE DEF Inv
<1>0. n \in Nat
  BY SizesAssumption
<1> PICK p \in Page : /\ AllocReturns(bitmap, total_pages, n, p)
                      /\ req' = n
                      /\ ret' = p
                      /\ IF p = NULL
                           THEN UNCHANGED <<bitmap, blocks>>
                           ELSE /\ bitmap' = AllocMarks(bitmap, p, n)
                                /\ blocks' = blocks \cup {<<p, n>>}
                      /\ UNCHANGED <<total_pages, reserved>>
  BY DEF PageAllocator_Alloc
<1>1. CASE p = NULL
  BY <1>1 DEF TypeOK, BlocksDisjoint, BlocksUsable, BitmapExact, PagesOf
<1>2. CASE p # NULL
  <2> DEFINE new == <<p, n>>
  <2>1. /\ Run(p, n) \subseteq 1 .. (total_pages - 1)
        /\ Run(p, n) \cap bitmap = {}
    BY <1>0, <1>2, AllocGrants DEF TypeOK
  <2>2. PagesOf(new) = Run(p, n)
    BY DEF PagesOf
  <2>3. bitmap' = bitmap \cup PagesOf(new) /\ blocks' = blocks \cup {new}
    BY <1>2, <2>2 DEF AllocMarks
  <2>4. \A b \in blocks : PagesOf(b) \subseteq bitmap
    BY DEF BitmapExact
  <2> HIDE DEF new
  <2>5. TypeOK'
    <3>1. new \in Page \X Nat
      BY <1>0 DEF new
    <3>2. PagesOf(new) \subseteq Page
      <4>1. total_pages \in 0 .. (MAX_PAGES - 1)
        BY DEF TypeOK
      <4>2. 1 .. (total_pages - 1) \subseteq Page
        BY <4>1, MaxPagesAssumption DEF Page
      <4>3. QED
        BY <2>1, <2>2, <4>2
    <3>3. QED
      BY <2>3, <3>1, <3>2 DEF TypeOK
  <2>6. BlocksDisjoint'
    BY <2>1, <2>2, <2>3, <2>4 DEF BlocksDisjoint, PagesOf
  <2>7. BlocksUsable'
    <3>1. reserved \subseteq bitmap
      BY DEF BitmapExact
    <3>2. QED
      BY <2>1, <2>2, <2>3, <3>1 DEF BlocksUsable, PagesOf
  <2>8. BitmapExact'
    BY <2>3 DEF BitmapExact, PagesOf
  <2>9. QED
    BY <2>5, <2>6, <2>7, <2>8
<1>3. QED
  BY <1>1, <1>2

LEMMA FreeStep ==
  ASSUME Inv, NEW b \in blocks, PageAllocator_Free(b)
  PROVE  Inv'
<1> USE DEF Inv
<1>1. /\ bitmap' = bitmap \ PagesOf(b)
      /\ blocks' = blocks \ {b}
      /\ UNCHANGED <<total_pages, reserved, req, ret>>
  BY DEF PageAllocator_Free, FreeRun, PagesOf
<1>2. TypeOK'
  BY <1>1 DEF TypeOK
<1>3. BlocksDisjoint'
  BY <1>1 DEF BlocksDisjoint, PagesOf
<1>4. BlocksUsable'
  BY <1>1 DEF BlocksUsable, PagesOf
<1>5. BitmapExact'
  <2>1. PagesOf(b) \cap reserved = {}
    BY DEF BlocksUsable
  <2>2. \A c \in blocks \ {b} : PagesOf(c) \cap PagesOf(b) = {}
    BY DEF BlocksDisjoint
  <2>3. bitmap \ PagesOf(b) = reserved \cup UNION {PagesOf(c) : c \in blocks \ {b}}
    BY <2>1, <2>2 DEF BitmapExact
  <2>4. QED
    BY <1>1, <2>3 DEF BitmapExact, PagesOf
<1>6. QED
  BY <1>2, <1>3, <1>4, <1>5

LEMMA StepInv == Inv /\ [Next]_vars => Inv'
<1> SUFFICES ASSUME Inv, [Next]_vars PROVE Inv'
  OBVIOUS
<1>1. CASE \E n \in Sizes : PageAllocator_Alloc(n)
  BY <1>1, AllocStep
<1>2. CASE \E b \in blocks : PageAllocator_Free(b)
  BY <1>2, FreeStep
<1>3. CASE UNCHANGED vars
  BY <1>3 DEF vars, Inv, TypeOK, BlocksDisjoint, BlocksUsable, BitmapExact, PagesOf
<1>4. QED
  BY <1>1, <1>2, <1>3 DEF Next

-----------------------------------------------------------------------------
(* The allocator's state keeps its type, whatever memory map it was booted *)
(* from and whatever is asked of it (memory.c:8-85).                       *)
THEOREM TypeCorrect == Spec => []TypeOK
<1>1. Inv => TypeOK
  BY DEF Inv
<1>2. QED
  BY InitInv, StepInv, <1>1, PTL DEF Spec

(* No page ever belongs to two callers (memory.c:52-85). *)
THEOREM Disjointness == Spec => []BlocksDisjoint
<1>1. Inv => BlocksDisjoint
  BY DEF Inv
<1>2. QED
  BY InitInv, StepInv, <1>1, PTL DEF Spec

(* No caller ever receives page 0, a page in use at boot, or a page past   *)
(* the end of memory (memory.c:53-70).                                     *)
THEOREM Usability == Spec => []BlocksUsable
<1>1. Inv => BlocksUsable
  BY DEF Inv
<1>2. QED
  BY InitInv, StepInv, <1>1, PTL DEF Spec

(* The bitmap always accounts exactly for boot's pages and the blocks held *)
(* (memory.c:66-69, 77-85).                                                *)
THEOREM Exactness == Spec => []BitmapExact
<1>1. Inv => BitmapExact
  BY DEF Inv
<1>2. QED
  BY InitInv, StepInv, <1>1, PTL DEF Spec

-----------------------------------------------------------------------------
(* The runs the scan may accept are exactly the free runs of PageOwner, so *)
(* a scan that finds none (memory.c:56-74) is a justified refusal.         *)
LEMMA CandidatesAreFreeRuns ==
  ASSUME TypeOK, NEW n \in Nat
  PROVE  (n = 0 \/ n > total_pages \/ Candidates(bitmap, total_pages, n) = {})
           <=> Owner!FreeRuns(n) = {}
<1>0. total_pages \in 0 .. (MAX_PAGES - 1)
  BY DEF TypeOK
<1> DEFINE fr == (1 .. (total_pages - 1)) \ bitmap
<1>1. CASE n = 0
  BY <1>1 DEF Owner!FreeRuns
<1>2. CASE n > 0
  <2>1. ASSUME NEW p \in Owner!FreeRuns(n)
        PROVE  n <= total_pages /\ p \in Candidates(bitmap, total_pages, n)
    <3>1. p \in Page /\ Run(p, n) \subseteq fr
      BY <2>1 DEF Owner!FreeRuns, Owner!Run, Run, Owner!Page, Page
    <3>2. p \in Run(p, n) /\ p + n - 1 \in Run(p, n)
      BY <1>2, <3>1, MaxPagesAssumption DEF Run, Page
    <3>3. p >= 1 /\ p + n - 1 <= total_pages - 1
      BY <3>1, <3>2 DEF TypeOK
    <3>4. QED
      BY <3>1, <3>3, MaxPagesAssumption DEF Candidates, TypeOK, Page
  <2>2. ASSUME n <= total_pages, NEW p \in Candidates(bitmap, total_pages, n)
        PROVE  p \in Owner!FreeRuns(n)
    <3>1. p \in 1 .. (total_pages - n) /\ Run(p, n) \cap bitmap = {}
      BY <2>2 DEF Candidates
    <3>2. p \in Page /\ Run(p, n) \subseteq 1 .. (total_pages - 1)
      BY <3>1, MaxPagesAssumption DEF TypeOK, Run, Page
    <3>3. QED
      BY <1>2, <3>1, <3>2 DEF Owner!FreeRuns, Owner!Run, Run, Owner!Page, Page
  <2>3. CASE n > total_pages
    <3>1. Owner!FreeRuns(n) = {}
      BY <2>1, <2>3 DEF TypeOK
    <3>2. QED
      BY <2>3, <3>1
  <2>4. CASE n <= total_pages
    <3>1. Owner!FreeRuns(n) = Candidates(bitmap, total_pages, n)
      <4>1. \A p : p \in Owner!FreeRuns(n) => p \in Candidates(bitmap, total_pages, n)
        BY <2>1
      <4>2. \A p : p \in Candidates(bitmap, total_pages, n) => p \in Owner!FreeRuns(n)
        BY <2>2, <2>4
      <4>3. QED
        BY <4>1, <4>2
    <3>2. QED
      BY <1>2, <2>4, <3>1 DEF TypeOK
  <2>5. QED
    BY <2>3, <2>4 DEF TypeOK
<1>3. QED
  BY <1>1, <1>2

(* Every step of the allocator is a step of PageOwner: a grant, a          *)
(* justified refusal or a return of a block.                               *)
LEMMA StepImplements == Inv /\ [Next]_vars => [Owner!OwnerNext]_(Owner!ownerVars)
<1> SUFFICES ASSUME Inv, [Next]_vars PROVE [Owner!OwnerNext]_(Owner!ownerVars)
  OBVIOUS
<1> DEFINE fr == (1 .. (total_pages - 1)) \ bitmap
<1>1. ASSUME NEW n \in Sizes, PageAllocator_Alloc(n)
      PROVE  Owner!Grant(n) \/ Owner!Refuse(n)
  <2>0. n \in Nat /\ TypeOK
    BY SizesAssumption DEF Inv
  <2> PICK p \in Page : /\ AllocReturns(bitmap, total_pages, n, p)
                        /\ req' = n
                        /\ ret' = p
                        /\ IF p = NULL
                             THEN UNCHANGED <<bitmap, blocks>>
                             ELSE /\ bitmap' = AllocMarks(bitmap, p, n)
                                  /\ blocks' = blocks \cup {<<p, n>>}
                        /\ UNCHANGED <<total_pages, reserved>>
    BY <1>1 DEF PageAllocator_Alloc
  <2>1. CASE p = NULL
    <3>1. Owner!FreeRuns(n) = {}
      BY <2>0, <2>1, AllocRefuses, CandidatesAreFreeRuns DEF TypeOK
    <3>2. QED
      BY <2>1, <3>1 DEF Owner!Refuse, Owner!NULL, NULL
  <2>2. CASE p # NULL
    <3>0. total_pages \in 0 .. (MAX_PAGES - 1)
      BY <2>0 DEF TypeOK
    <3>1. n > 0 /\ Run(p, n) \subseteq 1 .. (total_pages - 1) /\ Run(p, n) \cap bitmap = {}
      BY <2>0, <2>2, <3>0, AllocGrants
    <3>2. p \in Owner!FreeRuns(n)
      BY <3>1 DEF Owner!FreeRuns, Owner!Run, Run, Owner!Page, Page
    <3>3. fr' = fr \ Run(p, n)
      BY <2>2 DEF AllocMarks
    <3>4. Owner!Grant(n)
      BY <2>2, <3>2, <3>3 DEF Owner!Grant, Owner!Run, Run
    <3>5. QED
      BY <3>4
  <2>3. QED
    BY <2>1, <2>2
<1>2. ASSUME NEW b \in blocks, PageAllocator_Free(b)
      PROVE  Owner!Return(b)
  <2>1. PagesOf(b) \subseteq 1 .. (total_pages - 1)
    BY DEF Inv, BlocksUsable
  <2>2. fr' = fr \cup PagesOf(b)
    BY <1>2, <2>1 DEF PageAllocator_Free, FreeRun, PagesOf
  <2>3. QED
    BY <1>2, <2>2 DEF PageAllocator_Free, Owner!Return, Owner!Run, PagesOf, Run
<1>3. CASE UNCHANGED vars
  BY <1>3 DEF vars, Owner!ownerVars
<1>4. QED
  BY <1>1, <1>2, <1>3 DEF Next, Owner!OwnerNext

(* The bitmap allocator implements PageOwner (memory.c:52-85). *)
THEOREM Implementation == Spec => ImplementsPageOwner
<1>1. Init => Owner!OwnerInit
  <2> SUFFICES ASSUME Init PROVE Owner!OwnerInit
    OBVIOUS
  <2>1. (1 .. (total_pages - 1)) \ bitmap \in SUBSET (Page \ {NULL})
    BY MaxPagesAssumption DEF Init, Page, NULL
  <2>2. QED
    BY <2>1 DEF Init, Owner!OwnerInit, Owner!Page, Page, Owner!NULL, NULL
<1>2. QED
  BY <1>1, InitInv, StepInv, StepImplements, PTL
  DEF Spec, ImplementsPageOwner, Owner!OwnerSpec

-----------------------------------------------------------------------------
(***************************************************************************)
(* The page tables.                                                        *)
(***************************************************************************)

(* The next-state relation by what a step does to the allocator. *)
LEMMA AllocatorSteps ==
  ASSUME TablesNext
  PROVE  \/ PageAllocator_Alloc(1)
         \/ \E n \in Sizes : PageAllocator_Alloc(n)
         \/ \E b \in blocks : PageAllocator_Free(b)
         \/ UNCHANGED vars
<1>1. CASE Syscall_Init
  BY <1>1 DEF Syscall_Init
<1>2. CASE PageTable_Init
  BY <1>2 DEF PageTable_Init, NewRoot, PageTable_Map, NextLoop, allocVars
<1>3. CASE GetOrCreateTable
  BY <1>3 DEF GetOrCreateTable, AddTable, allocVars
<1>4. CASE WriteEntry
  BY <1>4 DEF WriteEntry, allocVars
<1>5. CASE Memory_MapMMIO
  BY <1>5 DEF Memory_MapMMIO, allocVars
<1>6. CASE stage = Booted /\ PageTable_Map(TRUE)
  BY <1>6 DEF PageTable_Map, allocVars
<1>7. ASSUME NEW v \in Touched, PageTable_UnMap(v) \/ Access(v)
      PROVE  UNCHANGED vars
  BY <1>7 DEF PageTable_UnMap, Access, allocVars
<1>8. ASSUME NEW n \in Sizes, OtherAlloc(n)
      PROVE  PageAllocator_Alloc(n)
  BY <1>8 DEF OtherAlloc
<1>9. ASSUME NEW b \in blocks, OtherFree(b)
      PROVE  PageAllocator_Free(b)
  BY <1>9 DEF OtherFree
<1> QED
  BY <1>1, <1>2, <1>3, <1>4, <1>5, <1>6, <1>7, <1>8, <1>9 DEF TablesNext

(* Every behaviour of the page tables is one of the allocator and its      *)
(* callers: a table is allocated like any other block (memory.c:92).       *)
THEOREM TablesUseAllocator == TablesSpec => Spec
<1>1. TablesInit => Init
  BY DEF TablesInit
<1>2. [TablesNext]_allVars => [Next]_vars
  BY AllocatorSteps, TableSizeAssumption DEF Next, allVars
<1> QED
  BY <1>1, <1>2, PTL DEF TablesSpec, Spec

-----------------------------------------------------------------------------
(* What is proved of the allocator, with the page tables on top. *)

(* No page is in two blocks: neither in two tables, nor in a table and in  *)
(* a stack.                                                                *)
THEOREM TablesDisjoint == TablesSpec => []BlocksDisjoint
<1>1. Spec => []BlocksDisjoint
  BY Disjointness
<1> QED
  BY <1>1, TablesUseAllocator, PTL

(* No table lies in page 0, in the kernel image, in reserved memory or     *)
(* past the end of memory.                                                 *)
THEOREM TablesUsable == TablesSpec => []BlocksUsable
<1>1. Spec => []BlocksUsable
  BY Usability
<1> QED
  BY <1>1, TablesUseAllocator, PTL

(* The bitmap stays exact: page tables lose no page. *)
THEOREM TablesExact == TablesSpec => []BitmapExact
<1>1. Spec => []BitmapExact
  BY Exactness
<1> QED
  BY <1>1, TablesUseAllocator, PTL

-----------------------------------------------------------------------------
(* An allocation of one page keeps the pages held so far, and the page it  *)
(* returns is held too.                                                    *)
LEMMA AllocOneHeld ==
  ASSUME TablesHeld, PageAllocator_Alloc(1)
  PROVE  /\ blocks \subseteq blocks'
         /\ ret' # NULL => <<ret', 1>> \in blocks'
BY DEF PageAllocator_Alloc

(* A step keeps the pages of tables held: memory.c never passes one to     *)
(* PageAllocator_Free, and no other caller is given one (memory.c:92,      *)
(* 149).                                                                   *)
LEMMA HeldStep ==
  ASSUME TablesHeld, [TablesNext]_allVars
  PROVE  TablesHeld'
<1> USE DEF TablesHeld
<1>1. CASE UNCHANGED <<owned, blocks>>
  BY <1>1
<1>2. CASE NewRoot
  <2>1. owned' = owned \cup ({ret'} \ {NULL})
    BY <1>2 DEF NewRoot
  <2>2. blocks \subseteq blocks' /\ (ret' # NULL => <<ret', 1>> \in blocks')
    BY <1>2, AllocOneHeld DEF NewRoot
  <2> QED
    BY <2>1, <2>2 DEF NULL
<1>3. ASSUME NEW STATE i, AddTable(i)
      PROVE  TablesHeld'
  <2>1. \/ ret' = NULL /\ owned' = owned
        \/ ret' # NULL /\ owned' = owned \cup {ret'}
    BY <1>3 DEF AddTable
  <2>2. blocks \subseteq blocks' /\ (ret' # NULL => <<ret', 1>> \in blocks')
    BY <1>3, AllocOneHeld DEF AddTable
  <2> QED
    BY <2>1, <2>2 DEF NULL
<1>4. CASE GetOrCreateTable
  <2>1. CASE Present(tables[walk.table][IndexAt(walk.virt, walk.level)])
    BY <1>1, <1>4, <2>1 DEF GetOrCreateTable, allocVars, vars
  <2>2. CASE ~Present(tables[walk.table][IndexAt(walk.virt, walk.level)])
    BY <1>3, <1>4, <2>2 DEF GetOrCreateTable
  <2> QED
    BY <2>1, <2>2
(* Other callers take blocks, and give back none that is a table. *)
<1>5. ASSUME NEW n \in Sizes, OtherAlloc(n)
      PROVE  TablesHeld'
  <2>1. blocks \subseteq blocks' /\ owned' = owned
    BY <1>5 DEF OtherAlloc, PageAllocator_Alloc, tableVars
  <2> QED
    BY <2>1 DEF NULL
<1>6. ASSUME NEW b \in blocks, OtherFree(b)
      PROVE  TablesHeld'
  <2>1. blocks' = blocks \ {b} /\ owned' = owned /\ b[1] \notin owned
    BY <1>6 DEF OtherFree, PageAllocator_Free, tableVars
  <2>2. \A p \in owned : <<p, 1>> # b
    BY <2>1
  <2> QED
    BY <2>1, <2>2 DEF NULL
<1>7. CASE Syscall_Init
  <2>1. blocks \subseteq blocks' /\ owned' = owned
    BY <1>7 DEF Syscall_Init, PageAllocator_Alloc, tableVars
  <2> QED
    BY <2>1 DEF NULL
<1>8. CASE PageTable_Init /\ ~NewRoot
  BY <1>1, <1>8 DEF PageTable_Init, PageTable_Map, NextLoop, allocVars, vars
<1>9. CASE WriteEntry \/ Memory_MapMMIO \/ (stage = Booted /\ PageTable_Map(TRUE))
  BY <1>1, <1>9 DEF WriteEntry, Memory_MapMMIO, PageTable_Map, allocVars, vars
<1>10. ASSUME NEW v \in Touched, PageTable_UnMap(v) \/ Access(v)
       PROVE  TablesHeld'
  BY <1>1, <1>10 DEF PageTable_UnMap, Access, allocVars, vars
<1>11. CASE UNCHANGED allVars
  BY <1>1, <1>11 DEF allVars, vars, tableVars
<1> QED
  BY <1>2, <1>4, <1>5, <1>6, <1>7, <1>8, <1>9, <1>10, <1>11 DEF TablesNext

(* A page taken for a table (memory.c:92, 149) is never given to another   *)
(* caller of the allocator and never given back.                           *)
THEOREM TablesStayHeld == TablesSpec => []TablesHeld
<1>1. TablesInit => TablesHeld
  BY DEF TablesInit, TablesHeld
<1> QED
  BY <1>1, HeldStep, PTL DEF TablesSpec

(* Every nonempty set of naturals has a least element.                     *)
LEMMA Least ==
  ASSUME NEW T, T \subseteq Nat, T # {}
  PROVE  \E x \in T : \A y \in T : x <= y
<1>1. PICK x \in T : \A y \in T : ~(<<y, x>> \in OpToRel(<, Nat))
  BY NatLessThanWellFounded, WFMin
<1>2. ASSUME NEW y \in T PROVE x <= y
  <2>1. x \in Nat /\ y \in Nat
    OBVIOUS
  <2>2. <<y, x>> \in Nat \X Nat /\ <<y, x>>[1] = y /\ <<y, x>>[2] = x
    BY <2>1
  <2>3. ~(<<y, x>> \in {ss \in Nat \X Nat : ss[1] < ss[2]})
    BY <1>1 DEF OpToRel
  <2>4. ~(y < x)
    BY ONLY <2>2, <2>3
  <2>5. QED
    BY <2>1, <2>4
<1>3. QED
  BY <1>2

(* Induction over the levels of the tree from the leaves up, for a set of  *)
(* levels: a set that misses a level has a least missing one.              *)
LEMMA Upwards ==
  ASSUME NEW a \in Nat, NEW n \in Nat, NEW S, a \in S, \A k \in a .. (n - 1) : k \in S => k + 1 \in S
  PROVE  \A k \in a .. n : k \in S
<1> DEFINE Bad == {k \in a .. n : k \notin S}
<1> SUFFICES ASSUME Bad # {} PROVE FALSE
  OBVIOUS
<1>1. Bad \subseteq Nat
  OBVIOUS
<1>2. PICK x \in Bad : \A y \in Bad : x <= y
  <2> HIDE DEF Bad
  <2>1. QED
    BY <1>1, Least
<1>3. x \in a .. n /\ x \notin S /\ x # a
  BY <1>2
<1>4. x - 1 \in a .. (n - 1) /\ (x - 1) + 1 = x /\ x - 1 \in a .. n /\ ~(x <= x - 1)
  BY <1>3
<1>5. x - 1 \in S
  BY <1>2, <1>4
<1>6. QED
  BY <1>3, <1>4, <1>5

(* Induction over the levels from the root down, the order in which the    *)
(* hardware and PageTable_UnMap (memory.c:128-138) walk.                   *)
LEMMA Downwards ==
  ASSUME NEW n \in Nat, NEW S, n \in S, \A k \in 1 .. (n - 1) : k + 1 \in S => k \in S
  PROVE  \A k \in 1 .. n : k \in S
<1> DEFINE U == {k \in 0 .. n : n - k \in S}
<1> DEFINE m == n - 1
<1>1. CASE n = 0
  BY <1>1
<1>2. CASE n > 0
  <2>1. m \in Nat /\ 0 \in U
    BY <1>2
  <2>2. ASSUME NEW k \in 0 .. (m - 1), k \in U PROVE k + 1 \in U
    <3>1. n - k - 1 \in 1 .. (n - 1) /\ (n - k - 1) + 1 = n - k /\ n - (k + 1) = n - k - 1
      BY <1>2, <2>2
    <3>2. n - k - 1 \in S
      BY <2>2, <3>1
    <3>3. QED
      BY <1>2, <2>2, <3>1, <3>2
  <2>3. \A k \in 0 .. m : k \in U
    <3> HIDE DEF U, m
    <3>1. QED
      BY <2>1, <2>2, Upwards
  <2>4. ASSUME NEW k \in 1 .. n PROVE k \in S
    <3>1. n - k \in 0 .. m /\ n - (n - k) = k
      BY <1>2
    <3>2. n - k \in U
      BY <2>3, <3>1
    <3>3. QED
      BY <3>1, <3>2
  <2>5. QED
    BY <2>4
<1>3. QED
  BY <1>1, <1>2

-----------------------------------------------------------------------------
(* Positional notation: the entries that a walk for v reads tell v from     *)
(* every other page (memory.c:109-112).                                     *)
SpanTo(n) ==
  {f \in [0 .. n -> Nat \ {0}] :
     \A l \in 0 .. n : f[l] = IF l = 0 THEN 1 ELSE Entries * f[l - 1]}

(* The recursive definition of Span has a solution up to Levels, built     *)
(* level by level.                                                         *)
LEMMA SpanExists == SpanTo(Levels) # {}
<1> DEFINE S == {n \in 0 .. Levels : SpanTo(n) # {}}
<1>1. 0 \in S
  <2>1. [l \in 0 .. 0 |-> 1] \in SpanTo(0)
    BY DEF SpanTo
  <2>2. QED
    BY <2>1, ShapeAssumption
<1>2. ASSUME NEW n \in 0 .. (Levels - 1), n \in S PROVE n + 1 \in S
  <2>1. PICK f : f \in SpanTo(n)
    BY <1>2
  <2> DEFINE g == [l \in 0 .. (n + 1) |-> IF l = n + 1 THEN Entries * f[n] ELSE f[l]]
  <2>2. n \in Nat /\ Entries \in Nat \ {0} /\ f \in [0 .. n -> Nat \ {0}]
    BY <2>1, ShapeAssumption DEF SpanTo
  <2>3. f[n] \in Nat \ {0}
    BY <2>2
  <2>4. Entries * f[n] \in Nat \ {0}
    BY <2>2, <2>3
  <2>5. g \in [0 .. (n + 1) -> Nat \ {0}]
    BY <2>2, <2>4
  <2>6. ASSUME NEW l \in 0 .. (n + 1)
        PROVE  g[l] = IF l = 0 THEN 1 ELSE Entries * g[l - 1]
    <3>1. CASE l = n + 1
      <4>1. g[l] = Entries * f[n] /\ l - 1 = n /\ l # 0
        BY <2>2, <3>1
      <4>2. g[n] = f[n]
        BY <2>2
      <4>3. QED
        BY <4>1, <4>2
    <3>2. CASE l # n + 1
      <4>1. l \in 0 .. n /\ g[l] = f[l]
        BY <2>2, <3>2
      <4>2. f[l] = IF l = 0 THEN 1 ELSE Entries * f[l - 1]
        BY <2>1, <4>1 DEF SpanTo
      <4>3. l # 0 => g[l - 1] = f[l - 1]
        BY <2>2, <4>1
      <4>4. QED
        BY <4>1, <4>2, <4>3
    <3>3. QED
      BY <3>1, <3>2
  <2>7. g \in SpanTo(n + 1)
    BY <2>5, <2>6 DEF SpanTo
  <2>8. QED
    BY <2>7, ShapeAssumption
<1>3. \A n \in 0 .. Levels : n \in S
  <2> HIDE DEF S
  <2>1. QED
    BY <1>1, <1>2, Upwards, ShapeAssumption
<1>4. QED
  BY <1>3, ShapeAssumption

(* What an entry of each level spans: the shifts 12, 21, 30 and 39 of      *)
(* memory.c:109-112 are the powers of 512.                                 *)
LEMMA SpanDef ==
  /\ Span[0] = 1
  /\ \A l \in 0 .. Levels : Span[l] \in Nat \ {0}
  /\ \A l \in 1 .. Levels : Span[l] = Entries * Span[l - 1]
<1> DEFINE Good(f) == f = [l \in 0 .. Levels |-> IF l = 0 THEN 1 ELSE Entries * f[l - 1]]
<1>1. Span = CHOOSE f : Good(f)
  BY DEF Span
<1>2. \E f : Good(f)
  <2>1. PICK f : f \in SpanTo(Levels)
    BY SpanExists
  <2>2. Good(f)
    BY <2>1 DEF SpanTo
  <2>3. QED
    BY <2>2
<1>3. Good(Span)
  <2> HIDE DEF Good
  <2>1. QED
    BY <1>1, <1>2, Zenon
<1>4. Levels \in Nat /\ Entries \in Nat \ {0}
  BY ShapeAssumption
<1>5. \A l \in 0 .. Levels : Span[l] = IF l = 0 THEN 1 ELSE Entries * Span[l - 1]
  BY <1>3
<1> HIDE DEF Good
<1> DEFINE S == {l \in 0 .. Levels : Span[l] \in Nat \ {0}}
<1>6. 0 \in S
  BY <1>4, <1>5
<1>7. ASSUME NEW l \in 0 .. (Levels - 1), l \in S PROVE l + 1 \in S
  <2>1. l + 1 \in 0 .. Levels /\ l + 1 # 0 /\ (l + 1) - 1 = l
    BY <1>4
  <2>2. Span[l + 1] = Entries * Span[l] /\ Span[l] \in Nat \ {0}
    BY <1>5, <1>7, <2>1
  <2>3. Span[l + 1] \in Nat \ {0}
    BY <1>4, <2>2
  <2>4. QED
    BY <2>1, <2>3
<1>8. \A l \in 0 .. Levels : l \in S
  <2> HIDE DEF S
  <2>1. QED
    BY <1>4, <1>6, <1>7, Upwards
<1>9. \A l \in 1 .. Levels : l \in 0 .. Levels /\ l # 0
  BY <1>4
<1>10. QED
  BY <1>4, <1>5, <1>8, <1>9

(* What \div and % return.                                                 *)
LEMMA Quotient ==
  ASSUME NEW x \in Nat, NEW d \in Nat \ {0}
  PROVE  x \div d \in Nat /\ d * (x \div d) <= x /\ x < d * ((x \div d) + 1)
  OBVIOUS

(* Multiplication by a positive number keeps the order.                    *)
LEMMA Ordered ==
  ASSUME NEW d \in Nat \ {0}, NEW p \in Nat, NEW q \in Nat
  PROVE  p <= q => d * p <= d * q
  OBVIOUS

(* A quotient is known by its bounds.                                      *)
LEMMA QuotientUnique ==
  ASSUME NEW x \in Nat, NEW d \in Nat \ {0}, NEW p \in Nat, d * p <= x, x < d * (p + 1)
  PROVE  x \div d = p
<1> DEFINE q == x \div d
<1>1. q \in Nat /\ d * q <= x /\ x < d * (q + 1)
  BY Quotient
<1> HIDE DEF q
<1>2. d * p \in Nat /\ d * q \in Nat /\ d * (p + 1) \in Nat /\ d * (q + 1) \in Nat
  BY <1>1
<1>3. ~(q + 1 <= p)
  <2>1. q + 1 <= p => d * (q + 1) <= d * p
    BY <1>1, Ordered
  <2>2. QED
    BY <1>1, <1>2, <2>1
<1>4. ~(p + 1 <= q)
  <2>1. p + 1 <= q => d * (p + 1) <= d * q
    BY <1>1, Ordered
  <2>2. QED
    BY <1>1, <1>2, <2>1
<1>5. QED
  BY <1>1, <1>3, <1>4 DEF q

(* Dividing twice is dividing by the product: the index of a level is a    *)
(* digit of the page number.                                               *)
LEMMA NestedQuotient ==
  ASSUME NEW x \in Nat, NEW s \in Nat \ {0}, NEW e \in Nat \ {0}
  PROVE  x \div (e * s) = (x \div s) \div e
<1> DEFINE q == x \div s
<1> DEFINE p == q \div e
<1>1. q \in Nat /\ s * q <= x /\ x < s * (q + 1)
  BY Quotient
<1> HIDE DEF q
<1>2. p \in Nat /\ e * p <= q /\ q < e * (p + 1)
  BY <1>1, Quotient
<1> HIDE DEF p
<1>3. e * p \in Nat /\ e * (p + 1) \in Nat /\ q + 1 <= e * (p + 1)
  BY <1>1, <1>2
<1>4. s * (e * p) <= s * q /\ s * (q + 1) <= s * (e * (p + 1))
  BY <1>1, <1>2, <1>3, Ordered
<1>5. e * s \in Nat \ {0} /\ (e * s) * p = s * (e * p) /\ (e * s) * (p + 1) = s * (e * (p + 1))
  BY <1>2
<1>6. s * q \in Nat /\ s * (q + 1) \in Nat /\ s * (e * p) \in Nat /\ s * (e * (p + 1)) \in Nat
  BY <1>1, <1>3
<1>7. (e * s) * p <= x /\ x < (e * s) * (p + 1)
  BY <1>1, <1>4, <1>5, <1>6
<1>8. x \div (e * s) = p
  BY <1>2, <1>5, <1>7, QuotientUnique
<1>9. QED
  BY <1>8 DEF p, q

(* Quotient and remainder by n determine a number.                         *)
LEMMA QuotientRemainder ==
  ASSUME NEW x \in Nat, NEW y \in Nat, NEW e \in Nat \ {0},
         x \div e = y \div e, x % e = y % e
  PROVE  x = y
<1>1. x = (e * (x \div e)) + (x % e) /\ y = (e * (y \div e)) + (y % e)
  OBVIOUS
<1>2. QED
  BY <1>1

(* Every index that memory.c:109-112 computes is an index of a table, and  *)
(* a table has more than one entry.                                        *)
LEMMA VirtFacts ==
  /\ Levels \in Nat \ {0} /\ Entries \in Nat \ {0, 1}
  /\ Virt \subseteq Nat /\ 0 \in Virt /\ 1 \in Virt
  /\ \A v \in Virt : v < Span[Levels]
  /\ \A v \in Virt, l \in 1 .. Levels : IndexAt(v, l) \in Index
<1>1. Levels \in Nat \ {0} /\ Entries \in Nat \ {0, 1}
  BY ShapeAssumption
<1>2. Span[Levels] \in Nat /\ Span[Levels] >= 2
  <2>1. Span[Levels] = Entries * Span[Levels - 1] /\ Span[Levels - 1] \in Nat \ {0}
    BY <1>1, SpanDef
  <2>2. QED
    BY <1>1, <2>1
<1>3. ASSUME NEW v \in Virt, NEW l \in 1 .. Levels PROVE IndexAt(v, l) \in Index
  <2>1. v \in Nat /\ l - 1 \in 0 .. Levels
    BY <1>1, <1>2 DEF Virt
  <2>2. Span[l - 1] \in Nat \ {0}
    BY <2>1, SpanDef
  <2>3. v \div Span[l - 1] \in Nat
    BY <2>1, <2>2, Quotient
  <2>4. QED
    BY <1>1, <2>3 DEF IndexAt, Index
<1>4. QED
  BY <1>1, <1>2, <1>3 DEF Virt

(* The indices of all levels determine the page (memory.c:109-112): two    *)
(* pages that differ take different entries somewhere on the way.          *)
LEMMA IndicesDetermine ==
  ASSUME NEW v \in Virt, NEW w \in Virt, \A l \in 1 .. Levels : IndexAt(v, l) = IndexAt(w, l)
  PROVE  v = w
<1> DEFINE S == {k \in 1 .. (Levels + 1) : v \div Span[k - 1] = w \div Span[k - 1]}
<1>1. /\ v \in Nat /\ w \in Nat /\ v < Span[Levels] /\ w < Span[Levels]
      /\ Levels \in Nat \ {0} /\ Entries \in Nat \ {0}
  BY VirtFacts
<1>2. Levels + 1 \in S
  <2>1. Span[Levels] \in Nat \ {0}
    BY <1>1, SpanDef
  <2>2. v \div Span[Levels] = 0 /\ w \div Span[Levels] = 0
    <3>1. Span[Levels] * 0 = 0 /\ Span[Levels] * (0 + 1) = Span[Levels]
      BY <2>1
    <3>2. QED
      BY <1>1, <2>1, <3>1, QuotientUnique
  <2>3. (Levels + 1) - 1 = Levels /\ Levels + 1 \in 1 .. (Levels + 1)
    BY <1>1
  <2>4. QED
    BY <2>2, <2>3
<1>3. ASSUME NEW k \in 1 .. ((Levels + 1) - 1), k + 1 \in S PROVE k \in S
  <2>1. k \in 1 .. Levels /\ (k + 1) - 1 = k /\ k \in 1 .. (Levels + 1) /\ k - 1 \in 0 .. Levels
    BY <1>1
  <2> DEFINE s == Span[k - 1]
  <2>2. s \in Nat \ {0} /\ Span[k] = Entries * s
    BY <2>1, SpanDef
  <2>3. v \div Span[k] = w \div Span[k]
    BY <1>3, <2>1
  <2>4. (v \div s) % Entries = (w \div s) % Entries
    BY <2>1 DEF IndexAt
  <2> HIDE DEF s
  <2>5. (v \div s) \div Entries = (w \div s) \div Entries
    <3>1. v \div (Entries * s) = (v \div s) \div Entries
      BY <1>1, <2>2, NestedQuotient
    <3>2. w \div (Entries * s) = (w \div s) \div Entries
      BY <1>1, <2>2, NestedQuotient
    <3>3. QED
      BY ONLY <2>2, <2>3, <3>1, <3>2
  <2>6. v \div s \in Nat /\ w \div s \in Nat
    BY <1>1, <2>2, Quotient
  <2>8. v \div s = w \div s
    BY <1>1, <2>4, <2>5, <2>6, QuotientRemainder
  <2>9. QED
    BY <2>1, <2>8 DEF s
<1>4. \A k \in 1 .. (Levels + 1) : k \in S
  <2>1. Levels + 1 \in Nat
    BY <1>1
  <2> HIDE DEF S
  <2>2. QED
    BY <1>2, <1>3, <2>1, Downwards
<1>5. v \div 1 = w \div 1
  <2>1. 1 \in S /\ 1 - 1 = 0
    BY <1>1, <1>4
  <2>2. QED
    BY <2>1, SpanDef
<1>6. v \div 1 = v /\ w \div 1 = w
  BY <1>1
<1>7. QED
  BY <1>5, <1>6
-----------------------------------------------------------------------------
(* What a walk for v finds in the tables T from the root r: the table      *)
(* below t, the tables by level, and the translation; and such a walk down *)
(* to level k only.  WalkFor and Translate are WalkIn and TranslateIn of   *)
(* the current tables; here the tables are a parameter, so that the tables *)
(* before and after a step can be compared.                                *)
Down(T, t, v, l) ==
  IF t # NULL /\ Present(T[t][IndexAt(v, l)]) THEN T[t][IndexAt(v, l)][1] ELSE NULL

WalkIn(T, r, v) ==
  LET t[l \in 1 .. Levels] == IF l = Levels THEN r ELSE Down(T, t[l + 1], v, l + 1)
  IN  t

TranslateIn(T, r, v) ==
  LET leaf == WalkIn(T, r, v)[1]
  IN  IF leaf = NULL THEN NotPresent ELSE T[leaf][IndexAt(v, 1)]

IsWalk(T, r, v, k, t) ==
  t = [l \in k .. Levels |-> IF l = Levels THEN r ELSE Down(T, t[l + 1], v, l + 1)]

(* The recursive definition of a walk has a solution.                      *)
LEMMA WalkExists ==
  ASSUME NEW T, NEW r, NEW v
  PROVE  \E t : IsWalk(T, r, v, 1, t)
<1> DEFINE S == {k \in 1 .. Levels : \E f : IsWalk(T, r, v, k, f)}
<1>1. Levels \in Nat \ {0}
  BY ShapeAssumption
<1>2. Levels \in S
  <2> DEFINE f == [l \in Levels .. Levels |-> r]
  <2>1. IsWalk(T, r, v, Levels, f)
    BY <1>1 DEF IsWalk
  <2>2. Levels \in 1 .. Levels
    BY <1>1
  <2> HIDE DEF f
  <2>3. QED
    BY <2>1, <2>2
<1>3. ASSUME NEW k \in 1 .. (Levels - 1), k + 1 \in S PROVE k \in S
  <2>1. k \in 1 .. Levels /\ k # Levels /\ k + 1 \in 1 .. Levels
    BY <1>1
  <2>2. PICK f : IsWalk(T, r, v, k + 1, f)
    BY <1>3
  <2> DEFINE g == [l \in k .. Levels |-> IF l = k THEN Down(T, f[k + 1], v, k + 1) ELSE f[l]]
  <2>3. ASSUME NEW l \in k .. Levels
        PROVE  g[l] = IF l = Levels THEN r ELSE Down(T, g[l + 1], v, l + 1)
    <3>1. CASE l = k
      <4>1. g[l] = Down(T, f[l + 1], v, l + 1) /\ g[l + 1] = f[l + 1]
        BY <2>1, <3>1
      <4>2. QED
        BY <2>1, <3>1, <4>1
    <3>2. CASE l # k
      <4>1. l \in (k + 1) .. Levels /\ g[l] = f[l]
        BY <2>1, <3>2
      <4>2. f[l] = IF l = Levels THEN r ELSE Down(T, f[l + 1], v, l + 1)
        BY <2>2, <4>1 DEF IsWalk
      <4>3. l # Levels => g[l + 1] = f[l + 1]
        BY <1>1, <2>1, <4>1
      <4>4. QED
        BY <4>1, <4>2, <4>3
    <3>3. QED
      BY <3>1, <3>2
  <2>4. IsWalk(T, r, v, k, g)
    BY <2>3 DEF IsWalk
  <2> HIDE DEF g
  <2>5. QED
    BY <2>1, <2>4
<1>4. \A k \in 1 .. Levels : k \in S
  <2> HIDE DEF S
  <2>1. QED
    BY <1>1, <1>2, <1>3, Downwards
<1>5. 1 \in S
  BY <1>1, <1>4
<1>6. QED
  BY <1>5

(* A walk starts at the root and goes down one entry per level             *)
(* (memory.c:128-138).                                                     *)
LEMMA WalkSteps ==
  ASSUME NEW T, NEW r, NEW v
  PROVE  /\ WalkIn(T, r, v)[Levels] = r
         /\ \A l \in 1 .. (Levels - 1) :
              WalkIn(T, r, v)[l] = Down(T, WalkIn(T, r, v)[l + 1], v, l + 1)
<1> DEFINE w == WalkIn(T, r, v)
<1>1. w = CHOOSE t : IsWalk(T, r, v, 1, t)
  BY DEF WalkIn, IsWalk
<1>2. IsWalk(T, r, v, 1, w)
  <2> HIDE DEF w
  <2>1. QED
    BY <1>1, WalkExists, Zenon
<1>3. Levels \in Nat \ {0}
  BY ShapeAssumption
<1> HIDE DEF w
<1>4. w[Levels] = r
  BY <1>2, <1>3 DEF IsWalk
<1>5. ASSUME NEW l \in 1 .. (Levels - 1) PROVE w[l] = Down(T, w[l + 1], v, l + 1)
  BY <1>2, <1>3 DEF IsWalk
<1>6. QED
  BY <1>4, <1>5 DEF w

(* The walks and translations of the model are those of its tables and     *)
(* root, here ...                                                          *)
LEMMA TranslateNow ==
  \A v : /\ WalkFor(v) = WalkIn(tables, root, v)
         /\ Translate(v) = TranslateIn(tables, root, v)
<1>1. \A v : WalkFor(v) = WalkIn(tables, root, v)
  BY DEF WalkFor, WalkIn, Below, Down
<1>2. QED
  BY <1>1 DEF Translate, LeafFor, TranslateIn

(* ... and after a step.                                                   *)
LEMMA TranslateNext ==
  \A v : /\ WalkFor(v)' = WalkIn(tables', root', v)
         /\ Translate(v)' = TranslateIn(tables', root', v)
<1>1. \A v : WalkFor(v)' = WalkIn(tables', root', v)
  BY DEF WalkFor, WalkIn, Below, Down
<1>2. QED
  BY <1>1 DEF Translate, LeafFor, TranslateIn

(* A walk depends on the tables it reads and on no others.                 *)
LEMMA WalkFrame ==
  ASSUME NEW T, NEW U, NEW r, NEW v,
         \A l \in 2 .. Levels :
           WalkIn(T, r, v)[l] # NULL => U[WalkIn(T, r, v)[l]] = T[WalkIn(T, r, v)[l]]
  PROVE  \A l \in 1 .. Levels : WalkIn(U, r, v)[l] = WalkIn(T, r, v)[l]
<1> DEFINE t == WalkIn(T, r, v)
<1> DEFINE u == WalkIn(U, r, v)
<1> DEFINE S == {l \in 1 .. Levels : u[l] = t[l]}
<1>1. Levels \in Nat \ {0}
  BY ShapeAssumption
<1>2. Levels \in S
  BY <1>1, WalkSteps
<1>3. ASSUME NEW l \in 1 .. (Levels - 1), l + 1 \in S PROVE l \in S
  <2>1. l + 1 \in 2 .. Levels /\ l \in 1 .. Levels
    BY <1>1
  <2>2. t[l] = Down(T, t[l + 1], v, l + 1)
    BY WalkSteps
  <2>3. u[l] = Down(U, u[l + 1], v, l + 1)
    BY WalkSteps
  <2>4. u[l + 1] = t[l + 1] /\ (t[l + 1] # NULL => U[t[l + 1]] = T[t[l + 1]])
    BY <1>3, <2>1
  <2>5. u[l] = t[l]
    <3> HIDE DEF t, u
    <3>1. QED
      BY <2>2, <2>3, <2>4 DEF Down
  <2>6. QED
    BY <2>1, <2>5
<1>4. \A l \in 1 .. Levels : l \in S
  <2> HIDE DEF S
  <2>1. QED
    BY <1>1, <1>2, <1>3, Downwards
<1>5. QED
  BY <1>4

-----------------------------------------------------------------------------
(* A tree of the tables O below r, where lev gives each table its level:   *)
(* entry i of t leads to a table when t is not of the last level and the   *)
(* entry is present; every such entry leads one level down, to a table of  *)
(* O that no other entry leads to; and every table but r is led to.        *)
Leads(T, t, i, lev) == lev[t] > 1 /\ Present(T[t][i])

Descends(T, O, lev) ==
  \A t \in O, i \in Index :
    Leads(T, t, i, lev) => T[t][i][1] \in O /\ lev[T[t][i][1]] = lev[t] - 1

LinkedOnce(T, O, lev) ==
  \A t, u \in O, i, j \in Index :
    Leads(T, t, i, lev) /\ Leads(T, u, j, lev) /\ T[t][i][1] = T[u][j][1] => t = u /\ i = j

Linked(T, O, r, lev) ==
  \A t \in O \ {r} : \E u \in O, i \in Index : Leads(T, u, i, lev) /\ T[u][i][1] = t

Tree(T, O, r, lev) ==
  /\ lev \in [O -> 1 .. Levels]
  /\ r \in O /\ NULL \notin O /\ lev[r] = Levels
  /\ Descends(T, O, lev)
  /\ LinkedOnce(T, O, lev)
  /\ Linked(T, O, r, lev)

(* In a tree a walk stays on tables of the tree, one of each level.        *)
LEMMA TreeWalk ==
  ASSUME NEW T, NEW O, NEW r, NEW lev, Tree(T, O, r, lev), NEW v \in Virt
  PROVE  \A l \in 1 .. Levels :
           WalkIn(T, r, v)[l] # NULL => WalkIn(T, r, v)[l] \in O /\ lev[WalkIn(T, r, v)[l]] = l
<1> DEFINE t == WalkIn(T, r, v)
<1> DEFINE S == {l \in 1 .. Levels : t[l] # NULL => t[l] \in O /\ lev[t[l]] = l}
<1>1. Levels \in Nat \ {0}
  BY ShapeAssumption
<1>2. Levels \in S
  BY <1>1, WalkSteps DEF Tree
<1>3. ASSUME NEW l \in 1 .. (Levels - 1), l + 1 \in S PROVE l \in S
  <2>1. l + 1 \in 1 .. Levels /\ l \in 1 .. Levels /\ l + 1 > 1 /\ (l + 1) - 1 = l
    BY <1>1
  <2>2. t[l] = Down(T, t[l + 1], v, l + 1)
    BY WalkSteps
  <2>3. t[l + 1] # NULL => t[l + 1] \in O /\ lev[t[l + 1]] = l + 1
    BY <1>3
  <2>4. IndexAt(v, l + 1) \in Index
    BY <2>1, VirtFacts
  <2> HIDE DEF t
  <2>5. t[l] # NULL => t[l] \in O /\ lev[t[l]] = l
    <3>1. SUFFICES ASSUME t[l] # NULL PROVE t[l] \in O /\ lev[t[l]] = l
      OBVIOUS
    <3>2. /\ t[l + 1] # NULL /\ Present(T[t[l + 1]][IndexAt(v, l + 1)])
          /\ t[l] = T[t[l + 1]][IndexAt(v, l + 1)][1]
      BY <2>2, <3>1 DEF Down
    <3>3. Leads(T, t[l + 1], IndexAt(v, l + 1), lev)
      BY <2>1, <2>3, <3>2 DEF Leads
    <3>4. t[l + 1] \in O /\ lev[t[l + 1]] = l + 1
      BY <2>3, <3>2
    <3>5. t[l] \in O /\ lev[t[l]] = lev[t[l + 1]] - 1
      BY <2>4, <3>2, <3>3, <3>4 DEF Tree, Descends
    <3>6. QED
      BY <2>1, <3>4, <3>5
  <2>6. QED
    BY <2>1, <2>5
<1>4. \A l \in 1 .. Levels : l \in S
  <2> HIDE DEF S
  <2>1. QED
    BY <1>1, <1>2, <1>3, Downwards
<1>5. QED
  BY <1>4

(* In a tree no two pages share their last entry: PageTable_Map and        *)
(* PageTable_UnMap write the entry of one page only (memory.c:118, 140).   *)
LEMMA TreeInjective ==
  ASSUME NEW T, NEW O, NEW r, NEW lev, Tree(T, O, r, lev), NEW v \in Virt, NEW w \in Virt,
         WalkIn(T, r, v)[1] # NULL, WalkIn(T, r, v)[1] = WalkIn(T, r, w)[1],
         IndexAt(v, 1) = IndexAt(w, 1)
  PROVE  v = w
<1> DEFINE t == WalkIn(T, r, v)
<1> DEFINE u == WalkIn(T, r, w)
<1> DEFINE S == {l \in 1 .. Levels : t[l] # NULL /\ t[l] = u[l] /\ IndexAt(v, l) = IndexAt(w, l)}
<1>1. Levels \in Nat \ {0}
  BY ShapeAssumption
<1>2. 1 \in S
  BY <1>1
<1>3. ASSUME NEW l \in 1 .. (Levels - 1), l \in S PROVE l + 1 \in S
  <2>1. l + 1 \in 1 .. Levels /\ l \in 1 .. Levels /\ l + 1 > 1
    BY <1>1
  <2>2. t[l] = Down(T, t[l + 1], v, l + 1) /\ u[l] = Down(T, u[l + 1], w, l + 1)
    BY WalkSteps
  <2>3. /\ t[l + 1] # NULL => t[l + 1] \in O /\ lev[t[l + 1]] = l + 1
        /\ u[l + 1] # NULL => u[l + 1] \in O /\ lev[u[l + 1]] = l + 1
    BY <2>1, TreeWalk
  <2>4. IndexAt(v, l + 1) \in Index /\ IndexAt(w, l + 1) \in Index
    BY <2>1, VirtFacts
  <2>5. t[l] # NULL /\ t[l] = u[l]
    BY <1>3
  <2> HIDE DEF t, u
  <2>6. /\ t[l + 1] # NULL /\ Present(T[t[l + 1]][IndexAt(v, l + 1)])
        /\ u[l + 1] # NULL /\ Present(T[u[l + 1]][IndexAt(w, l + 1)])
        /\ T[t[l + 1]][IndexAt(v, l + 1)][1] = T[u[l + 1]][IndexAt(w, l + 1)][1]
    BY <2>2, <2>5 DEF Down
  <2>7. Leads(T, t[l + 1], IndexAt(v, l + 1), lev) /\ Leads(T, u[l + 1], IndexAt(w, l + 1), lev)
    BY <2>1, <2>3, <2>6 DEF Leads
  <2>8. t[l + 1] = u[l + 1] /\ IndexAt(v, l + 1) = IndexAt(w, l + 1)
    BY <2>3, <2>4, <2>6, <2>7 DEF Tree, LinkedOnce
  <2>9. QED
    BY <2>1, <2>6, <2>8
<1>4. \A l \in 1 .. Levels : l \in S
  <2> HIDE DEF S
  <2>1. QED
    BY <1>1, <1>2, <1>3, Upwards
<1>5. \A l \in 1 .. Levels : IndexAt(v, l) = IndexAt(w, l)
  BY <1>4
<1>6. QED
  BY <1>5, IndicesDetermine

-----------------------------------------------------------------------------
(* T and U are the same on the pages of O; they translate every page       *)
(* alike.                                                                  *)
Agree(T, U, O) == \A q \in O : U[q] = T[q]

Alike(T, U, r) == \A v \in Virt : TranslateIn(U, r, v) = TranslateIn(T, r, v)

(* What pages outside the tree hold does not matter: the stray write to    *)
(* page 0 after GetOrCreateTable returned NULL (memory.c:93-94, 118)       *)
(* changes no translation.                                                 *)
LEMMA TreeSame ==
  ASSUME NEW T, NEW U, NEW O, NEW r, NEW lev, Tree(T, O, r, lev), Agree(T, U, O)
  PROVE  Tree(U, O, r, lev) /\ Alike(T, U, r)
<1>1. 1 \in 1 .. Levels /\ \A l \in 2 .. Levels : l \in 1 .. Levels
  BY ShapeAssumption
<1>0. \A q \in O : U[q] = T[q]
  BY DEF Agree
<1>2. \A t \in O, i \in Index : Leads(U, t, i, lev) <=> Leads(T, t, i, lev)
  BY <1>0 DEF Leads
<1>3. Tree(U, O, r, lev)
  <2>1. Descends(U, O, lev)
    BY <1>0, <1>2 DEF Tree, Descends
  <2>2. LinkedOnce(U, O, lev)
    BY <1>0, <1>2 DEF Tree, LinkedOnce
  <2>3. Linked(U, O, r, lev)
    <3>1. ASSUME NEW t \in O \ {r} PROVE \E u \in O, i \in Index : Leads(U, u, i, lev) /\ U[u][i][1] = t
      <4>1. PICK u \in O, i \in Index : Leads(T, u, i, lev) /\ T[u][i][1] = t
        BY DEF Tree, Linked
      <4>2. Leads(U, u, i, lev) /\ U[u][i][1] = t
        BY <1>0, <1>2, <4>1
      <4>3. QED
        BY <4>2
    <3>2. QED
      BY <3>1 DEF Linked
  <2>4. QED
    BY <2>1, <2>2, <2>3 DEF Tree
<1>4. ASSUME NEW w \in Virt PROVE TranslateIn(U, r, w) = TranslateIn(T, r, w)
  <2> DEFINE t == WalkIn(T, r, w)
  <2>1. \A l \in 1 .. Levels : t[l] # NULL => t[l] \in O
    BY TreeWalk
  <2>2. \A l \in 1 .. Levels : t[l] # NULL => U[t[l]] = T[t[l]]
    <3> HIDE DEF t
    <3>1. QED
      BY <1>0, <2>1
  <2>3. WalkIn(U, r, w)[1] = t[1]
    BY <1>1, <2>2, WalkFrame
  <2>4. t[1] # NULL => U[t[1]] = T[t[1]]
    BY <1>1, <2>2
  <2>5. QED
    BY <2>3, <2>4 DEF TranslateIn
<1>5. QED
  BY <1>3, <1>4 DEF Alike

(* On the pages of O, U is T with entry k of page p set to e.              *)
Writes(T, U, O, p, k, e) ==
  /\ U[p][k] = e
  /\ \A j \in Index : j # k => U[p][j] = T[p][j]
  /\ \A q \in O : q # p => U[q] = T[q]

(* Writing the last entry of a walk changes the translation of that page   *)
(* only (memory.c:118, 140).                                               *)
LEMMA TreeWrite ==
  ASSUME NEW T, NEW U, NEW O, NEW r, NEW lev, Tree(T, O, r, lev), NEW v \in Virt, NEW e,
         NEW p, p = WalkIn(T, r, v)[1], p # NULL,
         Writes(T, U, O, p, IndexAt(v, 1), e)
  PROVE  /\ Tree(U, O, r, lev)
         /\ \A w \in Virt : TranslateIn(U, r, w) = IF w = v THEN e ELSE TranslateIn(T, r, w)
<1>0. /\ U[p][IndexAt(v, 1)] = e
      /\ \A j \in Index : j # IndexAt(v, 1) => U[p][j] = T[p][j]
      /\ \A q \in O : q # p => U[q] = T[q]
  BY DEF Writes
<1>1. Levels \in Nat \ {0} /\ 1 \in 1 .. Levels
  BY ShapeAssumption
<1>2. p \in O /\ lev[p] = 1
  BY <1>1, TreeWalk
<1>3. \A t \in O, i \in Index : Leads(U, t, i, lev) <=> Leads(T, t, i, lev)
  BY <1>0, <1>2 DEF Leads
<1>4. \A t \in O, i \in Index : Leads(T, t, i, lev) => U[t] = T[t]
  BY <1>0, <1>2 DEF Leads
<1>5. Tree(U, O, r, lev)
  <2>1. Descends(U, O, lev)
    BY <1>3, <1>4 DEF Tree, Descends
  <2>2. LinkedOnce(U, O, lev)
    BY <1>3, <1>4 DEF Tree, LinkedOnce
  <2>3. Linked(U, O, r, lev)
    <3>1. ASSUME NEW t \in O \ {r} PROVE \E u \in O, i \in Index : Leads(U, u, i, lev) /\ U[u][i][1] = t
      <4>1. PICK u \in O, i \in Index : Leads(T, u, i, lev) /\ T[u][i][1] = t
        BY DEF Tree, Linked
      <4>2. Leads(U, u, i, lev) /\ U[u][i][1] = t
        BY <1>3, <1>4, <4>1
      <4>3. QED
        BY <4>2
    <3>2. QED
      BY <3>1 DEF Linked
  <2>4. QED
    BY <2>1, <2>2, <2>3 DEF Tree
<1>6. ASSUME NEW w \in Virt
      PROVE  TranslateIn(U, r, w) = IF w = v THEN e ELSE TranslateIn(T, r, w)
  <2> DEFINE t == WalkIn(T, r, w)
  <2>1. \A l \in 1 .. Levels : t[l] # NULL => t[l] \in O /\ lev[t[l]] = l
    BY TreeWalk
  <2>2. \A l \in 2 .. Levels : t[l] # NULL => U[t[l]] = T[t[l]]
    <3> HIDE DEF t
    <3>1. \A l \in 2 .. Levels : l \in 1 .. Levels /\ l # 1
      BY <1>1
    <3>2. QED
      BY <1>0, <1>2, <2>1, <3>1
  <2>3. WalkIn(U, r, w)[1] = t[1]
    BY <1>1, <2>2, WalkFrame
  <2>4. CASE w = v
    BY <1>0, <2>3, <2>4 DEF TranslateIn
  <2>5. CASE w # v
    <3>1. IndexAt(w, 1) \in Index
      BY <1>1, VirtFacts
    <3>2. t[1] = p => IndexAt(w, 1) # IndexAt(v, 1)
      BY <2>5, TreeInjective
    <3>3. t[1] # NULL => t[1] \in O
      BY <1>1, <2>1
    <3>4. t[1] # NULL => U[t[1]][IndexAt(w, 1)] = T[t[1]][IndexAt(w, 1)]
      <4> HIDE DEF t
      <4>1. QED
        BY <1>0, <3>1, <3>2, <3>3
    <3>5. QED
      BY <2>3, <2>5, <3>4 DEF TranslateIn
  <2>6. QED
    BY <2>4, <2>5
<1>7. QED
  BY <1>5, <1>6

(* U translates like T, and its walks go as far at least.                  *)
Keeps(T, U, r) ==
  \A v \in Virt : /\ TranslateIn(U, r, v) = TranslateIn(T, r, v)
                  /\ \A l \in 1 .. Levels :
                       WalkIn(T, r, v)[l] # NULL => WalkIn(U, r, v)[l] = WalkIn(T, r, v)[l]

(* Linking a cleared page in place of an absent entry (memory.c:96-103)    *)
(* extends the tree and changes no translation.                            *)
LEMMA TreeAdd ==
  ASSUME NEW T, NEW U, NEW O, NEW r, NEW lev, Tree(T, O, r, lev),
         NEW p \in O, lev[p] > 1, NEW k \in Index, ~Present(T[p][k]),
         NEW n, n \notin O, n # NULL,
         U[n] = Cleared, Writes(T, U, O, p, k, <<n, TRUE>>)
  PROVE  (\E m : Tree(U, O \cup {n}, r, m)) /\ Keeps(T, U, r)
<1> DEFINE m == [x \in O \cup {n} |-> IF x = n THEN lev[p] - 1 ELSE lev[x]]
<1>1. Levels \in Nat \ {0} /\ 1 \in 1 .. Levels
  BY ShapeAssumption
<1>2. lev \in [O -> 1 .. Levels] /\ r \in O /\ NULL \notin O /\ lev[r] = Levels
  BY DEF Tree
<1>3. m \in [O \cup {n} -> 1 .. Levels]
  <2>1. lev[p] - 1 \in 1 .. Levels
    BY <1>1, <1>2
  <2>2. QED
    BY <1>2, <2>1
<1>4. m[n] = lev[p] - 1 /\ (\A x \in O : m[x] = lev[x])
  OBVIOUS
<1> HIDE DEF m
<1>5. \A j \in Index : U[n][j] = NotPresent /\ ~Present(U[n][j])
  BY DEF Cleared, Present
<1>6. Present(U[p][k]) /\ U[p][k][1] = n
  BY DEF Writes, Present, NotPresent
<1>7. \A x \in O, j \in Index : (x # p \/ j # k) => U[x][j] = T[x][j]
  BY DEF Writes
<1>8. \A x \in O \cup {n}, j \in Index :
        Leads(U, x, j, m) <=> (x = p /\ j = k) \/ (x \in O /\ Leads(T, x, j, lev) /\ U[x][j] = T[x][j])
  <2>1. ASSUME NEW j \in Index PROVE ~Leads(U, n, j, m)
    BY <1>5 DEF Leads
  <2>2. Leads(U, p, k, m) /\ ~Leads(T, p, k, lev)
    BY <1>4, <1>6 DEF Leads
  <2>3. ASSUME NEW x \in O, NEW j \in Index, x # p \/ j # k
        PROVE  Leads(U, x, j, m) <=> Leads(T, x, j, lev) /\ U[x][j] = T[x][j]
    BY <1>4, <1>7, <2>3 DEF Leads
  <2>4. QED
    BY <2>1, <2>2, <2>3
<1>9. Tree(U, O \cup {n}, r, m)
  <2>1. Descends(U, O \cup {n}, m)
    <3>1. ASSUME NEW x \in O \cup {n}, NEW j \in Index, Leads(U, x, j, m)
          PROVE  U[x][j][1] \in O \cup {n} /\ m[U[x][j][1]] = m[x] - 1
      <4>1. CASE x = p /\ j = k
        BY <1>4, <1>6, <4>1
      <4>2. CASE x \in O /\ Leads(T, x, j, lev) /\ U[x][j] = T[x][j]
        <5>1. T[x][j][1] \in O /\ lev[T[x][j][1]] = lev[x] - 1
          BY <4>2 DEF Tree, Descends
        <5>2. QED
          BY <1>4, <4>2, <5>1
      <4>3. QED
        BY <1>8, <3>1, <4>1, <4>2
    <3>2. QED
      BY <3>1 DEF Descends
  <2>2. LinkedOnce(U, O \cup {n}, m)
    <3>1. ASSUME NEW x \in O \cup {n}, NEW y \in O \cup {n}, NEW i \in Index, NEW j \in Index,
                 Leads(U, x, i, m), Leads(U, y, j, m), U[x][i][1] = U[y][j][1]
          PROVE  x = y /\ i = j
      <4>1. \A z \in O, l \in Index : Leads(T, z, l, lev) => T[z][l][1] # n
        BY DEF Tree, Descends
      <4>2. CASE (x = p /\ i = k) \/ (y = p /\ j = k)
        BY <1>6, <1>8, <3>1, <4>1, <4>2
      <4>3. CASE /\ x \in O /\ Leads(T, x, i, lev) /\ U[x][i] = T[x][i]
                 /\ y \in O /\ Leads(T, y, j, lev) /\ U[y][j] = T[y][j]
        BY <3>1, <4>3 DEF Tree, LinkedOnce
      <4>4. QED
        BY <1>8, <3>1, <4>2, <4>3
    <3>2. QED
      BY <3>1 DEF LinkedOnce
  <2>3. Linked(U, O \cup {n}, r, m)
    <3>1. ASSUME NEW t \in (O \cup {n}) \ {r}
          PROVE  \E u \in O \cup {n}, i \in Index : Leads(U, u, i, m) /\ U[u][i][1] = t
      <4>1. CASE t = n
        BY <1>6, <1>8, <4>1
      <4>2. CASE t # n
        <5>1. PICK u \in O, i \in Index : Leads(T, u, i, lev) /\ T[u][i][1] = t
          BY <4>2 DEF Tree, Linked
        <5>2. u # p \/ i # k
          BY <5>1 DEF Leads
        <5>3. U[u][i] = T[u][i]
          BY <1>7, <5>2
        <5>4. Leads(U, u, i, m) /\ U[u][i][1] = t
          BY <1>8, <5>1, <5>3
        <5>5. QED
          BY <5>4
      <4>3. QED
        BY <4>1, <4>2
    <3>2. QED
      BY <3>1 DEF Linked
  <2>4. m[r] = Levels /\ NULL \notin O \cup {n}
    BY <1>2, <1>4
  <2>5. QED
    BY <1>2, <1>3, <2>1, <2>2, <2>3, <2>4 DEF Tree
<1>10. ASSUME NEW v \in Virt
       PROVE  /\ TranslateIn(U, r, v) = TranslateIn(T, r, v)
              /\ \A l \in 1 .. Levels :
                   WalkIn(T, r, v)[l] # NULL => WalkIn(U, r, v)[l] = WalkIn(T, r, v)[l]
  <2> DEFINE t == WalkIn(T, r, v)
  <2> DEFINE u == WalkIn(U, r, v)
  <2> DEFINE S == {l \in 1 .. Levels : u[l] = t[l] \/ (t[l] = NULL /\ u[l] = n)}
  <2>1. \A l \in 1 .. Levels : t[l] # NULL => t[l] \in O /\ lev[t[l]] = l
    BY TreeWalk
  <2>2. Levels \in S
    BY <1>1, WalkSteps
  <2>3. ASSUME NEW l \in 1 .. (Levels - 1), l + 1 \in S PROVE l \in S
    <3>1. l + 1 \in 1 .. Levels /\ l \in 1 .. Levels
      BY <1>1
    <3>2. t[l] = Down(T, t[l + 1], v, l + 1) /\ u[l] = Down(U, u[l + 1], v, l + 1)
      BY WalkSteps
    <3>3. u[l + 1] = t[l + 1] \/ (t[l + 1] = NULL /\ u[l + 1] = n)
      BY <2>3
    <3>4. t[l + 1] # NULL => t[l + 1] \in O
      BY <2>1, <3>1
    <3> DEFINE i == IndexAt(v, l + 1)
    <3>5. i \in Index
      BY <3>1, VirtFacts
    <3> HIDE DEF t, u, i
    <3>6. t[l] = (IF t[l + 1] # NULL /\ Present(T[t[l + 1]][i]) THEN T[t[l + 1]][i][1] ELSE NULL)
      BY <3>2 DEF Down, i
    <3>7. u[l] = (IF u[l + 1] # NULL /\ Present(U[u[l + 1]][i]) THEN U[u[l + 1]][i][1] ELSE NULL)
      BY <3>2 DEF Down, i
    <3>8. u[l] = t[l] \/ (t[l] = NULL /\ u[l] = n)
      <4>1. CASE t[l + 1] = NULL /\ u[l + 1] = n
        BY <1>5, <3>5, <3>6, <3>7, <4>1
      <4>2. CASE u[l + 1] = t[l + 1] /\ t[l + 1] = NULL
        BY <3>6, <3>7, <4>2
      <4>3. CASE u[l + 1] = t[l + 1] /\ t[l + 1] # NULL /\ t[l + 1] = p /\ i = k
        BY <1>6, <3>6, <3>7, <4>3
      <4>4. CASE u[l + 1] = t[l + 1] /\ t[l + 1] # NULL /\ (t[l + 1] # p \/ i # k)
        BY <1>7, <3>4, <3>5, <3>6, <3>7, <4>4
      <4>5. QED
        BY <3>3, <4>1, <4>2, <4>3, <4>4
    <3>9. QED
      BY <3>1, <3>8
  <2>4. \A l \in 1 .. Levels : l \in S
    <3> HIDE DEF S
    <3>1. QED
      BY <1>1, <2>2, <2>3, Downwards
  <2>5. \A l \in 1 .. Levels : t[l] # NULL => u[l] = t[l]
    BY <2>4
  <2>6. TranslateIn(U, r, v) = TranslateIn(T, r, v)
    <3> DEFINE i == IndexAt(v, 1)
    <3>1. i \in Index
      BY <1>1, VirtFacts
    <3>2. TranslateIn(T, r, v) = (IF t[1] = NULL THEN NotPresent ELSE T[t[1]][i])
      BY DEF TranslateIn
    <3>3. TranslateIn(U, r, v) = (IF u[1] = NULL THEN NotPresent ELSE U[u[1]][i])
      BY DEF TranslateIn
    <3>4. u[1] = t[1] \/ (t[1] = NULL /\ u[1] = n)
      BY <1>1, <2>4
    <3>5. t[1] # NULL => t[1] \in O /\ lev[t[1]] = 1
      BY <1>1, <2>1
    <3> HIDE DEF t, u, i
    <3>6. t[1] # NULL => t[1] # p
      BY <3>5
    <3>7. t[1] # NULL => U[t[1]][i] = T[t[1]][i]
      BY <1>7, <3>1, <3>5, <3>6
    <3>8. QED
      BY <1>5, <3>1, <3>2, <3>3, <3>4, <3>7
  <2>7. QED
    BY <2>5, <2>6
<1>11. Keeps(T, U, r)
  BY <1>10 DEF Keeps
<1>12. QED
  BY <1>9, <1>11

(* Without a root a walk finds no table.                                   *)
LEMMA NullWalk ==
  ASSUME NEW T, NEW v
  PROVE  \A l \in 1 .. Levels : WalkIn(T, NULL, v)[l] = NULL
<1> DEFINE t == WalkIn(T, NULL, v)
<1> DEFINE S == {l \in 1 .. Levels : t[l] = NULL}
<1>1. Levels \in Nat \ {0}
  BY ShapeAssumption
<1>2. Levels \in S
  BY <1>1, WalkSteps
<1>3. ASSUME NEW l \in 1 .. (Levels - 1), l + 1 \in S PROVE l \in S
  <2>1. l \in 1 .. Levels /\ t[l] = Down(T, t[l + 1], v, l + 1) /\ t[l + 1] = NULL
    BY <1>1, <1>3, WalkSteps
  <2>2. t[l] = NULL
    BY <2>1 DEF Down
  <2>3. QED
    BY <2>1, <2>2
<1>4. \A l \in 1 .. Levels : l \in S
  <2> HIDE DEF S
  <2>1. QED
    BY <1>1, <1>2, <1>3, Downwards
<1>5. QED
  BY <1>4

(* No root, or a cleared one (memory.c:151-152), translates nothing.       *)
LEMMA EmptyWalk ==
  ASSUME NEW T, NEW n, n = NULL \/ T[n] = Cleared, NEW v \in Virt
  PROVE  TranslateIn(T, n, v) = NotPresent
<1> DEFINE t == WalkIn(T, n, v)
<1> DEFINE S == {l \in 1 .. Levels : t[l] \in {n, NULL}}
<1>1. Levels \in Nat \ {0} /\ 1 \in 1 .. Levels
  BY ShapeAssumption
<1>2. \A i \in Index : n # NULL => T[n][i] = NotPresent /\ ~Present(T[n][i])
  BY DEF Cleared, Present
<1>3. Levels \in S
  BY <1>1, WalkSteps
<1>4. ASSUME NEW l \in 1 .. (Levels - 1), l + 1 \in S PROVE l \in S
  <2>1. l + 1 \in 1 .. Levels /\ l \in 1 .. Levels
    BY <1>1
  <2>2. t[l] = Down(T, t[l + 1], v, l + 1)
    BY WalkSteps
  <2>3. IndexAt(v, l + 1) \in Index
    BY <2>1, VirtFacts
  <2>4. t[l + 1] \in {n, NULL}
    BY <1>4
  <2>5. t[l] = NULL
    <3> HIDE DEF t
    <3>1. QED
      BY <1>2, <2>2, <2>3, <2>4 DEF Down
  <2>6. QED
    BY <2>1, <2>5
<1>5. \A l \in 1 .. Levels : l \in S
  <2> HIDE DEF S
  <2>1. QED
    BY <1>1, <1>3, <1>4, Downwards
<1>6. t[1] \in {n, NULL}
  BY <1>1, <1>5
<1>7. IndexAt(v, 1) \in Index
  BY <1>1, VirtFacts
<1>8. TranslateIn(T, n, v) = (IF t[1] = NULL THEN NotPresent ELSE T[t[1]][IndexAt(v, 1)])
  BY DEF TranslateIn
<1> HIDE DEF t
<1>9. QED
  BY <1>2, <1>6, <1>7, <1>8

(* A cleared root alone is a tree (memory.c:149-152).                      *)
LEMMA TreeRoot ==
  ASSUME NEW T, NEW n, n # NULL, T[n] = Cleared
  PROVE  \E lev : Tree(T, {n}, n, lev)
<1> DEFINE lev == [t \in {n} |-> Levels]
<1>1. Levels \in Nat \ {0}
  BY ShapeAssumption
<1>2. \A i \in Index : ~Leads(T, n, i, lev)
  BY DEF Cleared, Present, Leads
<1>3. lev \in [{n} -> 1 .. Levels] /\ lev[n] = Levels
  BY <1>1
<1> HIDE DEF lev
<1>4. Tree(T, {n}, n, lev)
  BY <1>2, <1>3 DEF Tree, Descends, LinkedOnce, Linked
<1>5. QED
  BY <1>4

-----------------------------------------------------------------------------
(* The tables that entries of the tables ts lead to; and the tables        *)
(* reached down to level k.                                                *)
Targets(ts) == {tables[x[1]][x[2]][1] : x \in LinksFrom(ts)}

IsReached(k, f) ==
  f = [l \in k .. Levels |-> IF l = Levels THEN {root} \ {NULL} ELSE Targets(f[l + 1])]

(* The recursive definition of Reached has a solution.                     *)
LEMMA ReachedExists == \E f : IsReached(1, f)
<1> DEFINE S == {k \in 1 .. Levels : \E f : IsReached(k, f)}
<1>1. Levels \in Nat \ {0}
  BY ShapeAssumption
<1>2. Levels \in S
  <2> DEFINE f == [l \in Levels .. Levels |-> {root} \ {NULL}]
  <2>1. IsReached(Levels, f)
    BY <1>1 DEF IsReached
  <2>2. Levels \in 1 .. Levels
    BY <1>1
  <2> HIDE DEF f
  <2>3. QED
    BY <2>1, <2>2
<1>3. ASSUME NEW k \in 1 .. (Levels - 1), k + 1 \in S PROVE k \in S
  <2>1. k \in 1 .. Levels /\ k # Levels /\ k + 1 \in 1 .. Levels
    BY <1>1
  <2>2. PICK f : IsReached(k + 1, f)
    BY <1>3
  <2> DEFINE g == [l \in k .. Levels |-> IF l = k THEN Targets(f[k + 1]) ELSE f[l]]
  <2>3. ASSUME NEW l \in k .. Levels
        PROVE  g[l] = IF l = Levels THEN {root} \ {NULL} ELSE Targets(g[l + 1])
    <3>1. CASE l = k
      <4>1. g[l] = Targets(f[l + 1]) /\ g[l + 1] = f[l + 1]
        BY <2>1, <3>1
      <4>2. QED
        BY <2>1, <3>1, <4>1
    <3>2. CASE l # k
      <4>1. l \in (k + 1) .. Levels /\ g[l] = f[l]
        BY <2>1, <3>2
      <4>2. f[l] = IF l = Levels THEN {root} \ {NULL} ELSE Targets(f[l + 1])
        BY <2>2, <4>1 DEF IsReached
      <4>3. l # Levels => g[l + 1] = f[l + 1]
        BY <1>1, <2>1, <4>1
      <4>4. QED
        BY <4>1, <4>2, <4>3
    <3>3. QED
      BY <3>1, <3>2
  <2>4. IsReached(k, g)
    BY <2>3 DEF IsReached
  <2> HIDE DEF g
  <2>5. QED
    BY <2>1, <2>4
<1>4. \A k \in 1 .. Levels : k \in S
  <2> HIDE DEF S
  <2>1. QED
    BY <1>1, <1>2, <1>3, Downwards
<1>5. 1 \in S
  BY <1>1, <1>4
<1>6. QED
  BY <1>5

(* The tables reached at a level are the targets of the links of the level *)
(* above.                                                                  *)
LEMMA ReachedSteps ==
  /\ Reached[Levels] = {root} \ {NULL}
  /\ \A l \in 1 .. (Levels - 1) : Reached[l] = Targets(Reached[l + 1])
<1>1. Reached = CHOOSE f : IsReached(1, f)
  BY DEF Reached, IsReached, Targets
<1>2. IsReached(1, Reached)
  BY <1>1, ReachedExists, Zenon
<1>3. Levels \in Nat \ {0}
  BY ShapeAssumption
<1>4. Reached[Levels] = {root} \ {NULL}
  BY <1>2, <1>3 DEF IsReached
<1>5. ASSUME NEW l \in 1 .. (Levels - 1) PROVE Reached[l] = Targets(Reached[l + 1])
  <2>1. l \in 1 .. Levels /\ l # Levels
    BY <1>3
  <2>2. \A k \in 1 .. Levels :
          Reached[k] = IF k = Levels THEN {root} \ {NULL} ELSE Targets(Reached[k + 1])
    BY <1>2 DEF IsReached
  <2>3. QED
    BY <2>1, <2>2
<1>6. QED
  BY <1>4, <1>5

(* In a tree the tables reached at a level are the ones of that level.     *)
LEMMA ReachedByLevel ==
  ASSUME NEW lev, Tree(tables, owned, root, lev)
  PROVE  \A l \in 1 .. Levels : Reached[l] = {t \in owned : lev[t] = l}
<1> DEFINE S == {l \in 1 .. Levels : Reached[l] = {t \in owned : lev[t] = l}}
<1>1. Levels \in Nat \ {0}
  BY ShapeAssumption
<1>2. /\ lev \in [owned -> 1 .. Levels] /\ root \in owned /\ NULL \notin owned
      /\ lev[root] = Levels
  BY DEF Tree
<1>3. ASSUME NEW t \in owned, t # root
      PROVE  \E u \in owned, i \in Index :
               Leads(tables, u, i, lev) /\ tables[u][i][1] = t /\ lev[t] = lev[u] - 1
  BY <1>3 DEF Tree, Linked, Descends
<1>4. Levels \in S
  <2>1. ASSUME NEW t \in owned, lev[t] = Levels PROVE t = root
    <3>1. SUFFICES ASSUME t # root PROVE FALSE
      OBVIOUS
    <3>2. PICK u \in owned, i \in Index : lev[t] = lev[u] - 1
      BY <1>3, <3>1
    <3>3. lev[u] \in 1 .. Levels
      BY <1>2
    <3>4. QED
      BY <1>1, <2>1, <3>2, <3>3
  <2>2. Reached[Levels] = {root}
    BY <1>2, ReachedSteps
  <2>3. QED
    BY <1>1, <1>2, <2>1, <2>2
<1>5. ASSUME NEW l \in 1 .. (Levels - 1), l + 1 \in S PROVE l \in S
  <2>1. l \in 1 .. Levels /\ l + 1 > 1 /\ l # Levels /\ (l + 1) - 1 = l
    BY <1>1
  <2>2. Reached[l + 1] = {t \in owned : lev[t] = l + 1}
    BY <1>5
  <2>3. Reached[l] = Targets(Reached[l + 1])
    BY ReachedSteps
  <2>4. ASSUME NEW t \in Reached[l] PROVE t \in owned /\ lev[t] = l
    <3>1. PICK x \in Reached[l + 1] \X Index :
            Present(tables[x[1]][x[2]]) /\ t = tables[x[1]][x[2]][1]
      BY <2>3 DEF Targets, LinksFrom
    <3>2. x[1] \in owned /\ lev[x[1]] = l + 1 /\ x[2] \in Index
      BY <2>2, <3>1
    <3>3. Leads(tables, x[1], x[2], lev)
      BY <2>1, <3>1, <3>2 DEF Leads
    <3>4. t \in owned /\ lev[t] = lev[x[1]] - 1
      BY <3>1, <3>2, <3>3 DEF Tree, Descends
    <3>5. QED
      BY <2>1, <3>2, <3>4
  <2>5. ASSUME NEW t \in owned, lev[t] = l PROVE t \in Reached[l]
    <3>1. t # root
      BY <1>2, <2>1, <2>5
    <3>2. PICK u \in owned, i \in Index :
            Leads(tables, u, i, lev) /\ tables[u][i][1] = t /\ lev[t] = lev[u] - 1
      BY <1>3, <3>1
    <3>3. lev[u] \in 1 .. Levels
      BY <1>2
    <3>4. lev[u] = l + 1
      BY <2>1, <2>5, <3>2, <3>3
    <3>5. <<u, i>> \in Reached[l + 1] \X Index
      BY <2>2, <3>4
    <3>6. <<u, i>> \in LinksFrom(Reached[l + 1])
      BY <3>2, <3>5 DEF LinksFrom, Leads
    <3>7. tables[<<u, i>>[1]][<<u, i>>[2]][1] = t
      BY <3>2
    <3>8. QED
      BY <2>3, <3>6, <3>7 DEF Targets
  <2>6. QED
    BY <2>1, <2>4, <2>5
<1>6. \A l \in 1 .. Levels : l \in S
  <2> HIDE DEF S
  <2>1. QED
    BY <1>1, <1>4, <1>5, Downwards
<1>7. QED
  BY <1>6

(* A tree reaches each of its tables, and has one link less than tables:   *)
(* every table but the root is the target of exactly one link.             *)
LEMMA TreeCounts ==
  ASSUME NEW lev, Tree(tables, owned, root, lev), IsFiniteSet(owned)
  PROVE  /\ UNION {Reached[l] : l \in 1 .. Levels} = owned
         /\ Cardinality(owned) = Cardinality(Links) + 1
<1>1. Levels \in Nat \ {0}
  BY ShapeAssumption
<1>2. \A l \in 1 .. Levels : Reached[l] = {t \in owned : lev[t] = l}
  BY ReachedByLevel
<1>3. /\ lev \in [owned -> 1 .. Levels] /\ root \in owned /\ NULL \notin owned
      /\ lev[root] = Levels
  BY DEF Tree
<1>4. UNION {Reached[l] : l \in 1 .. Levels} = owned
  BY <1>2, <1>3
<1>5. UNION {Reached[l] : l \in 2 .. Levels} = {t \in owned : lev[t] > 1}
  <2>1. \A l \in 2 .. Levels : l \in 1 .. Levels /\ l > 1
    BY <1>1
  <2>2. \A t \in owned : lev[t] > 1 => lev[t] \in 2 .. Levels
    BY <1>1, <1>3
  <2>3. QED
    BY <1>2, <2>1, <2>2
<1>6. \A x : x \in Links <=>
              \E u \in owned, i \in Index : x = <<u, i>> /\ Leads(tables, u, i, lev)
  BY <1>5 DEF Links, LinksFrom, Leads
<1> DEFINE Parent(t) == CHOOSE x \in Links : tables[x[1]][x[2]][1] = t
<1> DEFINE f == [t \in owned \ {root} |-> Parent(t)]
<1>7. ASSUME NEW t \in owned \ {root}
      PROVE  Parent(t) \in Links /\ tables[Parent(t)[1]][Parent(t)[2]][1] = t
  <2>1. PICK u \in owned, i \in Index : Leads(tables, u, i, lev) /\ tables[u][i][1] = t
    BY DEF Tree, Linked
  <2>2. <<u, i>> \in Links /\ tables[<<u, i>>[1]][<<u, i>>[2]][1] = t
    BY <1>6, <2>1
  <2>3. QED
    BY <2>2
<1>8. ASSUME NEW x \in Links
      PROVE  /\ tables[x[1]][x[2]][1] \in owned \ {root}
             /\ \A y \in Links : tables[y[1]][y[2]][1] = tables[x[1]][x[2]][1] => y = x
  <2>1. PICK u \in owned, i \in Index : x = <<u, i>> /\ Leads(tables, u, i, lev)
    BY <1>6
  <2>2. tables[u][i][1] \in owned /\ lev[tables[u][i][1]] = lev[u] - 1
    BY <2>1 DEF Tree, Descends
  <2>3. lev[u] \in 1 .. Levels
    BY <1>3
  <2>4. tables[u][i][1] # root
    BY <1>1, <1>3, <2>2, <2>3
  <2>5. ASSUME NEW y \in Links, tables[y[1]][y[2]][1] = tables[x[1]][x[2]][1] PROVE y = x
    <3>1. PICK w \in owned, j \in Index : y = <<w, j>> /\ Leads(tables, w, j, lev)
      BY <1>6
    <3>2. w = u /\ j = i
      BY <2>1, <2>5, <3>1 DEF Tree, LinkedOnce
    <3>3. QED
      BY <2>1, <3>1, <3>2
  <2>6. QED
    BY <2>1, <2>2, <2>4, <2>5
<1>9. ExistsBijection(owned \ {root}, Links)
  <2> HIDE DEF Parent
  <2>1. f \in [owned \ {root} -> Links]
    BY <1>7
  <2>2. ASSUME NEW a \in owned \ {root}, NEW b \in owned \ {root}, f[a] = f[b] PROVE a = b
    BY <1>7, <2>2
  <2>3. ASSUME NEW x \in Links PROVE \E t \in owned \ {root} : f[t] = x
    <3>1. PICK t \in owned \ {root} : t = tables[x[1]][x[2]][1]
      BY <1>8
    <3>2. Parent(t) \in Links /\ tables[Parent(t)[1]][Parent(t)[2]][1] = tables[x[1]][x[2]][1]
      BY <1>7, <3>1
    <3>3. f[t] = x
      BY <1>8, <3>2
    <3>4. QED
      BY <3>3
  <2> HIDE DEF f
  <2>4. f \in Bijection(owned \ {root}, Links)
    BY <2>1, <2>2, <2>3, Fun_IsBij
  <2>5. QED
    BY <2>4 DEF ExistsBijection
<1>10. IsFiniteSet(owned \ {root}) /\ Cardinality(owned \ {root}) = Cardinality(owned) - 1
  BY <1>3, FS_RemoveElement
<1>11. Cardinality(Links) = Cardinality(owned \ {root})
  BY <1>9, <1>10, FS_Bijection
<1>12. Cardinality(owned) \in Nat
  BY FS_CardinalityType
<1>13. QED
  BY <1>4, <1>10, <1>11, <1>12

-----------------------------------------------------------------------------
(* The pages not in use, the rights and the pages of each loop.            *)
FreePages == (1 .. (total_pages - 1)) \ bitmap

UserOf(s) == IF s = Booted THEN TRUE ELSE Mappings[s].user

StagePages(s) == IF s = Booted THEN MmioPages ELSE IF s = 0 THEN {} ELSE Mappings[s].pages

(* What firmware reserved stays reserved, so a table lies in memory that   *)
(* the map lists.                                                          *)
FirmwareKept == memory_map \in Maps /\ InitBitmap(memory_map) \subseteq reserved

(* Types, and what the loops have still to map is theirs.                  *)
TablesTyped ==
  /\ tables \in [Page -> [Index -> Entry]]
  /\ root \in Page
  /\ stage \in 0 .. Booted
  /\ todo \subseteq StagePages(stage)
  /\ walk \in [virt : Virt, entry : Entry, table : Page, level : 0 .. Levels]
  /\ owned \subseteq Page
  /\ exhausted \in BOOLEAN

(* Once there is a root the pages taken for tables form a tree below it.   *)
Rooted ==
  /\ root # NULL => \E lev : Tree(tables, owned, root, lev)
  /\ root = NULL => owned = {} /\ (stage = 0 \/ exhausted)
  /\ stage = 0 => root = NULL /\ ~exhausted /\ Idle /\ todo = {}

(* Where a PageTable_Map stands (memory.c:114-118).  It maps a page of the *)
(* current loop with the loop's rights, and it is on the table that a walk *)
(* for its page finds at its level; or it is on page 0, because no page    *)
(* was free.                                                               *)
OnPath ==
  /\ ~exhausted => tables[NULL] = Cleared
  /\ ~Idle =>
       /\ walk.level # 0
       /\ walk.virt \in StagePages(stage)
       /\ walk.entry = <<walk.virt, UserOf(stage)>>
       /\ IF exhausted
            THEN walk.table = NULL /\ tables[NULL] = Cleared /\ FreePages = {}
            ELSE walk.table # NULL /\ WalkIn(tables, root, walk.virt)[walk.level] = walk.table

(* A cached translation is the one the tables give, in the terms of        *)
(* TranslateIn.                                                            *)
Coherent ==
  tlb # <<>> => /\ stage = Booted
                /\ tlb \in Virt \X (Virt \X BOOLEAN)
                /\ TranslateIn(tables, root, tlb[1]) = tlb[2]

(* Loop s is done with v: from then on v is translated for the supervisor  *)
(* only. For the interrupt controllers s is 3 and 4; the loops after that, *)
(* and those of Memory_MapMMIO, map other pages.                           *)
Settled(v, s) ==
  \/ stage > s
  \/ stage = s /\ ~exhausted /\ v \notin todo /\ (Idle \/ walk.virt # v)

Supervisor(e) == Present(e) => ~e[2]

Supervised(pages, s) ==
  \A v \in pages : Settled(v, s) => Supervisor(TranslateIn(tables, root, v))

TInv ==
  /\ FirmwareKept
  /\ TablesTyped
  /\ Rooted
  /\ OnPath
  /\ Coherent
  /\ Supervised(LapicPages, 3)
  /\ Supervised(IoapicPages, 4)

(* The inductive invariant: the one of the allocator, that tables are      *)
(* held, and the one of the page tables.                                   *)
TablesInv == Inv /\ TablesHeld /\ TInv

-----------------------------------------------------------------------------
(* The loops of PageTable_Init, one by one (memory.c:154-202), and the     *)
(* mappings after boot.                                                    *)
LEMMA StageTable ==
  /\ StagePages(0) = {} /\ StagePages(1) = RegionPages /\ StagePages(2) = Framebuffer
  /\ StagePages(3) = LapicPages /\ StagePages(4) = IoapicPages
  /\ StagePages(5) = StackPages /\ StagePages(6) = MmioPages
  /\ ~UserOf(3) /\ ~UserOf(4)
  /\ \A s \in 1 .. 6 : UserOf(s) \in BOOLEAN
  /\ \A s \in 1 .. 5 : StagePages(s) = Mappings[s].pages /\ UserOf(s) = Mappings[s].user
<1>1. /\ Mappings[1] = [pages |-> RegionPages, user |-> TRUE]
      /\ Mappings[2] = [pages |-> Framebuffer, user |-> TRUE]
      /\ Mappings[3] = [pages |-> LapicPages, user |-> FALSE]
      /\ Mappings[4] = [pages |-> IoapicPages, user |-> FALSE]
      /\ Mappings[5] = [pages |-> StackPages, user |-> TRUE]
  BY DEF Mappings
<1>2. \A s \in 1 .. 6 : s \in {1, 2, 3, 4, 5, 6}
  OBVIOUS
<1>3. \A s \in 1 .. 5 : StagePages(s) = Mappings[s].pages /\ UserOf(s) = Mappings[s].user
  <2>1. \A s \in 1 .. 5 : s # Booted /\ s # 0
    BY DEF Booted
  <2>2. \A s \in 1 .. 5 : StagePages(s) = Mappings[s].pages
    BY <2>1 DEF StagePages
  <2>3. \A s \in 1 .. 5 : UserOf(s) = Mappings[s].user
    BY <2>1, Zenon DEF UserOf
  <2>4. QED
    BY <2>2, <2>3, Zenon
<1>4. /\ Mappings[1].pages = RegionPages /\ Mappings[2].pages = Framebuffer
      /\ Mappings[3].pages = LapicPages /\ Mappings[4].pages = IoapicPages
      /\ Mappings[5].pages = StackPages
      /\ Mappings[1].user = TRUE /\ Mappings[2].user = TRUE
      /\ Mappings[3].user = FALSE /\ Mappings[4].user = FALSE
      /\ Mappings[5].user = TRUE
  BY <1>1
<1>5. StagePages(0) = {} /\ StagePages(6) = MmioPages /\ UserOf(6) = TRUE
  BY DEF StagePages, UserOf, Booted
<1>6. /\ UserOf(1) = TRUE /\ UserOf(2) = TRUE /\ UserOf(3) = FALSE
      /\ UserOf(4) = FALSE /\ UserOf(5) = TRUE
  BY <1>4 DEF UserOf, Booted
<1>7. \A s \in 1 .. 6 : UserOf(s) \in BOOLEAN
  BY <1>2, <1>5, <1>6, Zenon
<1>8. /\ StagePages(1) = RegionPages /\ StagePages(2) = Framebuffer
      /\ StagePages(3) = LapicPages /\ StagePages(4) = IoapicPages
      /\ StagePages(5) = StackPages
  BY <1>4 DEF StagePages, Booted
<1>9. QED
  BY <1>3, <1>5, <1>6, <1>7, <1>8, Zenon

(* Every loop stays among the pages that have a translation.               *)
LEMMA StagePagesVirt ==
  ASSUME memory_map \in Maps, NEW s \in 0 .. Booted
  PROVE  StagePages(s) \subseteq Virt
<1>1. s \in {0, 1, 2, 3, 4, 5, 6}
  BY DEF Booted
<1>2. RegionPages \subseteq Virt
  BY LayoutAssumption DEF RegionPages
<1>3. QED
  BY <1>1, <1>2, StageTable, LayoutAssumption

(* The memory map is not written, so neither are the loops.                *)
LEMMA StagesFixed ==
  ASSUME memory_map' = memory_map
  PROVE  \A s : StagePages(s)' = StagePages(s) /\ UserOf(s)' = UserOf(s)
BY DEF StagePages, UserOf, Mappings, RegionPages

(* What PageAllocator_Alloc(1) gives to GetOrCreateTable (memory.c:92): a  *)
(* page that is free, no table and in memory the firmware listed; or NULL, *)
(* and then no page is free.                                               *)
LEMMA AllocForTable ==
  ASSUME Inv, TablesHeld, FirmwareKept, PageAllocator_Alloc(1)
  PROVE  /\ ret' \in Page /\ total_pages' = total_pages /\ reserved' = reserved
         /\ ret' = NULL => FreePages = {} /\ FreePages' = FreePages
         /\ ret' # NULL => ret' \in FreePages /\ ret' \notin owned /\ ret' \in Virt
<1>1. PICK p \in Page :
        /\ AllocReturns(bitmap, total_pages, 1, p)
        /\ ret' = p
        /\ IF p = NULL
             THEN UNCHANGED <<bitmap, blocks>>
             ELSE /\ bitmap' = AllocMarks(bitmap, p, 1)
                  /\ blocks' = blocks \cup {<<p, 1>>}
        /\ UNCHANGED <<total_pages, reserved>>
  BY DEF PageAllocator_Alloc
<1>2. total_pages \in 0 .. (MAX_PAGES - 1) /\ bitmap \subseteq Page
  BY DEF Inv, TypeOK
<1>3. CASE p = NULL
  <2>1. 1 > total_pages \/ Candidates(bitmap, total_pages, 1) = {}
    BY <1>1, <1>2, <1>3, AllocRefuses
  <2>2. FreePages = {}
    <3>1. \A q \in 1 .. (total_pages - 1) : Run(q, 1) = {q}
      BY <1>2 DEF Run
    <3>2. \A q \in 1 .. (total_pages - 1) : q \notin bitmap => q \in Candidates(bitmap, total_pages, 1)
      BY <3>1 DEF Candidates
    <3>3. 1 > total_pages => 1 .. (total_pages - 1) = {}
      BY <1>2
    <3>4. QED
      BY <2>1, <3>2, <3>3 DEF FreePages
  <2>3. QED
    BY <1>1, <1>3, <2>2 DEF FreePages
<1>4. CASE p # NULL
  <2>1. Run(p, 1) \subseteq 1 .. (total_pages - 1) /\ Run(p, 1) \cap bitmap = {}
    BY <1>1, <1>2, <1>4, AllocGrants
  <2>2. p \in Run(p, 1)
    BY <1>1, <1>2, <1>4, GrantedPages
  <2>3. p \in FreePages /\ p \notin bitmap
    BY <2>1, <2>2 DEF FreePages
  <2>4. p \notin owned
    <3>1. SUFFICES ASSUME p \in owned PROVE p \in bitmap
      BY <2>3
    <3>2. <<p, 1>> \in blocks
      BY <3>1 DEF TablesHeld
    <3>3. PagesOf(<<p, 1>>) = Run(p, 1)
      BY DEF PagesOf
    <3>4. QED
      BY <2>2, <3>2, <3>3 DEF Inv, BitmapExact
  <2>5. p \in Virt
    <3>1. p \notin InitBitmap(memory_map)
      BY <2>3 DEF FirmwareKept, Inv, BitmapExact
    <3>2. PICK d \in memory_map : p \in Run(d.start, d.pages)
      BY <3>1 DEF InitBitmap
    <3>3. QED
      BY <3>2, LayoutAssumption DEF FirmwareKept
  <2>6. QED
    BY <1>1, <1>4, <2>3, <2>4, <2>5
<1>5. QED
  BY <1>3, <1>4

-----------------------------------------------------------------------------
(* What the entries of a table are.                                        *)
LEMMA EntryFacts ==
  /\ NotPresent \in Entry /\ ~Present(NotPresent)
  /\ Cleared \in [Index -> Entry] /\ Junk \in [Index -> Entry]
  /\ \A v \in Virt, u \in BOOLEAN : <<v, u>> \in Entry /\ Present(<<v, u>>)
  /\ \A e \in Entry : Present(e) => e \in Virt \X BOOLEAN
<1>1. 1 \in Virt
  BY VirtFacts
<1>2. NotPresent \in Entry /\ ~Present(NotPresent)
  BY DEF Entry, Present
<1>3. \A v \in Virt, u \in BOOLEAN : <<v, u>> \in Entry /\ Present(<<v, u>>)
  BY DEF Entry, Present, NotPresent
<1>4. Cleared \in [Index -> Entry]
  BY <1>2 DEF Cleared
<1>5. <<1, FALSE>> \in Entry
  BY <1>1, <1>3
<1>6. Junk \in [Index -> Entry]
  BY <1>5 DEF Junk
<1>7. \A e \in Entry : Present(e) => e \in Virt \X BOOLEAN
  BY DEF Entry, Present
<1>8. QED
  BY <1>2, <1>3, <1>4, <1>6, <1>7

(* Page 0 is a page like any other to the hardware.                        *)
LEMMA NullPage == NULL \in Page /\ 0 \in Virt
BY MaxPagesAssumption, VirtFacts DEF NULL, Page

(* The invariant holds when the kernel starts, before PageTable_Init       *)
(* (main.c:147).                                                           *)
LEMMA InitTables == TablesInit => TInv
<1> SUFFICES ASSUME TablesInit PROVE TInv
  OBVIOUS
<1>1. FirmwareKept
  <2>1. InitBitmap(memory_map) \subseteq bitmap
    BY DEF TablesInit, BootBitmap, MarkUsed
  <2>2. QED
    BY <2>1 DEF TablesInit, Init, FirmwareKept
<1>2. stage = 0 /\ root = NULL /\ walk = NoWalk /\ Idle /\ ~exhausted /\ todo = {} /\ tlb = <<>>
      /\ owned = {} /\ exhausted = FALSE
  BY DEF TablesInit, Idle
<1>3. TablesTyped
  <2>1. tables \in [Page -> [Index -> Entry]]
    BY EntryFacts DEF TablesInit
  <2>2. NoWalk \in [virt : Virt, entry : Entry, table : Page, level : 0 .. Levels]
    BY EntryFacts, NullPage, ShapeAssumption DEF NoWalk
  <2>3. walk \in [virt : Virt, entry : Entry, table : Page, level : 0 .. Levels]
    BY <1>2, <2>2
  <2>4. root \in Page /\ stage \in 0 .. Booted /\ todo \subseteq StagePages(stage) /\ owned \subseteq Page
    BY <1>2, NullPage DEF Booted
  <2>5. exhausted \in BOOLEAN
    BY <1>2
  <2>6. QED
    BY <2>1, <2>3, <2>4, <2>5 DEF TablesTyped
<1>4. Rooted
  BY <1>2 DEF Rooted
<1>5. OnPath
  <2>1. tables[NULL] = Cleared
    BY NullPage DEF TablesInit
  <2>2. QED
    BY <1>2, <2>1 DEF OnPath
<1>6. Coherent
  BY <1>2 DEF Coherent
<1>7. Supervised(LapicPages, 3) /\ Supervised(IoapicPages, 4)
  BY <1>2 DEF Supervised, Settled
<1>8. QED
  BY <1>1, <1>3, <1>4, <1>5, <1>6, <1>7 DEF TInv

-----------------------------------------------------------------------------
(* No page is translated differently; the request being served; and a step *)
(* that the address space does not notice.                                 *)
SameSpace == \A v \in Virt : TranslateIn(tables', root', v) = TranslateIn(tables, root, v)

Asked == IF Idle THEN <<>> ELSE <<walk.virt, walk.entry>>

Unnoticed == SameSpace /\ Asked' = Asked

(* A step that changes no translation keeps what is cached coherent and    *)
(* the interrupt controllers from user code.                               *)
LEMMA SpaceKept ==
  ASSUME TInv, SameSpace, tlb' = tlb, stage = Booted => stage' = Booted,
         \A v \in LapicPages : Settled(v, 3)' => Settled(v, 3),
         \A v \in IoapicPages : Settled(v, 4)' => Settled(v, 4)
  PROVE  Coherent' /\ Supervised(LapicPages, 3)' /\ Supervised(IoapicPages, 4)'
<1>1. Coherent'
  <2>1. SUFFICES ASSUME tlb # <<>>
                 PROVE  /\ stage' = Booted
                        /\ tlb \in Virt \X (Virt \X BOOLEAN)
                        /\ TranslateIn(tables', root', tlb[1]) = tlb[2]
    BY DEF Coherent
  <2>2. /\ stage = Booted
        /\ tlb \in Virt \X (Virt \X BOOLEAN)
        /\ TranslateIn(tables, root, tlb[1]) = tlb[2]
    BY <2>1 DEF TInv, Coherent
  <2>3. tlb[1] \in Virt
    BY <2>2
  <2>4. QED
    BY <2>2, <2>3 DEF SameSpace
<1>2. LapicPages \subseteq Virt /\ IoapicPages \subseteq Virt
  BY LayoutAssumption
<1>3. Supervised(LapicPages, 3)'
  <2>1. ASSUME NEW v \in LapicPages, Settled(v, 3)' PROVE Supervisor(TranslateIn(tables', root', v))
    BY <1>2, <2>1 DEF TInv, Supervised, SameSpace
  <2>2. QED
    BY <2>1 DEF Supervised
<1>4. Supervised(IoapicPages, 4)'
  <2>1. ASSUME NEW v \in IoapicPages, Settled(v, 4)' PROVE Supervisor(TranslateIn(tables', root', v))
    BY <1>2, <2>1 DEF TInv, Supervised, SameSpace
  <2>2. QED
    BY <2>1 DEF Supervised
<1>5. QED
  BY <1>1, <1>3, <1>4

(* A step of another caller of the allocator leaves the tables alone       *)
(* (memory.c:52-85).                                                       *)
LEMMA CallerStep ==
  ASSUME TInv, UNCHANGED tableVars, reserved' = reserved, Idle \/ FreePages' = FreePages
  PROVE  TInv' /\ Unnoticed
<1> USE DEF tableVars
<1>1. FirmwareKept'
  BY DEF TInv, FirmwareKept
<1>2. \A s : StagePages(s)' = StagePages(s) /\ UserOf(s)' = UserOf(s)
  BY StagesFixed
<1>3. TablesTyped'
  BY <1>2 DEF TInv, TablesTyped
<1>4. Rooted'
  BY DEF TInv, Rooted, Idle
<1>5. OnPath'
  BY <1>2 DEF TInv, OnPath, Idle
<1>6. SameSpace
  BY DEF SameSpace
<1>7. Coherent' /\ Supervised(LapicPages, 3)' /\ Supervised(IoapicPages, 4)'
  BY <1>6, SpaceKept DEF Settled, Idle
<1>8. Asked' = Asked
  BY DEF Asked, Idle
<1>9. QED
  BY <1>1, <1>3, <1>4, <1>5, <1>6, <1>7, <1>8 DEF TInv, Unnoticed

(* PageTable_Map begins (memory.c:107): a request is made and no           *)
(* translation changes.                                                    *)
LEMMA MapStep ==
  ASSUME TInv, NEW u \in BOOLEAN, stage \in 1 .. Booted, u = UserOf(stage), PageTable_Map(u)
  PROVE  /\ TInv' /\ SameSpace
         /\ Asked = <<>> /\ \E v \in Virt : Asked' = <<v, <<v, u>>>>
<1>1. PICK v \in todo :
        /\ walk' = [virt |-> v, entry |-> <<v, u>>, table |-> root, level |-> Levels]
        /\ todo' = todo \ {v}
  BY DEF PageTable_Map
<1>2. /\ Idle /\ ~exhausted
      /\ UNCHANGED <<bitmap, total_pages, reserved, memory_map, tables, root, stage, owned, exhausted, tlb>>
  BY DEF PageTable_Map, allocVars, vars
<1>3. /\ memory_map \in Maps /\ tables \in [Page -> [Index -> Entry]] /\ root \in Page
      /\ stage \in 0 .. Booted /\ todo \subseteq StagePages(stage) /\ owned \subseteq Page
      /\ exhausted \in BOOLEAN
  BY DEF TInv, FirmwareKept, TablesTyped
<1>4. v \in StagePages(stage) /\ v \in Virt
  BY <1>1, <1>3, StagePagesVirt
<1>5. Levels \in Nat \ {0} /\ stage # 0
  BY ShapeAssumption
<1>6. root # NULL
  BY <1>2, <1>5 DEF TInv, Rooted
<1>7. /\ walk'.virt = v /\ walk'.entry = <<v, u>> /\ walk'.table = root /\ walk'.level = Levels
  BY <1>1
<1>8. ~Idle'
  BY <1>5, <1>7 DEF Idle, NoWalk
<1>9. \A s : StagePages(s)' = StagePages(s) /\ UserOf(s)' = UserOf(s)
  BY <1>2, StagesFixed
<1>10. FirmwareKept'
  BY <1>2 DEF TInv, FirmwareKept
<1>11. TablesTyped'
  <2>1. <<v, u>> \in Entry
    BY <1>4, EntryFacts
  <2>2. Levels \in 0 .. Levels
    BY <1>5
  <2>3. walk' \in [virt : Virt, entry : Entry, table : Page, level : 0 .. Levels]
    BY <1>1, <1>3, <1>4, <2>1, <2>2
  <2>4. todo' \subseteq StagePages(stage)'
    BY <1>1, <1>2, <1>3, <1>9
  <2>5. QED
    BY <1>2, <1>3, <2>3, <2>4 DEF TablesTyped
<1>12. Rooted'
  BY <1>2, <1>5, <1>6 DEF TInv, Rooted
<1>13. OnPath'
  <2>1. tables[NULL] = Cleared
    BY <1>2 DEF TInv, OnPath
  <2>2. WalkIn(tables', root', v)[Levels] = root
    BY <1>2, WalkSteps
  <2>3. walk'.virt \in StagePages(stage)' /\ walk'.entry = <<walk'.virt, UserOf(stage)'>>
    BY <1>2, <1>4, <1>7, <1>9
  <2>4. QED
    BY <1>2, <1>5, <1>6, <1>7, <2>1, <2>2, <2>3 DEF OnPath
<1>14. SameSpace
  BY <1>2 DEF SameSpace
<1>15. \A w, s : Settled(w, s)' => Settled(w, s)
  BY <1>1, <1>2, <1>7, <1>8 DEF Settled
<1>16. Coherent' /\ Supervised(LapicPages, 3)' /\ Supervised(IoapicPages, 4)'
  BY <1>2, <1>14, <1>15, SpaceKept
<1>17. Asked = <<>> /\ Asked' = <<v, <<v, u>>>>
  BY <1>2, <1>7, <1>8 DEF Asked
<1>18. QED
  BY <1>4, <1>10, <1>11, <1>12, <1>13, <1>14, <1>16, <1>17 DEF TInv

(* From one loop of PageTable_Init to the next (memory.c:154-202).         *)
LEMMA LoopStep ==
  ASSUME TInv, NextLoop
  PROVE  TInv' /\ Unnoticed
<1>1. /\ stage \in 1 .. 5 /\ Idle /\ ~exhausted /\ todo = {} /\ stage' = stage + 1
      /\ todo' = IF stage + 1 = Booted THEN {} ELSE Mappings[stage + 1].pages
      /\ UNCHANGED <<bitmap, total_pages, reserved, memory_map, tables, root, walk, owned, exhausted, tlb>>
  BY DEF NextLoop, allocVars, vars, MapStages
<1>2. stage' \in 1 .. Booted /\ stage' # 0 /\ stage # 0 /\ stage # Booted
  BY <1>1 DEF Booted
<1>3. todo' \subseteq StagePages(stage)'
  <2>1. todo' \subseteq StagePages(stage + 1)
    BY <1>1, <1>2 DEF StagePages
  <2>2. QED
    BY <1>1, <2>1, StagesFixed
<1>4. FirmwareKept'
  BY <1>1 DEF TInv, FirmwareKept
<1>5. TablesTyped'
  BY <1>1, <1>2, <1>3 DEF TInv, TablesTyped
<1>6. Rooted'
  BY <1>1, <1>2 DEF TInv, Rooted
<1>7. OnPath'
  BY <1>1 DEF TInv, OnPath, Idle
<1>8. SameSpace
  BY <1>1 DEF SameSpace
<1>9. ASSUME NEW v \in LapicPages, Settled(v, 3)' PROVE Settled(v, 3)
  <2>1. CASE stage' = 3
    <3>1. todo' = LapicPages
      BY <1>1, <2>1, StageTable DEF Booted
    <3>2. QED
      BY <1>9, <2>1, <3>1 DEF Settled
  <2>2. CASE stage' > 3
    BY <1>1, <2>2 DEF Settled
  <2>3. QED
    BY <1>9, <2>1, <2>2 DEF Settled
<1>10. ASSUME NEW v \in IoapicPages, Settled(v, 4)' PROVE Settled(v, 4)
  <2>1. CASE stage' = 4
    <3>1. todo' = IoapicPages
      BY <1>1, <2>1, StageTable DEF Booted
    <3>2. QED
      BY <1>10, <2>1, <3>1 DEF Settled
  <2>2. CASE stage' > 4
    BY <1>1, <2>2 DEF Settled
  <2>3. QED
    BY <1>10, <2>1, <2>2 DEF Settled
<1>11. Coherent' /\ Supervised(LapicPages, 3)' /\ Supervised(IoapicPages, 4)'
  BY <1>1, <1>2, <1>8, <1>9, <1>10, SpaceKept
<1>12. Asked' = Asked
  BY <1>1 DEF Asked, Idle
<1>13. QED
  BY <1>4, <1>5, <1>6, <1>7, <1>8, <1>11, <1>12 DEF TInv, Unnoticed

(* Memory_MapMMIO asks for the pages of a device (memory.c:205-216).       *)
LEMMA MmioStep ==
  ASSUME TInv, Memory_MapMMIO
  PROVE  TInv' /\ Unnoticed
<1>1. /\ stage = Booted /\ Idle /\ ~exhausted /\ todo' = MmioPages
      /\ UNCHANGED <<bitmap, total_pages, reserved, memory_map, tables, root, stage, walk, owned, exhausted, tlb>>
  BY DEF Memory_MapMMIO, Quiet, allocVars, vars
<1>2. todo' \subseteq StagePages(stage)'
  BY <1>1, StagesFixed, StageTable DEF Booted
<1>3. FirmwareKept'
  BY <1>1 DEF TInv, FirmwareKept
<1>4. TablesTyped'
  BY <1>1, <1>2 DEF TInv, TablesTyped
<1>5. Rooted'
  BY <1>1 DEF TInv, Rooted, Booted
<1>6. OnPath'
  BY <1>1 DEF TInv, OnPath, Idle
<1>7. SameSpace
  BY <1>1 DEF SameSpace
<1>8. \A v : Settled(v, 3) /\ Settled(v, 4)
  BY <1>1 DEF Settled, Booted
<1>9. Coherent' /\ Supervised(LapicPages, 3)' /\ Supervised(IoapicPages, 4)'
  BY <1>1, <1>7, <1>8, SpaceKept
<1>10. Asked' = Asked
  BY <1>1 DEF Asked, Idle
<1>11. QED
  BY <1>3, <1>4, <1>5, <1>6, <1>7, <1>9, <1>10 DEF TInv, Unnoticed

(* What a walk finds is an entry.                                          *)
LEMMA TranslateTyped ==
  ASSUME TInv, NEW v \in Virt
  PROVE  TranslateIn(tables, root, v) \in Entry
<1> DEFINE leaf == WalkIn(tables, root, v)[1]
<1>1. 1 \in 1 .. Levels
  BY ShapeAssumption
<1>2. tables \in [Page -> [Index -> Entry]] /\ owned \subseteq Page
  BY DEF TInv, TablesTyped
<1>3. CASE root = NULL
  BY <1>3, EmptyWalk, EntryFacts
<1>4. CASE root # NULL
  <2>1. PICK lev : Tree(tables, owned, root, lev)
    BY <1>4 DEF TInv, Rooted
  <2>2. leaf # NULL => leaf \in owned
    BY <1>1, <2>1, TreeWalk
  <2>3. IndexAt(v, 1) \in Index
    BY <1>1, VirtFacts
  <2>4. TranslateIn(tables, root, v) = IF leaf = NULL THEN NotPresent ELSE tables[leaf][IndexAt(v, 1)]
    BY DEF TranslateIn
  <2> HIDE DEF leaf
  <2>5. leaf # NULL => tables[leaf][IndexAt(v, 1)] \in Entry
    BY <1>2, <2>2, <2>3
  <2>6. QED
    BY <2>4, <2>5, EntryFacts
<1>5. QED
  BY <1>3, <1>4

(* The CPU caches the translation of a page it uses; what it caches is     *)
(* what the tables say.                                                    *)
LEMMA AccessStep ==
  ASSUME TInv, NEW v \in Touched, Access(v)
  PROVE  TInv' /\ Unnoticed
<1>1. /\ stage = Booted /\ Present(Translate(v)) /\ tlb' = <<v, Translate(v)>>
      /\ UNCHANGED <<bitmap, total_pages, reserved, memory_map, tables, root, stage, todo, walk, owned, exhausted>>
  BY DEF Access, allocVars, vars
<1>2. \A s : StagePages(s)' = StagePages(s) /\ UserOf(s)' = UserOf(s)
  BY <1>1, StagesFixed
<1>3. FirmwareKept'
  BY <1>1 DEF TInv, FirmwareKept
<1>4. TablesTyped'
  BY <1>1, <1>2 DEF TInv, TablesTyped
<1>5. Rooted'
  BY <1>1 DEF TInv, Rooted, Idle
<1>6. OnPath'
  BY <1>1, <1>2 DEF TInv, OnPath, Idle, FreePages
<1>7. v \in Virt /\ Translate(v) = TranslateIn(tables, root, v)
  BY LayoutAssumption, TranslateNow
<1>8. TranslateIn(tables, root, v) \in Entry
  BY <1>7, TranslateTyped
<1>9. Coherent'
  <2>1. Translate(v) \in Virt \X BOOLEAN
    BY <1>1, <1>7, <1>8, EntryFacts
  <2>2. QED
    BY <1>1, <1>7, <2>1 DEF Coherent
<1>10. Supervised(LapicPages, 3)' /\ Supervised(IoapicPages, 4)'
  BY <1>1 DEF TInv, Supervised, Settled, Idle
<1>11. Unnoticed
  BY <1>1 DEF Unnoticed, SameSpace, Asked, Idle
<1>12. QED
  BY <1>3, <1>4, <1>5, <1>6, <1>9, <1>10, <1>11 DEF TInv

(* Contents of memory as tables; an entry written; a page cleared and      *)
(* linked.                                                                 *)
Contents == [Page -> [Index -> Entry]]

Written(T, p, k, e) == [T EXCEPT ![p][k] = e]

Joined(T, n, p, k, e) == [T EXCEPT ![n] = Cleared, ![p][k] = e]

(* What writing one entry leaves alone (memory.c:118, 140).                *)
LEMMA WrittenChanges ==
  ASSUME NEW T \in Contents, NEW p \in Page, NEW k \in Index, NEW e \in Entry
  PROVE  Written(T, p, k, e) \in Contents /\ Writes(T, Written(T, p, k, e), Page, p, k, e)
<1> DEFINE U == Written(T, p, k, e)
<1>1. T \in [Page -> [Index -> Entry]]
  BY DEF Contents
<1>2. T[p] \in [Index -> Entry]
  BY <1>1
<1>3. [T[p] EXCEPT ![k] = e] \in [Index -> Entry]
  BY <1>2
<1>4. U = [T EXCEPT ![p] = [T[p] EXCEPT ![k] = e]]
  BY DEF Written
<1> HIDE DEF U
<1>5. U \in [Page -> [Index -> Entry]]
  BY <1>1, <1>3, <1>4
<1>6. U[p] = [T[p] EXCEPT ![k] = e] /\ \A q \in Page : q # p => U[q] = T[q]
  BY <1>1, <1>4
<1>7. U[p][k] = e /\ \A j \in Index : j # k => U[p][j] = T[p][j]
  BY <1>2, <1>6
<1>8. QED
  BY <1>5, <1>6, <1>7 DEF Writes, Contents, U

(* What clearing a page and linking it leaves alone (memory.c:96-103).     *)
LEMMA LinkedChanges ==
  ASSUME NEW T \in Contents, NEW n \in Page, NEW p \in Page, n # p,
         NEW k \in Index, NEW e \in Entry
  PROVE  /\ Joined(T, n, p, k, e) \in Contents
         /\ Joined(T, n, p, k, e)[n] = Cleared
         /\ Writes(T, Joined(T, n, p, k, e), Page \ {n}, p, k, e)
<1> DEFINE S == [T EXCEPT ![n] = Cleared]
<1> DEFINE U == Written(S, p, k, e)
<1>1. S \in Contents /\ S[n] = Cleared /\ \A q \in Page : q # n => S[q] = T[q]
  BY EntryFacts DEF Contents
<1>2. Joined(T, n, p, k, e) = U
  BY DEF Written, Joined
<1> HIDE DEF S
<1>3. U \in Contents /\ Writes(S, U, Page, p, k, e)
  BY <1>1, WrittenChanges
<1> HIDE DEF U
<1>4. /\ U \in Contents
      /\ U[p][k] = e
      /\ \A j \in Index : j # k => U[p][j] = S[p][j]
      /\ \A q \in Page : q # p => U[q] = S[q]
  BY <1>3 DEF Writes
<1>5. U[n] = Cleared /\ Writes(T, U, Page \ {n}, p, k, e)
  BY <1>1, <1>4 DEF Writes
<1>6. QED
  BY <1>2, <1>4, <1>5

(* The entry of a page is written: the tree stays, and no other page is    *)
(* translated differently (memory.c:118, 140).                             *)
LEMMA LeafWritten ==
  ASSUME TInv, root # NULL, NEW v \in Virt, NEW e \in Entry,
         NEW leaf, leaf = WalkIn(tables, root, v)[1], leaf # NULL,
         tables' = [tables EXCEPT ![leaf][IndexAt(v, 1)] = e]
  PROVE  /\ tables' \in Contents
         /\ \E lev : Tree(tables', owned, root, lev)
         /\ \A w \in Virt :
              TranslateIn(tables', root, w) = IF w = v THEN e ELSE TranslateIn(tables, root, w)
         /\ tables'[NULL] = tables[NULL]
<1>1. 1 \in 1 .. Levels
  BY ShapeAssumption
<1>2. tables \in [Page -> [Index -> Entry]] /\ owned \subseteq Page
  BY DEF TInv, TablesTyped
<1>3. PICK lev : Tree(tables, owned, root, lev)
  BY DEF TInv, Rooted
<1>4. leaf \in owned /\ IndexAt(v, 1) \in Index
  BY <1>1, <1>3, TreeWalk, VirtFacts
<1> DEFINE k == IndexAt(v, 1)
<1> DEFINE U == Written(tables, leaf, k, e)
<1>5. tables' = U
  BY DEF Written
<1>6. U \in Contents /\ Writes(tables, U, Page, leaf, k, e)
  <2>1. leaf \in Page /\ tables \in Contents /\ k \in Index
    BY <1>2, <1>4 DEF Contents
  <2> HIDE DEF k
  <2>2. QED
    BY <2>1, WrittenChanges
<1> HIDE DEF U
<1>7. Writes(tables, U, owned, leaf, k, e) /\ U[NULL] = tables[NULL]
  <2>1. NULL # leaf
    OBVIOUS
  <2>2. QED
    BY <1>2, <1>6, <2>1, NullPage DEF Writes
<1>8. /\ Tree(U, owned, root, lev)
      /\ \A w \in Virt : TranslateIn(U, root, w) = IF w = v THEN e ELSE TranslateIn(tables, root, w)
  <2>1. v \in Virt /\ leaf = WalkIn(tables, root, v)[1] /\ leaf # NULL
    OBVIOUS
  <2>2. Writes(tables, U, owned, leaf, IndexAt(v, 1), e)
    BY <1>7
  <2>3. QED
    BY ONLY <1>3, <2>1, <2>2, TreeWrite
<1>9. QED
  BY <1>5, <1>6, <1>7, <1>8

(* PageTable_UnMap (memory.c:121-144) removes the translation of its page  *)
(* and no other, and what the CPU has cached of it.                        *)
LEMMA UnMapStep ==
  ASSUME TInv, NEW v \in Touched, PageTable_UnMap(v)
  PROVE  /\ TInv' /\ Asked = <<>> /\ Asked' = <<>>
         /\ \A w \in Virt : TranslateIn(tables', root', w)
                             = IF w = v THEN NotPresent ELSE TranslateIn(tables, root, w)
<1> DEFINE leaf == WalkIn(tables, root, v)[1]
<1>1. /\ stage = Booted /\ Idle
      /\ IF leaf = NULL
           THEN UNCHANGED <<tables, tlb>>
           ELSE /\ tables' = [tables EXCEPT ![leaf][IndexAt(v, 1)] = NotPresent]
                /\ tlb' = IF tlb # <<>> /\ tlb[1] = v THEN <<>> ELSE tlb
      /\ UNCHANGED <<bitmap, total_pages, reserved, memory_map, root, stage, todo, walk, owned, exhausted>>
  <2>1. LeafFor(v) = leaf
    BY TranslateNow DEF LeafFor
  <2>2. QED
    BY <2>1 DEF PageTable_UnMap, Quiet, Invlpg, allocVars, vars
<1>2. v \in Virt
  BY LayoutAssumption
<1>3. CASE leaf = NULL
  <2>1. UNCHANGED tableVars
    BY <1>1, <1>3 DEF tableVars
  <2>2. TInv' /\ SameSpace
    BY <1>1, <2>1, CallerStep DEF Unnoticed
  <2>3. TranslateIn(tables, root, v) = NotPresent
    BY <1>3 DEF TranslateIn
  <2>4. Asked = <<>> /\ Asked' = <<>>
    BY <1>1 DEF Asked, Idle
  <2>5. QED
    BY <2>2, <2>3, <2>4 DEF SameSpace
<1>4. CASE leaf # NULL
  <2>1. root # NULL
    <3>1. SUFFICES ASSUME root = NULL PROVE leaf = NULL
      BY <1>4
    <3>2. 1 \in 1 .. Levels
      BY ShapeAssumption
    <3>3. QED
      BY <3>1, <3>2, NullWalk
  <2> HIDE DEF leaf
  <2>2. /\ tables' \in Contents
        /\ \E lev : Tree(tables', owned, root, lev)
        /\ \A w \in Virt :
             TranslateIn(tables', root, w) = IF w = v THEN NotPresent ELSE TranslateIn(tables, root, w)
        /\ tables'[NULL] = tables[NULL]
    BY <1>1, <1>2, <1>4, <2>1, LeafWritten, EntryFacts DEF leaf
  <2>3. \A s : StagePages(s)' = StagePages(s) /\ UserOf(s)' = UserOf(s)
    BY <1>1, StagesFixed
  <2>4. FirmwareKept'
    BY <1>1 DEF TInv, FirmwareKept
  <2>5. TablesTyped'
    BY <1>1, <2>2, <2>3 DEF TInv, TablesTyped, Contents
  <2>6. Rooted'
    BY <1>1, <2>1, <2>2 DEF Rooted, Booted
  <2>7. OnPath'
    BY <1>1, <2>2 DEF TInv, OnPath, Idle
  <2>8. Coherent'
    <3>1. SUFFICES ASSUME tlb' # <<>>
                   PROVE  /\ stage' = Booted
                          /\ tlb' \in Virt \X (Virt \X BOOLEAN)
                          /\ TranslateIn(tables', root', tlb'[1]) = tlb'[2]
      BY DEF Coherent
    <3>2. tlb' = tlb /\ tlb # <<>> /\ tlb[1] # v
      BY <1>1, <1>4, <3>1
    <3>3. tlb \in Virt \X (Virt \X BOOLEAN) /\ TranslateIn(tables, root, tlb[1]) = tlb[2]
      BY <3>2 DEF TInv, Coherent
    <3>4. tlb[1] \in Virt
      BY <3>3
    <3>5. QED
      BY <1>1, <2>2, <3>2, <3>3, <3>4
  <2>9. \A w \in LapicPages \cup IoapicPages : w \in Virt /\ Settled(w, 3) /\ Settled(w, 4)
    BY <1>1, LayoutAssumption DEF Settled, Booted
  <2>10. \A w \in LapicPages \cup IoapicPages : Supervisor(TranslateIn(tables, root, w))
    BY <2>9 DEF TInv, Supervised
  <2>11. \A w \in LapicPages \cup IoapicPages : Supervisor(TranslateIn(tables', root', w))
    BY <1>1, <2>2, <2>9, <2>10, EntryFacts DEF Supervisor
  <2>12. Supervised(LapicPages, 3)' /\ Supervised(IoapicPages, 4)'
    BY <2>11 DEF Supervised
  <2>13. Asked = <<>> /\ Asked' = <<>>
    BY <1>1 DEF Asked, Idle
  <2>14. TInv'
    BY <2>4, <2>5, <2>6, <2>7, <2>8, <2>12 DEF TInv
  <2>15. QED
    BY <1>1, <2>2, <2>13, <2>14
<1>5. QED
  BY <1>3, <1>4

(* The start of PageTable_Init (memory.c:149-152): an empty root, or NULL. *)
LEMMA NewRootStep ==
  ASSUME TablesInv, NewRoot
  PROVE  TInv' /\ Unnoticed
<1>0. Inv /\ TablesHeld /\ TInv
  BY DEF TablesInv
<1>1. /\ stage = 0 /\ stage' = 1 /\ PageAllocator_Alloc(1) /\ root' = ret'
      /\ tables' = [tables EXCEPT ![ret'] = Cleared]
      /\ owned' = owned \cup ({ret'} \ {NULL})
      /\ exhausted' = (ret' = NULL)
      /\ todo' = Mappings[1].pages
      /\ UNCHANGED <<memory_map, walk, tlb>>
  BY DEF NewRoot
<1>2. /\ memory_map \in Maps /\ tables \in [Page -> [Index -> Entry]] /\ owned = {}
      /\ root = NULL /\ Idle /\ ~exhausted /\ tables[NULL] = Cleared
  BY <1>0, <1>1 DEF TInv, FirmwareKept, TablesTyped, Rooted, OnPath
<1>3. FirmwareKept
  BY <1>0 DEF TInv
<1>4. /\ ret' \in Page /\ reserved' = reserved
      /\ ret' # NULL => ret' \notin owned
  BY <1>0, <1>1, <1>3, AllocForTable
<1> DEFINE n == ret'
<1> DEFINE U == tables'
<1>5. U \in [Page -> [Index -> Entry]] /\ U[n] = Cleared /\ U[NULL] = Cleared
  BY <1>1, <1>2, <1>4, EntryFacts, NullPage
<1>6. FirmwareKept'
  BY <1>1, <1>3, <1>4 DEF FirmwareKept
<1>7. TablesTyped'
  <2>1. todo' \subseteq StagePages(stage)'
    BY <1>1, StagesFixed, StageTable
  <2>2. stage' \in 0 .. Booted /\ owned' \subseteq Page /\ root' \in Page
    BY <1>1, <1>2, <1>4 DEF Booted
  <2>3. exhausted' \in BOOLEAN
    BY <1>1
  <2>4. walk' \in [virt : Virt, entry : Entry, table : Page, level : 0 .. Levels]
    BY <1>0, <1>1 DEF TInv, TablesTyped
  <2>5. tables' \in [Page -> [Index -> Entry]]
    BY <1>5
  <2> HIDE DEF U, n
  <2>6. QED
    BY <2>1, <2>2, <2>3, <2>4, <2>5, Zenon DEF TablesTyped
<1>8. Rooted'
  <2>1. CASE n = NULL
    <3>1. owned' = {} /\ root' = NULL /\ stage' # 0
      BY <1>1, <1>2, <2>1
    <3>2. exhausted'
      BY <1>1, <2>1
    <3> HIDE DEF U, n
    <3>3. QED
      BY <3>1, <3>2 DEF Rooted
  <2>2. CASE n # NULL
    <3>1. owned' = {n} /\ root' = n
      BY <1>1, <1>2, <2>2
    <3> HIDE DEF U, n
    <3>2. \E lev : Tree(U, {n}, n, lev)
      BY <1>5, <2>2, TreeRoot
    <3>3. QED
      BY <1>1, <2>2, <3>1, <3>2 DEF Rooted, U
  <2>3. QED
    BY <2>1, <2>2
<1>9. OnPath'
  BY <1>1, <1>2, <1>5 DEF OnPath, Idle
<1>10. SameSpace
  <2> HIDE DEF U, n
  <2>1. ASSUME NEW v \in Virt PROVE TranslateIn(U, n, v) = TranslateIn(tables, root, v)
    <3>1. TranslateIn(U, n, v) = NotPresent
      BY <1>5, EmptyWalk
    <3>2. TranslateIn(tables, root, v) = NotPresent
      BY <1>2, EmptyWalk
    <3>3. QED
      BY <3>1, <3>2
  <2>2. QED
    BY <1>1, <2>1 DEF SameSpace, U, n
<1>11. \A v : ~Settled(v, 3)' /\ ~Settled(v, 4)'
  BY <1>1 DEF Settled
<1>12. stage # Booted
  BY <1>1 DEF Booted
<1>13. Coherent' /\ Supervised(LapicPages, 3)' /\ Supervised(IoapicPages, 4)'
  BY <1>0, <1>1, <1>10, <1>11, <1>12, SpaceKept
<1>14. Asked' = Asked
  BY <1>1 DEF Asked, Idle
<1>15. QED
  BY <1>6, <1>7, <1>8, <1>9, <1>10, <1>13, <1>14 DEF TInv, Unnoticed

(* Where a PageTable_Map stands: on the table of its level that a walk     *)
(* from the root finds, or, after an allocation failed, on page 0 with no  *)
(* page free (memory.c:114-118).                                           *)
LEMMA WalkPosition ==
  ASSUME TInv, walk.level \in 1 .. Levels
  PROVE  /\ ~Idle /\ stage # 0
         /\ walk.virt \in StagePages(stage) /\ walk.virt \in Virt
         /\ walk.entry = <<walk.virt, UserOf(stage)>>
         /\ IndexAt(walk.virt, walk.level) \in Index
         /\ exhausted => walk.table = NULL /\ tables[NULL] = Cleared /\ FreePages = {}
         /\ ~exhausted =>
              /\ root # NULL /\ walk.table # NULL /\ walk.table \in owned
              /\ WalkIn(tables, root, walk.virt)[walk.level] = walk.table
              /\ \A lev : Tree(tables, owned, root, lev) => lev[walk.table] = walk.level
<1>1. ~Idle
  BY DEF Idle, NoWalk
<1>2. stage # 0
  BY <1>1 DEF TInv, Rooted
<1>3. /\ walk.virt \in StagePages(stage)
      /\ walk.entry = <<walk.virt, UserOf(stage)>>
      /\ IF exhausted
           THEN walk.table = NULL /\ tables[NULL] = Cleared /\ FreePages = {}
           ELSE walk.table # NULL /\ WalkIn(tables, root, walk.virt)[walk.level] = walk.table
  BY <1>1 DEF TInv, OnPath
<1>4. walk.virt \in Virt
  BY DEF TInv, TablesTyped
<1>5. IndexAt(walk.virt, walk.level) \in Index
  BY <1>4, VirtFacts
<1>6. CASE ~exhausted
  <2>1. root # NULL
    BY <1>2, <1>6 DEF TInv, Rooted
  <2>2. PICK m : Tree(tables, owned, root, m)
    BY <2>1 DEF TInv, Rooted
  <2>3. WalkIn(tables, root, walk.virt)[walk.level] = walk.table /\ walk.table # NULL
    BY <1>3, <1>6
  <2>4. walk.table \in owned
    BY <1>4, <2>2, <2>3, TreeWalk
  <2>5. ASSUME NEW lev, Tree(tables, owned, root, lev) PROVE lev[walk.table] = walk.level
    BY <1>4, <2>3, <2>5, TreeWalk
  <2>6. QED
    BY <1>1, <1>2, <1>3, <1>4, <1>5, <1>6, <2>1, <2>3, <2>4, <2>5
<1>7. QED
  BY <1>1, <1>2, <1>3, <1>4, <1>5, <1>6

(* A walk goes one level down, to table p.                                 *)
LEMMA WalkMoves ==
  ASSUME TablesTyped, walk.level > 1, NEW p \in Page,
         walk' = [walk EXCEPT !.table = p, !.level = @ - 1]
  PROVE  /\ walk.level \in 1 .. Levels /\ walk.level - 1 \in 1 .. (Levels - 1)
         /\ (walk.level - 1) + 1 = walk.level
         /\ walk'.virt = walk.virt /\ walk'.entry = walk.entry
         /\ walk'.table = p /\ walk'.level = walk.level - 1
         /\ walk' \in [virt : Virt, entry : Entry, table : Page, level : 0 .. Levels]
         /\ walk'.level # 0 /\ ~Idle'
<1>1. walk \in [virt : Virt, entry : Entry, table : Page, level : 0 .. Levels]
  BY DEF TablesTyped
<1>2. Levels \in Nat \ {0} /\ walk.level \in 0 .. Levels
  BY <1>1, ShapeAssumption
<1>3. /\ walk.level \in 1 .. Levels /\ walk.level - 1 \in 1 .. (Levels - 1)
      /\ walk.level - 1 \in 0 .. Levels /\ walk.level - 1 # 0
      /\ (walk.level - 1) + 1 = walk.level
  BY <1>2
<1>4. /\ walk'.virt = walk.virt /\ walk'.entry = walk.entry
      /\ walk'.table = p /\ walk'.level = walk.level - 1
  BY <1>1
<1>5. walk' \in [virt : Virt, entry : Entry, table : Page, level : 0 .. Levels]
  BY <1>1, <1>3
<1>6. walk'.level # 0
  BY <1>3, <1>4
<1>7. ~Idle'
  BY <1>6 DEF Idle, NoWalk
<1>8. QED
  BY <1>3, <1>4, <1>5, <1>6, <1>7

(* GetOrCreateTable finds the table (memory.c:88-90).                      *)
LEMMA DescendStep ==
  ASSUME TInv, GetOrCreateTable,
         Present(tables[walk.table][IndexAt(walk.virt, walk.level)])
  PROVE  TInv' /\ Unnoticed
<1> DEFINE i == IndexAt(walk.virt, walk.level)
<1> DEFINE e == tables[walk.table][i]
<1>1. /\ walk.level > 1
      /\ walk' = [walk EXCEPT !.table = e[1], !.level = @ - 1]
      /\ UNCHANGED <<bitmap, total_pages, reserved, memory_map, tables, root, stage, todo, owned, exhausted, tlb>>
  BY DEF GetOrCreateTable, allocVars, vars
<1>2. /\ walk \in [virt : Virt, entry : Entry, table : Page, level : 0 .. Levels]
      /\ tables \in [Page -> [Index -> Entry]] /\ owned \subseteq Page
  BY DEF TInv, TablesTyped
<1>3. walk.level \in 1 .. Levels
  BY <1>1, <1>2, ShapeAssumption
<1>4. /\ ~Idle /\ stage # 0
      /\ walk.virt \in StagePages(stage) /\ walk.virt \in Virt
      /\ walk.entry = <<walk.virt, UserOf(stage)>>
      /\ i \in Index
      /\ exhausted => walk.table = NULL /\ tables[NULL] = Cleared
      /\ ~exhausted =>
           /\ root # NULL /\ walk.table # NULL /\ walk.table \in owned
           /\ WalkIn(tables, root, walk.virt)[walk.level] = walk.table
           /\ \A lev : Tree(tables, owned, root, lev) => lev[walk.table] = walk.level
  BY <1>3, WalkPosition
<1>5. Present(e)
  OBVIOUS
<1>6. ~exhausted
  <2>1. Cleared[i] = NotPresent
    BY <1>4 DEF Cleared
  <2>2. QED
    BY <1>4, <1>5, <2>1 DEF Present
<1>7. PICK lev : Tree(tables, owned, root, lev)
  BY <1>4, <1>6 DEF TInv, Rooted
<1> HIDE DEF i
<1>8. e[1] \in owned /\ e[1] \in Page /\ e[1] # NULL
  <2>1. Leads(tables, walk.table, i, lev)
    BY <1>1, <1>4, <1>5, <1>6, <1>7 DEF Leads
  <2>2. QED
    BY <1>2, <1>4, <1>6, <1>7, <2>1 DEF Tree, Descends
<1> HIDE DEF e
<1>9. /\ walk'.virt = walk.virt /\ walk'.entry = walk.entry
      /\ walk'.table = e[1] /\ walk'.level = walk.level - 1
      /\ walk' \in [virt : Virt, entry : Entry, table : Page, level : 0 .. Levels]
      /\ walk'.level # 0 /\ ~Idle'
      /\ walk.level - 1 \in 1 .. (Levels - 1) /\ (walk.level - 1) + 1 = walk.level
  <2>1. TablesTyped
    BY DEF TInv
  <2>2. QED
    BY ONLY <1>1, <1>8, <2>1, WalkMoves
<1>10. walk'.level # 0 /\ ~Idle'
  BY <1>9
<1>11. \A s : StagePages(s)' = StagePages(s) /\ UserOf(s)' = UserOf(s)
  BY <1>1, StagesFixed
<1>12. FirmwareKept'
  BY <1>1 DEF TInv, FirmwareKept
<1>13. TablesTyped'
  BY <1>1, <1>9, <1>11 DEF TInv, TablesTyped
<1>14. Rooted'
  BY <1>1, <1>4, <1>6, <1>7 DEF Rooted
<1>15. OnPath'
  <2>1. walk.level - 1 \in 1 .. (Levels - 1) /\ (walk.level - 1) + 1 = walk.level
    BY <1>9
  <2>2. WalkIn(tables, root, walk.virt)[walk.level - 1]
          = Down(tables, WalkIn(tables, root, walk.virt)[walk.level], walk.virt, walk.level)
    BY <2>1, WalkSteps
  <2>3. WalkIn(tables, root, walk.virt)[walk.level - 1] = e[1]
    BY <1>4, <1>5, <1>6, <2>2 DEF Down, e, i
  <2>4. tables[NULL] = Cleared
    BY <1>6 DEF TInv, OnPath
  <2>5. QED
    BY <1>1, <1>4, <1>6, <1>8, <1>9, <1>10, <1>11, <2>3, <2>4 DEF OnPath
<1>16. SameSpace
  BY <1>1 DEF SameSpace
<1>17. \A v, s : Settled(v, s)' => Settled(v, s)
  BY <1>1, <1>9, <1>10 DEF Settled
<1>18. Coherent' /\ Supervised(LapicPages, 3)' /\ Supervised(IoapicPages, 4)'
  BY <1>1, <1>16, <1>17, SpaceKept
<1>19. Asked' = Asked
  BY <1>4, <1>9 DEF Asked
<1>20. QED
  BY <1>12, <1>13, <1>14, <1>15, <1>16, <1>18, <1>19 DEF TInv, Unnoticed

(* GetOrCreateTable finds no table and gets no page (memory.c:92-94).      *)
LEMMA ExhaustStep ==
  ASSUME TablesInv, GetOrCreateTable, ret' = NULL,
         ~Present(tables[walk.table][IndexAt(walk.virt, walk.level)])
  PROVE  TInv' /\ Unnoticed
<1>0. Inv /\ TablesHeld /\ TInv
  BY DEF TablesInv
<1>1. /\ walk.level > 1
      /\ PageAllocator_Alloc(1)
      /\ walk' = [walk EXCEPT !.table = ret', !.level = @ - 1]
      /\ exhausted' = TRUE
      /\ UNCHANGED <<memory_map, tables, root, stage, todo, owned, tlb>>
  BY DEF GetOrCreateTable, AddTable
<1>2. walk \in [virt : Virt, entry : Entry, table : Page, level : 0 .. Levels]
  BY <1>0 DEF TInv, TablesTyped
<1>3. walk.level \in 1 .. Levels
  BY <1>1, <1>2, ShapeAssumption
<1>4. /\ ~Idle /\ stage # 0 /\ walk.virt \in StagePages(stage)
      /\ walk.entry = <<walk.virt, UserOf(stage)>>
  BY <1>0, <1>3, WalkPosition
<1>5. FirmwareKept
  BY <1>0 DEF TInv
<1>6. reserved' = reserved /\ FreePages' = {}
  BY <1>0, <1>1, <1>5, AllocForTable
<1>7. /\ walk'.virt = walk.virt /\ walk'.entry = walk.entry
      /\ walk'.table = NULL /\ walk'.level = walk.level - 1
      /\ walk' \in [virt : Virt, entry : Entry, table : Page, level : 0 .. Levels]
      /\ walk'.level # 0 /\ ~Idle'
  <2>1. TablesTyped /\ NULL \in Page
    BY <1>0, NullPage DEF TInv
  <2>2. walk' = [walk EXCEPT !.table = NULL, !.level = @ - 1]
    BY <1>1
  <2>3. QED
    BY ONLY <1>1, <2>1, <2>2, WalkMoves
<1>8. walk'.level # 0 /\ ~Idle'
  BY <1>7
<1>9. \A s : StagePages(s)' = StagePages(s) /\ UserOf(s)' = UserOf(s)
  BY <1>1, StagesFixed
<1>10. FirmwareKept'
  BY <1>1, <1>5, <1>6 DEF FirmwareKept
<1>11. TablesTyped'
  <2>1. exhausted' \in BOOLEAN
    BY <1>1
  <2>2. QED
    BY <1>0, <1>1, <1>7, <1>9, <2>1 DEF TInv, TablesTyped
<1>12. exhausted'
  BY <1>1
<1>13. Rooted'
  BY <1>0, <1>1, <1>4, <1>12 DEF TInv, Rooted
<1>14. OnPath'
  <2>1. tables[NULL] = Cleared
    BY <1>0, <1>4 DEF TInv, OnPath
  <2>2. walk'.virt \in StagePages(stage)' /\ walk'.entry = <<walk'.virt, UserOf(stage)'>>
    BY <1>1, <1>4, <1>7, <1>9
  <2>3. tables'[NULL] = Cleared
    BY <1>1, <2>1
  <2>4. QED
    BY <1>6, <1>7, <1>8, <1>12, <2>2, <2>3 DEF OnPath
<1>15. SameSpace
  BY <1>1 DEF SameSpace
<1>16. \A v, s : Settled(v, s)' => Settled(v, s)
  BY <1>1, <1>12 DEF Settled
<1>17. Coherent' /\ Supervised(LapicPages, 3)' /\ Supervised(IoapicPages, 4)'
  BY <1>0, <1>1, <1>15, <1>16, SpaceKept
<1>18. Asked' = Asked
  BY <1>4, <1>7 DEF Asked
<1>19. QED
  BY <1>10, <1>11, <1>13, <1>14, <1>15, <1>17, <1>18 DEF TInv, Unnoticed

(* GetOrCreateTable adds a table (memory.c:92-104): the walk goes on to    *)
(* it, and no translation changes.                                         *)
LEMMA AddStep ==
  ASSUME TablesInv, GetOrCreateTable, ret' # NULL,
         ~Present(tables[walk.table][IndexAt(walk.virt, walk.level)])
  PROVE  TInv' /\ Unnoticed
<1> DEFINE i == IndexAt(walk.virt, walk.level)
<1> DEFINE n == ret'
<1> DEFINE p == walk.table
<1>0. Inv /\ TablesHeld /\ TInv
  BY DEF TablesInv
<1>1. /\ walk.level > 1
      /\ PageAllocator_Alloc(1)
      /\ walk' = [walk EXCEPT !.table = n, !.level = @ - 1]
      /\ tables' = Joined(tables, n, p, i, <<n, TRUE>>)
      /\ owned' = owned \cup {n}
      /\ UNCHANGED <<memory_map, root, stage, todo, exhausted, tlb>>
  BY DEF GetOrCreateTable, AddTable, Joined
<1>2. /\ FirmwareKept /\ TablesTyped /\ tables \in Contents /\ owned \subseteq Page
      /\ walk.level \in 0 .. Levels
  BY <1>0 DEF TInv, TablesTyped, Contents
<1>3. walk.level \in 1 .. Levels
  BY <1>1, <1>2, ShapeAssumption
<1>4. /\ n \in Page /\ reserved' = reserved /\ n \in FreePages /\ n \notin owned /\ n \in Virt
  BY <1>0, <1>1, <1>2, AllocForTable
<1>5. /\ ~Idle /\ stage # 0
      /\ walk.virt \in StagePages(stage) /\ walk.virt \in Virt
      /\ walk.entry = <<walk.virt, UserOf(stage)>>
      /\ i \in Index
      /\ exhausted => FreePages = {}
      /\ ~exhausted =>
           /\ root # NULL /\ p # NULL /\ p \in owned
           /\ WalkIn(tables, root, walk.virt)[walk.level] = p
           /\ \A lev : Tree(tables, owned, root, lev) => lev[p] = walk.level
  BY <1>0, <1>3, WalkPosition
<1>6. ~exhausted
  BY <1>4, <1>5
<1>7. PICK lev : Tree(tables, owned, root, lev)
  BY <1>0, <1>5, <1>6 DEF TInv, Rooted
<1>8. /\ walk.level - 1 \in 1 .. (Levels - 1) /\ (walk.level - 1) + 1 = walk.level
      /\ walk'.virt = walk.virt /\ walk'.entry = walk.entry
      /\ walk'.table = n /\ walk'.level = walk.level - 1
      /\ walk' \in [virt : Virt, entry : Entry, table : Page, level : 0 .. Levels]
      /\ walk'.level # 0 /\ ~Idle'
  BY ONLY <1>1, <1>2, <1>4, WalkMoves
<1>9. p \in owned /\ p \in Page /\ p # NULL /\ n # p /\ n # NULL
  BY <1>2, <1>4, <1>5, <1>6
<1>10. <<n, TRUE>> \in Entry /\ Present(<<n, TRUE>>) /\ <<n, TRUE>>[1] = n
  BY <1>4, EntryFacts
<1> DEFINE U == tables'
<1> HIDE DEF i, n, p
<1>11. U \in Contents /\ U[n] = Cleared /\ Writes(tables, U, Page \ {n}, p, i, <<n, TRUE>>)
  <2>1. /\ Joined(tables, n, p, i, <<n, TRUE>>) \in Contents
        /\ Joined(tables, n, p, i, <<n, TRUE>>)[n] = Cleared
        /\ Writes(tables, Joined(tables, n, p, i, <<n, TRUE>>), Page \ {n}, p, i, <<n, TRUE>>)
    BY ONLY <1>2, <1>4, <1>5, <1>9, <1>10, LinkedChanges
  <2>2. QED
    BY <1>1, <2>1
<1> HIDE DEF U
<1>12. Writes(tables, U, owned, p, i, <<n, TRUE>>) /\ U[NULL] = tables[NULL]
  BY <1>2, <1>4, <1>9, <1>11, NullPage DEF Writes
<1>13. (\E m : Tree(U, owned \cup {n}, root, m)) /\ Keeps(tables, U, root)
  <2>1. lev[p] > 1
    BY <1>1, <1>5, <1>6, <1>7
  <2>2. ~Present(tables[p][i])
    BY DEF p, i
  <2>3. p \in owned /\ i \in Index /\ n \notin owned /\ n # NULL /\ U[n] = Cleared
    BY <1>4, <1>5, <1>9, <1>11
  <2>4. QED
    BY ONLY <1>7, <1>12, <2>1, <2>2, <2>3, TreeAdd
<1>14. \A s : StagePages(s)' = StagePages(s) /\ UserOf(s)' = UserOf(s)
  BY <1>1, StagesFixed
<1>15. FirmwareKept'
  BY <1>1, <1>2, <1>4 DEF FirmwareKept
<1>16. TablesTyped'
  <2>1. owned' \subseteq Page
    BY <1>1, <1>2, <1>4
  <2>2. tables' \in [Page -> [Index -> Entry]]
    BY <1>11 DEF U, Contents
  <2>3. QED
    BY <1>1, <1>2, <1>8, <1>14, <2>1, <2>2 DEF TablesTyped
<1>17. Rooted'
  <2>1. root' # NULL /\ stage' # 0
    BY <1>1, <1>5, <1>6
  <2>2. \E m : Tree(tables', owned', root', m)
    BY <1>1, <1>13 DEF U
  <2>3. QED
    BY <2>1, <2>2 DEF Rooted
<1>18. OnPath'
  <2>1. tables'[NULL] = Cleared /\ ~exhausted'
    BY <1>0, <1>1, <1>6, <1>12 DEF TInv, OnPath, U
  <2>2. WalkIn(U, root, walk.virt)[walk.level] = p
    BY <1>3, <1>5, <1>6, <1>9, <1>13 DEF Keeps
  <2>3. WalkIn(U, root, walk.virt)[walk.level - 1]
          = Down(U, WalkIn(U, root, walk.virt)[walk.level], walk.virt, walk.level)
    BY <1>8, WalkSteps
  <2>4. U[p][i] = <<n, TRUE>>
    BY <1>12 DEF Writes
  <2>5. WalkIn(U, root, walk.virt)[walk.level - 1] = n
    BY <1>9, <1>10, <2>2, <2>3, <2>4 DEF Down, i
  <2>6. WalkIn(tables', root', walk'.virt)[walk'.level] = walk'.table
    BY <1>1, <1>8, <2>5 DEF U
  <2>7. walk'.virt \in StagePages(stage)' /\ walk'.entry = <<walk'.virt, UserOf(stage)'>>
    BY <1>1, <1>5, <1>8, <1>14
  <2>8. QED
    BY <1>8, <1>9, <2>1, <2>6, <2>7 DEF OnPath
<1>19. SameSpace
  BY <1>1, <1>13 DEF SameSpace, Keeps, U
<1>20. \A v, s : Settled(v, s)' => Settled(v, s)
  BY <1>1, <1>8 DEF Settled
<1>21. Coherent' /\ Supervised(LapicPages, 3)' /\ Supervised(IoapicPages, 4)'
  BY <1>0, <1>1, <1>19, <1>20, SpaceKept
<1>22. Asked' = Asked
  BY <1>5, <1>8 DEF Asked
<1>23. QED
  BY <1>15, <1>16, <1>17, <1>18, <1>19, <1>21, <1>22 DEF TInv, Unnoticed

(* The last write of PageTable_Map (memory.c:118): it sets the entry of    *)
(* the page asked for, or goes to page 0 and changes no translation.       *)
LEMMA WriteEffect ==
  ASSUME TInv, WriteEntry
  PROVE  /\ tables' \in Contents
         /\ root # NULL => \E lev : Tree(tables', owned, root, lev)
         /\ ~exhausted => root # NULL /\ tables'[NULL] = Cleared
         /\ \A w \in Virt :
              TranslateIn(tables', root, w) =
                IF ~exhausted /\ w = walk.virt THEN walk.entry ELSE TranslateIn(tables, root, w)
<1>1. /\ walk.level = 1
      /\ tables' = [tables EXCEPT ![walk.table][IndexAt(walk.virt, 1)] = walk.entry]
  BY DEF WriteEntry
<1>2. /\ tables \in [Page -> [Index -> Entry]] /\ tables \in Contents /\ owned \subseteq Page
      /\ walk.entry \in Entry /\ walk.virt \in Virt
  BY DEF TInv, TablesTyped, Contents
<1>3. walk.level \in 1 .. Levels
  BY <1>1, ShapeAssumption
<1>4. /\ IndexAt(walk.virt, 1) \in Index
      /\ exhausted => walk.table = NULL
      /\ ~exhausted => /\ root # NULL /\ walk.table # NULL
                       /\ WalkIn(tables, root, walk.virt)[1] = walk.table
  BY <1>1, <1>3, WalkPosition
<1>5. CASE ~exhausted
  <2> DEFINE leaf == walk.table
  <2> DEFINE v == walk.virt
  <2> DEFINE e == walk.entry
  <2>1. /\ leaf = WalkIn(tables, root, v)[1] /\ leaf # NULL /\ root # NULL
        /\ tables' = [tables EXCEPT ![leaf][IndexAt(v, 1)] = e]
        /\ v \in Virt /\ e \in Entry
    BY <1>1, <1>2, <1>4, <1>5
  <2>2. TInv
    OBVIOUS
  <2> HIDE DEF leaf, v, e
  <2>3. /\ tables' \in Contents
        /\ \E lev : Tree(tables', owned, root, lev)
        /\ \A w \in Virt :
             TranslateIn(tables', root, w) = IF w = v THEN e ELSE TranslateIn(tables, root, w)
        /\ tables'[NULL] = tables[NULL]
    BY ONLY <2>1, <2>2, LeafWritten
  <2>4. tables[NULL] = Cleared
    BY <1>5 DEF TInv, OnPath
  <2>5. QED
    BY <1>5, <2>1, <2>3, <2>4 DEF v, e
<1>6. CASE exhausted
  <2> DEFINE k == IndexAt(walk.virt, 1)
  <2> DEFINE U == Written(tables, NULL, k, walk.entry)
  <2>1. tables' = U
    BY <1>1, <1>4, <1>6 DEF Written
  <2>2. k \in Index
    BY <1>4
  <2> HIDE DEF k
  <2>3. U \in Contents /\ Writes(tables, U, Page, NULL, k, walk.entry)
    BY <1>2, <2>2, NullPage, WrittenChanges
  <2> HIDE DEF U
  <2>4. \A q \in Page : q # NULL => U[q] = tables[q]
    BY <2>3 DEF Writes
  <2>5. CASE root = NULL
    <3>1. \A w \in Virt : TranslateIn(U, root, w) = TranslateIn(tables, root, w)
      BY <2>5, EmptyWalk
    <3>2. QED
      BY <1>6, <2>1, <2>3, <2>5, <3>1
  <2>6. CASE root # NULL
    <3>1. PICK lev : Tree(tables, owned, root, lev)
      BY <2>6 DEF TInv, Rooted
    <3>2. \A q \in owned : q # NULL /\ U[q] = tables[q]
      BY <1>2, <2>4, <3>1 DEF Tree
    <3>3. Agree(tables, U, owned)
      BY <3>2 DEF Agree
    <3>4. Tree(U, owned, root, lev) /\ Alike(tables, U, root)
      BY ONLY <3>1, <3>3, TreeSame
    <3>5. \E m : Tree(tables', owned, root, m)
      BY <2>1, <3>4
    <3>6. tables' \in Contents
      BY <2>1, <2>3
    <3>7. \A w \in Virt : TranslateIn(tables', root, w) = TranslateIn(tables, root, w)
      BY <2>1, <3>4 DEF Alike
    <3>8. QED
      BY <1>6, <3>5, <3>6, <3>7
  <2>7. QED
    BY <2>5, <2>6
<1>7. QED
  BY <1>5, <1>6

(* PageTable_Map ends (memory.c:118), and Memory_MapMMIO flushes what was  *)
(* cached of the page (memory.c:205-216).                                  *)
LEMMA WriteStep ==
  ASSUME TInv, WriteEntry
  PROVE  /\ TInv' /\ Asked = <<walk.virt, walk.entry>> /\ Asked' = <<>>
         /\ exhausted => FreePages = {}
         /\ \A w \in Virt :
              TranslateIn(tables', root', w) =
                IF ~exhausted /\ w = walk.virt THEN walk.entry ELSE TranslateIn(tables, root, w)
<1>1. /\ walk.level = 1 /\ walk' = NoWalk
      /\ stage = Booted => tlb' = IF tlb # <<>> /\ tlb[1] = walk.virt THEN <<>> ELSE tlb
      /\ stage # Booted => tlb' = tlb
      /\ todo' = IF exhausted THEN {} ELSE todo
      /\ UNCHANGED <<bitmap, total_pages, reserved, memory_map, root, stage, owned, exhausted>>
  BY DEF WriteEntry, Invlpg, allocVars, vars
<1>2. /\ tables' \in Contents
      /\ root # NULL => \E lev : Tree(tables', owned, root, lev)
      /\ ~exhausted => root # NULL /\ tables'[NULL] = Cleared
      /\ \A w \in Virt :
           TranslateIn(tables', root, w) =
             IF ~exhausted /\ w = walk.virt THEN walk.entry ELSE TranslateIn(tables, root, w)
  BY WriteEffect
<1>3. walk.level \in 1 .. Levels
  BY <1>1, ShapeAssumption
<1>4. /\ ~Idle /\ stage # 0 /\ walk.virt \in StagePages(stage) /\ walk.virt \in Virt
      /\ walk.entry = <<walk.virt, UserOf(stage)>>
  BY <1>3, WalkPosition
<1>5. Idle'
  BY <1>1 DEF Idle
<1>6. \A s : StagePages(s)' = StagePages(s) /\ UserOf(s)' = UserOf(s)
  BY <1>1, StagesFixed
<1>7. FirmwareKept'
  BY <1>1 DEF TInv, FirmwareKept
<1>8. TablesTyped'
  <2>1. NoWalk \in [virt : Virt, entry : Entry, table : Page, level : 0 .. Levels]
    BY EntryFacts, NullPage, ShapeAssumption DEF NoWalk
  <2>2. walk' \in [virt : Virt, entry : Entry, table : Page, level : 0 .. Levels]
    BY <1>1, <2>1
  <2>3. todo' \subseteq StagePages(stage)'
    BY <1>1, <1>6 DEF TInv, TablesTyped
  <2>4. tables' \in [Page -> [Index -> Entry]]
    BY <1>2 DEF Contents
  <2>5. QED
    BY <1>1, <2>2, <2>3, <2>4 DEF TInv, TablesTyped
<1>9. Rooted'
  BY <1>1, <1>2, <1>4 DEF TInv, Rooted
<1>10. OnPath'
  BY <1>1, <1>2, <1>5 DEF OnPath
<1>11. Coherent'
  <2>1. SUFFICES ASSUME tlb' # <<>>
                 PROVE  /\ stage' = Booted
                        /\ tlb' \in Virt \X (Virt \X BOOLEAN)
                        /\ TranslateIn(tables', root', tlb'[1]) = tlb'[2]
    BY DEF Coherent
  <2>2. tlb' = tlb /\ tlb # <<>> /\ (stage = Booted => tlb[1] # walk.virt)
    BY <1>1, <2>1
  <2>3. /\ stage = Booted /\ tlb \in Virt \X (Virt \X BOOLEAN)
        /\ TranslateIn(tables, root, tlb[1]) = tlb[2]
    BY <2>2 DEF TInv, Coherent
  <2>4. tlb[1] \in Virt /\ tlb[1] # walk.virt
    BY <2>2, <2>3
  <2>5. QED
    BY <1>1, <1>2, <2>2, <2>3, <2>4
<1>12. stage \in {1, 2, 3, 4, 5, 6}
  BY <1>4 DEF TInv, TablesTyped, Booted
<1>13. ASSUME NEW pages, NEW s \in {3, 4}, pages \subseteq LapicPages \cup IoapicPages,
              Supervised(pages, s)
       PROVE  Supervised(pages, s)'
  <2>1. ASSUME NEW v \in pages, Settled(v, s)'
        PROVE  Supervisor(TranslateIn(tables', root', v))
    <3>1. v \in LapicPages \cup IoapicPages /\ v \in Virt
      BY <1>13, LayoutAssumption
    <3>2. stage >= s
      BY <1>1, <1>12, <2>1 DEF Settled
    <3>3. CASE ~exhausted /\ v = walk.virt
      <4>1. v \notin StackPages /\ v \notin MmioPages
        BY <3>1, DeviceAssumption
      <4>2. stage = 3 \/ stage = 4
        BY <1>4, <1>12, <3>2, <3>3, <4>1, StageTable
      <4>3. ~UserOf(stage)
        BY <4>2, StageTable
      <4>4. TranslateIn(tables', root', v) = <<v, UserOf(stage)>>
        BY <1>1, <1>2, <1>4, <3>1, <3>3
      <4>5. QED
        BY <4>3, <4>4 DEF Supervisor
    <3>4. CASE ~(~exhausted /\ v = walk.virt)
      <4>1. Settled(v, s)
        BY <1>1, <2>1, <3>4 DEF Settled
      <4>2. TranslateIn(tables', root', v) = TranslateIn(tables, root, v)
        BY <1>1, <1>2, <3>1, <3>4
      <4>3. QED
        BY <1>13, <4>1, <4>2 DEF Supervised
    <3>5. QED
      BY <3>3, <3>4
  <2>2. QED
    BY <2>1 DEF Supervised
<1>14. Supervised(LapicPages, 3)' /\ Supervised(IoapicPages, 4)'
  BY <1>13 DEF TInv
<1>15. Asked = <<walk.virt, walk.entry>> /\ Asked' = <<>>
  BY <1>4, <1>5 DEF Asked
<1>16. exhausted => FreePages = {}
  BY <1>3, WalkPosition
<1>17. TInv'
  BY <1>7, <1>8, <1>9, <1>10, <1>11, <1>14 DEF TInv
<1>18. QED
  BY <1>1, <1>2, <1>15, <1>16, <1>17

-----------------------------------------------------------------------------
(* What a step is to the address space: nothing, a request, the end of one *)
(* (given up only when no page is free), or the removal of a translation.  *)
SpaceStep ==
  \/ Unnoticed
  \/ /\ SameSpace /\ Asked = <<>>
     /\ \E v \in Virt, u \in BOOLEAN : Asked' = <<v, <<v, u>>>>
  \/ /\ Asked # <<>> /\ Asked' = <<>>
     /\ \/ FreePages = {} /\ SameSpace
        \/ \A w \in Virt : TranslateIn(tables', root', w)
                             = IF w = Asked[1] THEN Asked[2] ELSE TranslateIn(tables, root, w)
  \/ /\ Asked = <<>> /\ Asked' = <<>>
     /\ \E v \in Virt :
          \A w \in Virt : TranslateIn(tables', root', w)
                            = IF w = v THEN NotPresent ELSE TranslateIn(tables, root, w)

(* Every step keeps the invariant and is a step of the address space.      *)
LEMMA TablesStep ==
  ASSUME TablesInv, [TablesNext]_allVars
  PROVE  TInv' /\ SpaceStep
<1>0. Inv /\ TablesHeld /\ TInv
  BY DEF TablesInv
<1>1. CASE Syscall_Init
  <2>1. UNCHANGED tableVars /\ reserved' = reserved /\ stage = 0
    BY <1>1 DEF Syscall_Init, PageAllocator_Alloc
  <2>2. Idle
    BY <1>0, <2>1 DEF TInv, Rooted
  <2>3. QED
    BY <1>0, <2>1, <2>2, CallerStep DEF SpaceStep
<1>2. CASE NewRoot
  BY <1>2, NewRootStep DEF SpaceStep
<1>3. ASSUME NEW u \in BOOLEAN, stage \in 1 .. Booted, u = UserOf(stage), PageTable_Map(u)
      PROVE  TInv' /\ SpaceStep
  <2>1. /\ TInv' /\ SameSpace
        /\ Asked = <<>> /\ \E v \in Virt : Asked' = <<v, <<v, u>>>>
    BY ONLY <1>0, <1>3, MapStep
  <2>2. QED
    BY <2>1 DEF SpaceStep
<1>4. CASE stage \in MapStages /\ PageTable_Map(Mappings[stage].user)
  <2>1. stage \in 1 .. 5 /\ stage \in 1 .. 6 /\ stage \in 1 .. Booted
    BY <1>4 DEF MapStages, Booted
  <2>2. Mappings[stage].user = UserOf(stage)
    BY <2>1, StageTable, Zenon
  <2>3. UserOf(stage) \in BOOLEAN
    BY <2>1, StageTable, Zenon
  <2>4. PageTable_Map(UserOf(stage))
    BY <1>4, <2>2, Zenon
  <2>5. QED
    BY <1>3, <2>1, <2>3, <2>4, Zenon
<1>5. CASE stage = Booted /\ PageTable_Map(TRUE)
  <2>1. TRUE = UserOf(stage)
    BY <1>5, Zenon DEF UserOf
  <2>2. stage \in 1 .. Booted
    BY <1>5 DEF Booted
  <2>3. QED
    BY <1>3, <1>5, <2>1, <2>2, Zenon
<1>6. CASE NextLoop
  BY <1>0, <1>6, LoopStep DEF SpaceStep
<1>7. CASE GetOrCreateTable
  <2>1. CASE Present(tables[walk.table][IndexAt(walk.virt, walk.level)])
    BY <1>0, <1>7, <2>1, DescendStep DEF SpaceStep
  <2>2. CASE ~Present(tables[walk.table][IndexAt(walk.virt, walk.level)]) /\ ret' = NULL
    BY <1>7, <2>2, ExhaustStep DEF SpaceStep
  <2>3. CASE ~Present(tables[walk.table][IndexAt(walk.virt, walk.level)]) /\ ret' # NULL
    BY <1>7, <2>3, AddStep DEF SpaceStep
  <2>4. QED
    BY <2>1, <2>2, <2>3
<1>8. CASE WriteEntry
  <2>1. /\ TInv' /\ Asked = <<walk.virt, walk.entry>> /\ Asked' = <<>>
        /\ exhausted => FreePages = {}
        /\ \A w \in Virt :
             TranslateIn(tables', root', w) =
               IF ~exhausted /\ w = walk.virt THEN walk.entry ELSE TranslateIn(tables, root, w)
    BY <1>0, <1>8, WriteStep
  <2>2. Asked # <<>> /\ Asked[1] = walk.virt /\ Asked[2] = walk.entry
    BY <2>1
  <2>3. CASE exhausted
    BY <2>1, <2>2, <2>3 DEF SpaceStep, SameSpace
  <2>4. CASE ~exhausted
    BY <2>1, <2>2, <2>4 DEF SpaceStep
  <2>5. QED
    BY <2>3, <2>4
<1>9. CASE Memory_MapMMIO
  BY <1>0, <1>9, MmioStep DEF SpaceStep
<1>10. ASSUME NEW v \in Touched, PageTable_UnMap(v) PROVE TInv' /\ SpaceStep
  <2>1. /\ TInv' /\ Asked = <<>> /\ Asked' = <<>>
        /\ \A w \in Virt : TranslateIn(tables', root', w)
                            = IF w = v THEN NotPresent ELSE TranslateIn(tables, root, w)
    BY <1>0, <1>10, UnMapStep
  <2>2. v \in Virt
    BY LayoutAssumption
  <2>3. QED
    BY <2>1, <2>2 DEF SpaceStep
<1>11. ASSUME NEW v \in Touched, Access(v) PROVE TInv' /\ SpaceStep
  BY <1>0, <1>11, AccessStep DEF SpaceStep
<1>12. ASSUME NEW n \in Sizes, OtherAlloc(n) PROVE TInv' /\ SpaceStep
  <2>1. UNCHANGED tableVars /\ reserved' = reserved /\ Idle
    BY <1>12 DEF OtherAlloc, PageAllocator_Alloc, Quiet
  <2>2. QED
    BY <1>0, <2>1, CallerStep DEF SpaceStep
<1>13. ASSUME NEW b \in blocks, OtherFree(b) PROVE TInv' /\ SpaceStep
  <2>1. UNCHANGED tableVars /\ reserved' = reserved /\ Idle
    BY <1>13 DEF OtherFree, PageAllocator_Free, Quiet
  <2>2. QED
    BY <1>0, <2>1, CallerStep DEF SpaceStep
<1>14. CASE UNCHANGED allVars
  <2>1. UNCHANGED tableVars /\ reserved' = reserved /\ FreePages' = FreePages
    BY <1>14 DEF allVars, vars, FreePages
  <2>2. QED
    BY <1>0, <2>1, CallerStep DEF SpaceStep
<1>15. QED
  BY <1>1, <1>2, <1>4, <1>5, <1>6, <1>7, <1>8, <1>9, <1>10, <1>11, <1>12, <1>13, <1>14
     DEF TablesNext, PageTable_Init

-----------------------------------------------------------------------------
(* The invariant holds in every reachable state.                           *)
LEMMA TablesInvAlways == TablesSpec => []TablesInv
<1>1. TablesInit => TablesInv
  BY InitInv, InitTables DEF TablesInv, TablesInit, TablesHeld
<1>2. TablesInv /\ [TablesNext]_allVars => TablesInv'
  <2>1. [TablesNext]_allVars => [Next]_vars
    BY AllocatorSteps, TableSizeAssumption DEF Next, allVars
  <2>2. SUFFICES ASSUME TablesInv, [TablesNext]_allVars PROVE TablesInv'
    OBVIOUS
  <2>3. Inv'
    BY <2>1, <2>2, StepInv DEF TablesInv
  <2>4. TablesHeld'
    BY <2>2, HeldStep DEF TablesInv
  <2>5. TInv'
    BY <2>2, TablesStep
  <2>6. QED
    BY <2>3, <2>4, <2>5 DEF TablesInv
<1>3. QED
  BY <1>1, <1>2, PTL DEF TablesSpec

(* The state of the page tables keeps its type: every table entry points   *)
(* to a page, and a walk never leaves the tree's levels (memory.c:87-119). *)
THEOREM TablesTypeCorrect == TablesSpec => []TablesTypeOK
<1>1. TablesInv => TablesTypeOK
  <2>1. SUFFICES ASSUME TablesInv PROVE TablesTypeOK
    OBVIOUS
  <2>2. TypeOK /\ memory_map \in Maps /\ TablesTyped
    BY <2>1 DEF TablesInv, Inv, TInv, FirmwareKept
  <2>3. todo \subseteq Virt
    BY <2>2, StagePagesVirt DEF TablesTyped
  <2>4. tlb = <<>> \/ tlb \in Virt \X (Virt \X BOOLEAN)
    BY <2>1 DEF TablesInv, TInv, Coherent
  <2>5. QED
    BY <2>2, <2>3, <2>4 DEF TablesTypeOK, TablesTyped
<1>2. QED
  BY <1>1, TablesInvAlways, PTL

(* The tables form a tree, for every depth and width: every page that      *)
(* GetOrCreateTable took (memory.c:92) is reached from the root by exactly *)
(* one path, so no table is lost, shared or part of a cycle.               *)
THEOREM TablesFormTree == TablesSpec => []TreeOfTables
<1>1. TablesInv => TreeOfTables
  <2>1. SUFFICES ASSUME TablesInv, root # NULL
                 PROVE  /\ UNION {Reached[l] : l \in 1 .. Levels} = owned
                        /\ Cardinality(owned) = Cardinality(Links) + 1
    BY DEF TreeOfTables
  <2>2. PICK lev : Tree(tables, owned, root, lev)
    BY <2>1 DEF TablesInv, TInv, Rooted
  <2>3. owned \subseteq 0 .. (MAX_PAGES - 1)
    BY <2>1 DEF TablesInv, TInv, TablesTyped, Page
  <2>4. IsFiniteSet(0 .. (MAX_PAGES - 1))
    <3>1. 0 \in Int /\ MAX_PAGES - 1 \in Int
      BY MaxPagesAssumption
    <3>2. QED
      BY <3>1, FS_Interval
  <2>5. IsFiniteSet(owned)
    BY <2>3, <2>4, FS_Subset
  <2>6. QED
    BY <2>2, <2>5, TreeCounts
<1>2. QED
  BY <1>1, TablesInvAlways, PTL

(* A translation that the CPU has cached is the one the tables give:       *)
(* PageTable_UnMap (memory.c:143) and Memory_MapMMIO flush what they       *)
(* replace.                                                                *)
THEOREM CachedTranslations == TablesSpec => []TlbCoherent
<1>1. TablesInv => TlbCoherent
  BY TranslateNow DEF TablesInv, TInv, Coherent, TlbCoherent
<1>2. QED
  BY <1>1, TablesInvAlways, PTL

(* Once boot is over user code cannot reach the interrupt controllers      *)
(* (memory.c:184-191): whatever regions firmware lists, their pages are    *)
(* mapped last for the supervisor, and no later mapping or unmapping gives *)
(* them to user code.                                                      *)
THEOREM DevicesProtected == TablesSpec => []DevicesSupervisor
<1>1. TablesInv => DevicesSupervisor
  <2>1. SUFFICES ASSUME TablesInv, stage = Booted, NEW v \in LapicPages \cup IoapicPages
                 PROVE  Present(Translate(v)) => ~Translate(v)[2]
    BY DEF DevicesSupervisor
  <2>2. Settled(v, 3) /\ Settled(v, 4)
    BY <2>1 DEF Settled, Booted
  <2>3. Supervisor(TranslateIn(tables, root, v))
    BY <2>1, <2>2 DEF TablesInv, TInv, Supervised
  <2>4. QED
    BY <2>3, TranslateNow DEF Supervisor
<1>2. QED
  BY <1>1, TablesInvAlways, PTL

-----------------------------------------------------------------------------
(* The address space that tables T below r make.                           *)
SpaceIn(T, r) == [v \in Virt |-> TranslateIn(T, r, v)]

(* The address space is what the tables translate, here and after a step.  *)
LEMMA SpaceNow ==
  /\ [v \in Virt |-> Translate(v)] = SpaceIn(tables, root)
  /\ [v \in Virt |-> Translate(v)]' = SpaceIn(tables', root')
BY TranslateNow, TranslateNext DEF SpaceIn

(* Before PageTable_Init nothing is translated.                            *)
LEMMA SpaceInitially ==
  ASSUME TablesInit
  PROVE  Space!SpaceInit
<1>1. Idle /\ root = NULL
  BY DEF TablesInit, Idle
<1>2. \A v \in Virt : Translate(v) = <<>>
  BY <1>1, EmptyWalk, TranslateNow DEF NotPresent
<1>3. QED
  BY <1>1, <1>2 DEF Space!SpaceInit, Space!Unmapped

(* What a step of the tables is to the abstract address space.             *)
LEMMA SpaceSteps ==
  ASSUME SpaceStep
  PROVE  Space!SpaceNext
<1> DEFINE now == SpaceIn(tables, root)
<1> DEFINE next == SpaceIn(tables', root')
<1>1. /\ [v \in Virt |-> Translate(v)] = now
      /\ [v \in Virt |-> Translate(v)]' = next
  BY SpaceNow
<1>2. SameSpace => next = now
  BY DEF SameSpace, SpaceIn
<1>3. ASSUME NEW v, NEW e,
             \A w \in Virt : TranslateIn(tables', root', w)
                               = IF w = v THEN e ELSE TranslateIn(tables, root, w)
      PROVE  next = [now EXCEPT ![v] = e]
  BY <1>3 DEF SpaceIn
<1> HIDE DEF now, next
<1>4. CASE Unnoticed
  <2>1. Space!OtherMemory
    BY <1>1, <1>2, <1>4 DEF Space!OtherMemory, Unnoticed, Asked
  <2>2. QED
    BY <2>1 DEF Space!SpaceNext
<1>5. ASSUME SameSpace, Asked = <<>>, NEW v \in Virt, NEW u \in BOOLEAN, Asked' = <<v, <<v, u>>>>
      PROVE  Space!SpaceNext
  <2>1. Space!Request(v, <<v, u>>)
    BY <1>1, <1>2, <1>5 DEF Space!Request, Asked
  <2>2. QED
    BY <2>1 DEF Space!SpaceNext
<1>6. ASSUME Asked # <<>>, Asked' = <<>>, FreePages = {}, SameSpace
      PROVE  Space!SpaceNext
  <2>1. Space!GiveUp
    BY <1>1, <1>2, <1>6 DEF Space!GiveUp, Asked, FreePages
  <2>2. QED
    BY <2>1 DEF Space!SpaceNext
<1>7. ASSUME Asked # <<>>, Asked' = <<>>,
             \A w \in Virt : TranslateIn(tables', root', w)
                               = IF w = Asked[1] THEN Asked[2] ELSE TranslateIn(tables, root, w)
      PROVE  Space!SpaceNext
  <2>1. next = [now EXCEPT ![Asked[1]] = Asked[2]]
    BY <1>3, <1>7
  <2>2. Space!Mapped
    BY <1>1, <1>7, <2>1 DEF Space!Mapped, Asked
  <2>3. QED
    BY <2>2 DEF Space!SpaceNext
<1>8. ASSUME Asked = <<>>, Asked' = <<>>, NEW v \in Virt,
             \A w \in Virt : TranslateIn(tables', root', w)
                               = IF w = v THEN NotPresent ELSE TranslateIn(tables, root, w)
      PROVE  Space!SpaceNext
  <2>1. next = [now EXCEPT ![v] = NotPresent]
    BY <1>3, <1>8
  <2>2. Space!Unmap(v)
    BY <1>1, <1>8, <2>1 DEF Space!Unmap, Space!Unmapped, Asked, NotPresent
  <2>3. QED
    BY <2>2 DEF Space!SpaceNext
<1>9. QED
  BY <1>4, <1>5, <1>6, <1>7, <1>8 DEF SpaceStep

(* The page tables implement an address space (memory.c:87-144): each      *)
(* PageTable_Map changes the translation of its page and of no other,      *)
(* adding tables changes none, and a mapping is lost only when no page is  *)
(* free.                                                                   *)
THEOREM SpaceImplementation == TablesSpec => ImplementsAddressSpace
<1>1. TablesInit => Space!SpaceInit
  BY SpaceInitially
<1>2. TablesInv /\ [TablesNext]_allVars => [Space!SpaceNext]_(Space!spaceVars)
  BY TablesStep, SpaceSteps
<1>3. QED
  BY <1>1, <1>2, TablesInvAlways, PTL DEF TablesSpec, ImplementsAddressSpace, Space!SpaceSpec
=============================================================================
