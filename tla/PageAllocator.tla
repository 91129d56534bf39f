--------------------------- MODULE PageAllocator ---------------------------
(***************************************************************************)
(* The physical page allocator of src/memory.c with its callers.           *)
(*                                                                         *)
(* The initial state is the one KernelMain leaves after                    *)
(* PageAllocator_Init(map) and PageAllocator_MarkUsed(image).  The callers *)
(* give back only what they were handed, and once: the one caller of       *)
(* PageAllocator_Free is Scheduler_TerminateCurrentTask, and module        *)
(* Scheduler checks that it keeps to that.                                 *)
(***************************************************************************)
EXTENDS Pages

CONSTANTS
  Maps,    \* firmware memory maps: sets of [start, pages, type] records
  Sizes    \* page counts that callers ask for

ASSUME MapsAssumption ==
  \A map \in Maps : \A d \in map : d.start \in Nat /\ d.pages \in Nat

ASSUME SizesAssumption == Sizes \subseteq Nat

VARIABLES
  bitmap,       \* pages whose bit is set
  total_pages,  \* the scan never looks at this page or beyond
  reserved,     \* history: the pages in use when boot handed over
  blocks,       \* history: blocks <<first page, count>> held by callers
  req,          \* history: what the last PageAllocator_Alloc was asked for
  ret           \* and what it returned

vars == <<bitmap, total_pages, reserved, blocks, req, ret>>

PagesOf(b) == Run(b[1], b[2])

-----------------------------------------------------------------------------
(* UEFI loads the kernel image into loader memory. *)
ImageTypes == {"EfiLoaderCode", "EfiLoaderData"}

BootBitmap(map) ==
  {MarkUsed(InitBitmap(map), d.start, d.pages) : d \in {e \in map : e.type \in ImageTypes}}

Init ==
  /\ \E map \in Maps :
       /\ bitmap \in BootBitmap(map)
       /\ total_pages \in 0 .. (MAX_PAGES - 1)
       /\ InitTotal(map, total_pages)
  /\ reserved = bitmap
  /\ blocks = {}
  /\ req = 0
  /\ ret = NULL

PageAllocator_Alloc(n) ==
  \E p \in Page :
    /\ AllocReturns(bitmap, total_pages, n, p)
    /\ req' = n
    /\ ret' = p
    /\ IF p = NULL
         THEN UNCHANGED <<bitmap, blocks>>
         ELSE /\ bitmap' = AllocMarks(bitmap, p, n)
              /\ blocks' = blocks \cup {<<p, n>>}
    /\ UNCHANGED <<total_pages, reserved>>

PageAllocator_Free(b) ==
  /\ bitmap' = FreeRun(bitmap, b[1], b[2])
  /\ blocks' = blocks \ {b}
  /\ UNCHANGED <<total_pages, reserved, req, ret>>

Next ==
  \/ \E n \in Sizes : PageAllocator_Alloc(n)
  \/ \E b \in blocks : PageAllocator_Free(b)

Spec == Init /\ [][Next]_vars

-----------------------------------------------------------------------------
TypeOK ==
  /\ bitmap \subseteq Page
  /\ total_pages \in 0 .. (MAX_PAGES - 1)
  /\ reserved \subseteq Page
  /\ blocks \subseteq (Page \X Nat)
  /\ req \in {0} \cup Sizes
  /\ ret \in Page

(* No page belongs to two callers, over any sequence of allocations and    *)
(* frees: the bits that PageAllocator_Alloc sets are enough to keep every  *)
(* later scan away from the block, and PageAllocator_Free of one block     *)
(* never clears a bit of another.                                          *)
BlocksDisjoint ==
  \A b, c \in blocks : b # c => PagesOf(b) \cap PagesOf(c) = {}

(* A caller never receives page 0 (its address would be NULL), a page that *)
(* the firmware map or the kernel image reserved at boot, or a page at or  *)
(* past total_pages, where there is no memory.                             *)
BlocksUsable ==
  \A b \in blocks :
    /\ PagesOf(b) \subseteq 1 .. (total_pages - 1)
    /\ PagesOf(b) \cap reserved = {}

(* Nothing leaks inside the allocator: a bit is set exactly for the pages  *)
(* reserved at boot and those of the blocks still held.                    *)
BitmapExact == bitmap = reserved \cup UNION {PagesOf(b) : b \in blocks}

(* The allocator implements PageOwner: in particular a request is refused  *)
(* only when no free run of its length exists below total_pages.           *)
Owner == INSTANCE PageOwner
           WITH free <- (1 .. (total_pages - 1)) \ bitmap, held <- blocks

ImplementsPageOwner == Owner!OwnerSpec
=============================================================================
