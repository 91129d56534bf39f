----------------------------- MODULE PageTables -----------------------------
(***************************************************************************)
(* The page tables of src/memory.c, on top of the page allocator: their    *)
(* pages come from PageAllocator_Alloc(1), one per missing table.          *)
(*                                                                         *)
(* A table is a page of memory.  `tables' is the content of every page     *)
(* that has a bit in the bitmap, as table entries: <<>> when the present   *)
(* bit is clear, else <<page, user access>>.  Every mapping is writable,   *)
(* so that flag is left out.  PageTable_Map takes one step per             *)
(* GetOrCreateTable and one for the entry it writes.                       *)
(*                                                                         *)
(* Memory that is not a table holds anything; here it holds Junk, which    *)
(* looks present.  Page 0 holds zeros: a walk that ran out of memory goes  *)
(* on at address 0 (see GetOrCreateTable), and what it does after that     *)
(* depends on what firmware left there, so once `exhausted' no further     *)
(* mapping is begun.                                                       *)
(***************************************************************************)
EXTENDS PageAllocator, FiniteSets

CONSTANTS
  Levels,       \* depth of the tree, 4 on x86-64
  Entries,      \* entries of a table, 512 on x86-64
  Framebuffer,  \* pages of the framebuffer
  LapicPages,   \* the page of the local APIC, none when lapic_addr is 0
  IoapicPages,  \* the page at 0xFEC00000
  StackPages,   \* the 1 MB around the boot stack
  MmioPages,    \* what NVMe_Init passes to Memory_MapMMIO
  Touched       \* pages unmapped, and pages whose translation the CPU may cache

VARIABLES
  memory_map,   \* the firmware memory map
  tables,       \* content of the pages
  root,         \* g_kernel_pml4
  stage,        \* progress of PageTable_Init; the CPU uses root once Booted
  todo,         \* pages the loop of this stage has still to map
  walk,         \* the PageTable_Map in progress
  owned,        \* history: pages taken for tables
  exhausted,    \* history: a table could not be allocated
  tlb           \* a translation that the CPU cached: <<>> or <<virtual page, entry>>

allocVars == vars
tableVars == <<memory_map, tables, root, stage, todo, walk, owned, exhausted, tlb>>
allVars   == <<vars, tableVars>>

ASSUME ShapeAssumption == Levels \in Nat \ {0} /\ Entries \in Nat \ {0, 1}

(* The pages that one entry of a table of level l + 1 spans: Entries ^ l.  *)
Span[l \in 0 .. Levels] == IF l = 0 THEN 1 ELSE Entries * Span[l - 1]

Virt  == 0 .. (Span[Levels] - 1)
Index == 0 .. (Entries - 1)

(* A table is one page, so one page is among the sizes asked for. *)
ASSUME TableSizeAssumption == 1 \in Sizes

ASSUME LayoutAssumption ==
  /\ Framebuffer \cup LapicPages \cup IoapicPages \cup StackPages \subseteq Virt
  /\ MmioPages \cup Touched \subseteq Virt
  /\ \A map \in Maps : \A d \in map : Run(d.start, d.pages) \subseteq Virt

(* The interrupt controllers are neither memory nor another device.        *)
ASSUME DeviceAssumption ==
  (LapicPages \cup IoapicPages) \cap (StackPages \cup MmioPages) = {}

NotPresent == <<>>
Cleared    == [i \in Index |-> NotPresent]
Junk       == [i \in Index |-> <<1, FALSE>>]

Present(e) == e # NotPresent

(* Variant: the level's index is taken one level too low. *)
IndexAt_LowShift(v, l) == IF l = Levels THEN (v \div Span[l - 2]) % Entries
                                        ELSE (v \div Span[l - 1]) % Entries

(* The entry that translates v in a table of level l; level 1 is the last. *)
IndexAt(v, l) == (v \div Span[l - 1]) % Entries

(* One level of a walk for v: the table below t, NULL beyond an absent     *)
(* entry.                                                                  *)
Below(t, v, l) ==
  IF t # NULL /\ Present(tables[t][IndexAt(v, l)]) THEN tables[t][IndexAt(v, l)][1] ELSE NULL

(* The tables that a walk for v reads, by level; the last one translates v. *)
WalkFor(v) ==
  LET t[l \in 1 .. Levels] == IF l = Levels THEN root ELSE Below(t[l + 1], v, l + 1)
  IN  t

LeafFor(v) == WalkFor(v)[1]

(* What the hardware translates v to. *)
Translate(v) ==
  LET leaf == LeafFor(v)
  IN  IF leaf = NULL THEN NotPresent ELSE tables[leaf][IndexAt(v, 1)]

-----------------------------------------------------------------------------
(* PageTable_Init maps, in this order and with these rights: *)
MappedTypes ==
  {"EfiConventionalMemory", "EfiLoaderCode", "EfiLoaderData", "EfiBootServicesCode",
   "EfiBootServicesData", "EfiRuntimeServicesCode", "EfiRuntimeServicesData",
   "EfiACPIReclaimMemory", "EfiACPIMemoryNVS", "EfiMemoryMappedIO",
   "EfiMemoryMappedIOPortSpace"}

(* Variant: the loop runs to the end of the region and one page further. *)
RegionPages_OnePastEnd ==
  UNION {Run(d.start, d.pages + 1) : d \in {e \in memory_map : e.type \in MappedTypes}}

RegionPages == UNION {Run(d.start, d.pages) : d \in {e \in memory_map : e.type \in MappedTypes}}

(* Variant: the devices first, so that a region can map them again. *)
Mappings_DevicesFirst ==
  <<[pages |-> LapicPages,  user |-> FALSE],
    [pages |-> IoapicPages, user |-> FALSE],
    [pages |-> RegionPages, user |-> TRUE],
    [pages |-> Framebuffer, user |-> TRUE],
    [pages |-> StackPages,  user |-> TRUE]>>

Mappings ==
  <<[pages |-> RegionPages, user |-> TRUE],
    [pages |-> Framebuffer, user |-> TRUE],
    [pages |-> LapicPages,  user |-> FALSE],
    [pages |-> IoapicPages, user |-> FALSE],
    [pages |-> StackPages,  user |-> TRUE]>>

MapStages == 1 .. 5
Booted    == 6

NoWalk == [virt |-> 0, entry |-> NotPresent, table |-> NULL, level |-> 0]
Idle   == walk = NoWalk

TablesInit ==
  /\ Init
  /\ memory_map \in Maps
  /\ bitmap \in BootBitmap(memory_map)
  /\ InitTotal(memory_map, total_pages)
  /\ tables = [p \in Page |-> IF p = NULL THEN Cleared ELSE Junk]
  /\ root = NULL
  /\ stage = 0
  /\ todo = {}
  /\ walk = NoWalk
  /\ owned = {}
  /\ exhausted = FALSE
  /\ tlb = <<>>

(* Syscall_Init takes a page for CpuData before PageTable_Init runs. *)
Syscall_Init ==
  /\ stage = 0
  /\ blocks = {}
  /\ PageAllocator_Alloc(1)
  /\ UNCHANGED tableVars

(* The start of PageTable_Init: an empty root. *)
NewRoot ==
  /\ stage = 0
  /\ blocks # {}
  /\ PageAllocator_Alloc(1)
  /\ root' = ret'
  /\ tables' = [tables EXCEPT ![ret'] = Cleared]
  /\ owned' = owned \cup ({ret'} \ {NULL})
  /\ exhausted' = (ret' = NULL)
  /\ stage' = 1
  /\ todo' = Mappings[1].pages
  /\ UNCHANGED <<memory_map, walk, tlb>>

(* PageTable_Map begins: the loops go up through addresses, and Map is     *)
(* always asked for the identity.                                          *)
PageTable_Map(user) ==
  /\ Idle
  /\ ~exhausted
  /\ \E v \in todo :
       /\ \A w \in todo : v <= w
       /\ walk' = [virt |-> v, entry |-> <<v, user>>, table |-> root, level |-> Levels]
       /\ todo' = todo \ {v}
  /\ UNCHANGED <<allocVars, memory_map, tables, root, stage, owned, exhausted, tlb>>

(* Where a table is missing: allocate, clear and link one.  When no page   *)
(* is left the result is NULL.  Variants: without clearing the new table,  *)
(* and without the test for NULL.                                          *)
AddTable_NotCleared(i) ==
  /\ PageAllocator_Alloc(1)
  /\ IF ret' = NULL
       THEN exhausted' = TRUE /\ UNCHANGED <<tables, owned>>
       ELSE /\ tables' = [tables EXCEPT ![walk.table][i] = <<ret', TRUE>>]
            /\ owned' = owned \cup {ret'}
            /\ UNCHANGED exhausted

AddTable_Unchecked(i) ==
  /\ PageAllocator_Alloc(1)
  /\ tables' = [tables EXCEPT ![ret'] = Cleared, ![walk.table][i] = <<ret', TRUE>>]
  /\ owned' = owned \cup {ret'}
  /\ UNCHANGED exhausted

AddTable(i) ==
  /\ PageAllocator_Alloc(1)
  /\ IF ret' = NULL
       THEN exhausted' = TRUE /\ UNCHANGED <<tables, owned>>
       ELSE /\ tables' = [tables EXCEPT ![ret'] = Cleared, ![walk.table][i] = <<ret', TRUE>>]
            /\ owned' = owned \cup {ret'}
            /\ UNCHANGED exhausted

(* One level down.  A walk that got NULL takes page 0 for a table. *)
GetOrCreateTable ==
  /\ walk.level > 1
  /\ LET e == tables[walk.table][IndexAt(walk.virt, walk.level)]
     IN  IF Present(e)
           THEN /\ walk' = [walk EXCEPT !.table = e[1], !.level = @ - 1]
                /\ UNCHANGED <<allocVars, tables, owned, exhausted>>
           ELSE /\ AddTable(IndexAt(walk.virt, walk.level))
                /\ walk' = [walk EXCEPT !.table = ret', !.level = @ - 1]
  /\ UNCHANGED <<memory_map, root, stage, todo, tlb>>

(* invlpg drops what is cached for v. *)
Invlpg(v) == tlb' = IF tlb # <<>> /\ tlb[1] = v THEN <<>> ELSE tlb

(* The last write of PageTable_Map; Memory_MapMMIO, which is the one to    *)
(* map after boot, follows it with invlpg.  The rest of a region is        *)
(* dropped with its first page that found no table.                        *)
WriteEntry ==
  /\ walk.level = 1
  /\ tables' = [tables EXCEPT ![walk.table][IndexAt(walk.virt, 1)] = walk.entry]
  /\ walk' = NoWalk
  /\ IF stage = Booted THEN Invlpg(walk.virt) ELSE UNCHANGED tlb
  /\ todo' = IF exhausted THEN {} ELSE todo
  /\ UNCHANGED <<allocVars, memory_map, root, stage, owned, exhausted>>

(* The next loop of PageTable_Init, and after the last one CR3. *)
NextLoop ==
  /\ stage \in MapStages
  /\ Idle
  /\ ~exhausted
  /\ todo = {}
  /\ stage' = stage + 1
  /\ todo' = IF stage + 1 = Booted THEN {} ELSE Mappings[stage + 1].pages
  /\ UNCHANGED <<allocVars, memory_map, tables, root, walk, owned, exhausted, tlb>>

PageTable_Init ==
  \/ NewRoot
  \/ stage \in MapStages /\ PageTable_Map(Mappings[stage].user)
  \/ NextLoop

-----------------------------------------------------------------------------
(* After boot. *)
Quiet == stage = Booted /\ Idle /\ todo = {}

Memory_MapMMIO ==
  /\ Quiet
  /\ ~exhausted
  /\ todo' = MmioPages
  /\ UNCHANGED <<allocVars, memory_map, tables, root, stage, walk, owned, exhausted, tlb>>

(* Variant without the invalidation. *)
PageTable_UnMap_NoFlush(v) ==
  /\ Quiet
  /\ LET leaf == LeafFor(v)
     IN  tables' = IF leaf = NULL THEN tables ELSE [tables EXCEPT ![leaf][IndexAt(v, 1)] = NotPresent]
  /\ UNCHANGED <<allocVars, memory_map, root, stage, todo, walk, owned, exhausted, tlb>>

(* Returns early where a table on the way is absent. *)
PageTable_UnMap(v) ==
  /\ Quiet
  /\ LET leaf == LeafFor(v)
     IN  IF leaf = NULL
           THEN UNCHANGED <<tables, tlb>>
           ELSE /\ tables' = [tables EXCEPT ![leaf][IndexAt(v, 1)] = NotPresent]
                /\ Invlpg(v)
  /\ UNCHANGED <<allocVars, memory_map, root, stage, todo, walk, owned, exhausted>>

(* The CPU caches the translation of a page it uses. *)
Access(v) ==
  /\ stage = Booted
  /\ Present(Translate(v))
  /\ tlb' = <<v, Translate(v)>>
  /\ UNCHANGED <<allocVars, memory_map, tables, root, stage, todo, walk, owned, exhausted>>

(* The heap, kernel stacks and Exec take blocks; stacks come back. *)
OtherAlloc(n) == Quiet /\ PageAllocator_Alloc(n) /\ UNCHANGED tableVars

OtherFree(b) == Quiet /\ b[1] \notin owned /\ PageAllocator_Free(b) /\ UNCHANGED tableVars

TablesNext ==
  \/ Syscall_Init
  \/ PageTable_Init
  \/ GetOrCreateTable
  \/ WriteEntry
  \/ Memory_MapMMIO
  \/ stage = Booted /\ PageTable_Map(TRUE)
  \/ \E v \in Touched : PageTable_UnMap(v) \/ Access(v)
  \/ \E n \in Sizes : OtherAlloc(n)
  \/ \E b \in blocks : OtherFree(b)

TablesSpec == TablesInit /\ [][TablesNext]_allVars

-----------------------------------------------------------------------------
Entry == {NotPresent} \cup (Virt \X BOOLEAN)

TablesTypeOK ==
  /\ TypeOK
  /\ memory_map \in Maps
  /\ tables \in [Page -> [Index -> Entry]]
  /\ root \in Page
  /\ stage \in 0 .. Booted
  /\ todo \subseteq Virt
  /\ walk \in [virt : Virt, entry : Entry, table : Page, level : 0 .. Levels]
  /\ owned \subseteq Page
  /\ exhausted \in BOOLEAN
  /\ tlb = <<>> \/ tlb \in Virt \X (Virt \X BOOLEAN)

(* The tables reached from the root at each level, and the links between   *)
(* tables.                                                                 *)
LinksFrom(ts) == {x \in ts \X Index : Present(tables[x[1]][x[2]])}

Reached ==
  LET r[l \in 1 .. Levels] ==
        IF l = Levels THEN {root} \ {NULL}
                      ELSE {tables[x[1]][x[2]][1] : x \in LinksFrom(r[l + 1])}
  IN  r

Links == LinksFrom(UNION {Reached[l] : l \in 2 .. Levels})

(* The tables form a tree: every page taken for a table is reached from    *)
(* the root by exactly one path, so no table is lost, shared or part of a  *)
(* cycle, and GetOrCreateTable reads only pages that are tables.           *)
TreeOfTables ==
  root # NULL =>
    /\ UNION {Reached[l] : l \in 1 .. Levels} = owned
    /\ Cardinality(owned) = Cardinality(Links) + 1

(* A page of a table stays with the page tables: no other caller of the    *)
(* allocator is given it, and page 0, where a walk that ran out of memory  *)
(* writes, is none.                                                        *)
TablesHeld == \A p \in owned : p # NULL /\ <<p, 1>> \in blocks

(* A cached translation is the one the tables give: PageTable_UnMap and    *)
(* Memory_MapMMIO leave none behind that they replaced.                    *)
TlbCoherent == tlb # <<>> => Translate(tlb[1]) = tlb[2]

(* Once boot is over user code cannot reach the interrupt controllers,     *)
(* though firmware may list their pages as a region that PageTable_Init    *)
(* maps for user code.                                                     *)
DevicesSupervisor ==
  stage = Booted =>
    \A v \in LapicPages \cup IoapicPages : Present(Translate(v)) => ~Translate(v)[2]

(* The tree implements an address space: each PageTable_Map changes the    *)
(* translation of its own page only, to the page and rights it was asked   *)
(* for, and a mapping is lost only when no page is free.                   *)
Space == INSTANCE AddressSpace
           WITH space     <- [v \in Virt |-> Translate(v)],
                pending   <- IF Idle THEN <<>> ELSE <<walk.virt, walk.entry>>,
                freePages <- (1 .. (total_pages - 1)) \ bitmap

ImplementsAddressSpace == Space!SpaceSpec
=============================================================================
