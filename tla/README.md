# A TLA+ model of CoolOS

CoolOS is a small x86-64 kernel (C and assembly, booted through UEFI): one CPU,
ring-0 and ring-3 threads that the user switches with CapsLock, a handful of
system calls, a page allocator, a heap and a polling NVMe driver.  This
directory holds TLA+ specifications of its core, the TLC configurations that
check them and TLAPS proofs of what matters most.  Every definition is
translated from the source; `PROJECT.json` maps each to the lines it stands for.

    tlc -workers 2 -config Kernel.cfg MCKernel      # one run
    tlapm Kernel_proofs.tla                         # one proof module

## 1. The system

| Component (source) | State | Operations | Interacts with |
| --- | --- | --- | --- |
| Page allocator (`memory.c`) | `bitmap`, `total_pages` | `PageAllocator_Init`, `MarkUsed`, `Alloc`, `Free` | boot, scheduler, `SYSCALL_EXEC`, heap (one block), page tables |
| Page tables (`memory.c`) | the tables under `g_kernel_pml4` | `PageTable_Map`, `UnMap`, `PageTable_Init`, `Memory_MapMMIO` | page allocator |
| Heap (`heap.c`) | list of `HeapBlock` | `Heap_Init`, `kmalloc`, `kmalloc_aligned`, `kfree` | boot, system calls |
| Scheduler (`schedule.c`) | `tasks`, `current_task_index`, `total_tasks` | `Scheduler_Init`, `AddTask`, `AddUserTask`, `Switch`, `TerminateCurrentTask` | keyboard handler, system calls, page allocator |
| Interrupts (`interrupt.c`) | `handler_table`, frames on stacks | the stubs, `ExceptionHandler`, `isr_restore`, `IDT_Init` | every handler; moves the stack pointer to another task |
| System calls (`syscall_entry.S`, `syscall.c`) | GS base, `user_rsp_scratch` | `syscall_entry`, `Syscall_Handler`, `Syscall_Init` | scheduler, heap, console, NVMe |
| Console (`syscall.c`, `graphics.c`) | `console_x`, `console_y`, the screen size | `SYSCALL_PRINT`, `SYSCALL_CLEAR` | frame buffer |
| Keyboard, timer, APICs (`keyboard.c`, `timer.c`, `apic.c`, `ioapic.c`) | `last_char`, `g_ticks`, request and in-service bits, the redirection of IRQ 1 | `Keyboard_Handler`, `Timer_Handler`, `LAPIC_SendEOI`, `LAPIC_TimerInit`, `IOAPIC_MapIRQ` | scheduler |
| NVMe driver (`nvme.c`) | two queue pairs | `NVMe_Init`, `SubmitCommand`, `WaitForCompletion`, `Read`, `Write` | the controller, by registers, shared memory and doorbells |
| Segments (`gdt.c`) | GDT, TSS | `GDT_Init`, `TSS_SetStack` | STAR, interrupts, system calls |
| ACPI and PCI (`acpi.c`, `pci.c`) | `g_xsdt`, `g_nvme_device` | `ACPI_Init`, `FindTable`, `PCI_ScanBus`, `CheckDevice`, `CheckFunction` | boot |
| Boot (`main.c`) | firmware memory map | `EfiMain`, `KernelMain`, `SwitchToUserMode` | everything, once; runs with interrupts on from `sti` |

What is hard in it:

- **Contexts.**  An interrupt may arrive between any two instructions of a
  thread; where it saves the registers depends on the ring it came from.  The
  handler may replace the frame it returns to.  A system call has a second path
  in and a third path out, with its own save area and with `swapgs`.
- **Masking.**  The handlers rely on interrupts being off (interrupt gates,
  SFMASK).  Where they are off and the CPU waits (`hlt`, the polling loop of
  the NVMe driver), something else must end the wait.
- **Ownership of memory.**  Stacks are handed from the allocator to a TCB and
  back, kernel stacks are handed out for ever, and a saved frame lies in a page
  that a `Free` one page too long would hand to somebody else.
- **Limits.**  Ten slots that are never reused, the last page of the bitmap, a
  heap block with no room for another header, the edge of the screen, the last
  entry of a ring.
- **Failure.**  Allocations fail in the middle of starting a task or of mapping
  a page; firmware refuses a stale memory map; a controller is still busy with
  firmware's queues.
- **Boot is not sequential.**  From `sti` (`main.c:187`) on the timer and the
  keyboard interrupt it, and CapsLock may hand the CPU to another task before
  `TSS.RSP0` is set.

Nothing is persistent and there is one CPU: there is no crash recovery, no
message loss and no lock in this code.  The one thing that gets lost is the
interrupt edge of a key pressed before IRQ 1 is mapped.

What makes each component correct: pages and heap blocks have one owner and
none is lost (allocators); there is always a live task with an intact frame to
resume, in round-robin order (scheduler); every thread continues with its own
registers on its own stack, and interrupts are acknowledged (interrupts, system
calls); arguments and saved registers reach their places (entry path);
characters that `SYSCALL_PRINT` draws stay on the screen (console); a wait ends with its own completion
(NVMe); a mapping changes the translation of its own page and of no other, and
no stale translation stays in use (page tables); boot ends, with the right
devices found and no context lost (boot).  `PROJECT.json` lists the hazards line by line with the properties that
would notice them.

## 2. The modules

    Pages <-- PageOwner            (abstract: what an allocator promises)
      ^-- PageAllocator            implements PageOwner
      |      ^-- PageTables        implements AddressSpace (abstract: a map)
      |                            and PageAllocator
      ^-- Scheduler                implements RoundRobin  (abstract: the ring)
             ^-- Kernel            implements Scheduler
                    ^-- Boot       KernelMain as a thread of Kernel
    Heap     SyscallEntry     Console     NvmeQueue

All five refinements are checked by TLC and proved.

- **Pages** is the pure part of the page allocator.  The bitmap is the set of
  pages whose bit is 1, an address is its page number, and `NULL` is page 0.
  `AllocReturns` is the result of the first-fit scan, with the bounds of the
  loop (`memory.c:52-75`); `AllocMarks`, `FreeRun`, `MarkUsed` are the bit loops,
  `InitTotal` and `InitBitmap` what `PageAllocator_Init` computes from the
  firmware's memory map.
- **PageAllocator** is its state with callers: boot from any map of `Maps`, then
  any sequence of requests and frees.  `reserved`, `blocks` and `req` are history.  Its
  abstract specification **PageOwner** knows no bitmap: a request is granted
  *some* free run, or refused when there is none.
- **PageTables** is the page tables on top of the allocator: `PageAllocator`'s
  actions are used unchanged, with the page tables and everybody else as
  callers.  A page of memory is a function from indices to entries, so that a
  table is read from whatever memory holds; memory that nobody cleared looks
  present.  `PageTable_Map` takes a step per level (`GetOrCreateTable`) and one
  for the entry (`WriteEntry`).  `stage` and `todo` are the five loops of
  `PageTable_Init`, in their order; every request maps a page to itself, as all
  callers do.  `tlb` is one translation that the CPU cached, which is enough
  for a statement about all.  Depth and width of the tree are constants, and
  `Span[l]` is how many pages an entry stands for, `Entries` to the power of the level.
- **AddressSpace** is what page tables promise: a function from pages to
  translations, of which a request changes one place, or none when no page is
  free.
- **Scheduler** is the task table and the bitmap its stacks come from, with one
  action per function and `SYSCALL_EXEC`.  A call is one step, because
  interrupts are off in all of them.  `TCB.rsp` is the page that the saved
  frame is on.  `kstack` and `lost` are history: the TCB has no field for
  the kernel stack (`schedule.c:122-124`), and a stack is lost when
  `Scheduler_AddUserTask` gives up silently.  The repository has no call of
  `Scheduler_AddTask`; `KernelTasks` says whether the model has one, with the
  one-page stack that its comment (`schedule.c:25-27`) asks of a caller.
- **RoundRobin** is the abstract scheduler: a queue of live tasks.  Switching
  rotates it, killing removes its head, a new task enters before the main task,
  names are used once.  The mapping (`RingOf`) lists the active slots in the
  order in which the search from the current one on would find them.
- **Kernel** is the CPU around the scheduler.  The state is the program point,
  whose registers and stack the CPU holds, IF, GS, the frame being handled, what
  is saved at the top of each page (`mem`), `user_rsp_scratch`, the LAPIC's
  request and service bits and the scancode.  The actions are interrupt and
  exception entry (`Enter`), the handlers, `isr_restore`, the instructions
  of `syscall_entry` one by one up to the save area (where an interrupt could matter),
  the cases of `Syscall_Handler` that change state, `SysRet`, and the devices.
  The exit through `switch_task_from_syscall` is `SyscallTerminate` followed by
  `isr_restore`.  Scheduler's actions are used unchanged.
- **Boot** is `EfiMain` and `KernelMain` as the thread "boot" of `Kernel`, a
  step at a time, with what firmware and hardware offer (`machine`) chosen at
  the start.  Until `Sti` nothing interrupts it; then Kernel's interrupts,
  handlers and switches come in between, on the boot stack, and after
  `EnterUserMode` its system calls too.  `handlers` is `handler_table`, `routed`
  the redirection entry of IRQ 1, and `at` the position of the PCI scan, whose
  step is one `PCI_CheckDevice`.  The NVMe driver's part is `NvmeQueue`'s.
- **Heap** is the block list as a function from header addresses to headers.
  The list order is the address order, which `ListTilesHeap` checks, so the
  first fit is the lowest one.  `Take`, `Carve` and `Release` are the pointer
  updates of `kmalloc`, `kmalloc_aligned` and `kfree`.
- **SyscallEntry** is the register file over one system call: pushes, copies
  into argument places, the handler (which may leave anything in volatile
  registers), pops; with the selectors that SYSCALL and SYSRET take from STAR,
  against the layout of the GDT.
- **Console** is the cursor, a character a step.
- **NvmeQueue** is the driver and the controller: the reset of a controller that
  firmware may have left enabled, the admin commands that create the I/O
  queues, and reads and writes around the two rings.  One set of variables is
  the queue in use, first the admin queue, then the I/O queue.  The
  completion ring is shared memory that is never cleared, so old entries stay
  in it; command IDs repeat (100 and 101, `nvme.c:254`, `281`).  Only history
  variable `order` tells completions of equal commands apart.

Names of variables and actions are those of the source where it has one.
A definition called `X_Something` before a definition `X` is a variant of `X` with a plausible
bug.  No specification uses it; it documents what a property is sensitive to.

## 3. What the runs check

| Run | States | Shows |
| --- | --- | --- |
| `PageTables.cfg` | 12,883 | the tables form a tree of pages that nobody else has, a mapping changes its own page only (refinement of `AddressSpace`), no cached translation goes stale, the interrupt controllers end up supervisor-only although a region may list them; and below it the allocator: one owner per page, nothing lost, page 0, boot's pages and pages past the end never handed out, refinement of `PageOwner` |
| `Scheduler.cfg` | 10,821 | always a live task with an intact frame (`Resumable`), stacks apart, every page accounted for, slots used once, no starvation, and refinement of `RoundRobin` |
| `Kernel.cfg` | 480,820 | ring-0 contexts and first frames are never damaged, stack and registers stay together, interrupts are acknowledged, and every machine step is a scheduler step or leaves it alone |
| `Boot.cfg` | 176,213 | from firmware to user mode and beyond: with one ring-3 thread and a ring-0 task every context is preserved, also the boot thread's; the devices found are the right ones; boot ends, however often the memory map changes; a key is answered once its interrupt is mapped, for as long as the machine listens: not after `SYSCALL_HALT`, with which `UserMain` ends, not in a wait for a controller that does not exist, and not if a key was pressed before the mapping |
| `Heap.cfg` | 255,090 | the list tiles the heap with consistent links, no two free neighbours, blocks in use are those held |
| `SyscallEntry.cfg` | 4,608 | call number and arguments 1, 2, 4, 5 arrive; the user goes on with its registers, flags and segments |
| `Console.cfg` | 245,814 | no character that `SYSCALL_PRINT` draws lies off the screen |
| `NvmeQueue.cfg` | 10,527 | every busy wait ends, that for a command with its own completion, and both rings are drained between commands |

Four further runs end in a violation, each of something the repository says of
itself (`findings` in `PROJECT.json` quotes the lines):

| Run | The code |
| --- | --- |
| `SharedKernelStack.cfg` | saves the frame of every ring-3 task at the top of the one stack in TSS.RSP0, so CapsLock between two user tasks loses the first one's context |
| `GsAfterTerminate.cfg` | leaves the kernel without `swapgs` after `SYSCALL_TERMINATE`, so the next system call runs with the user's GS base |
| `HaltIgnoresKeys.cfg` | halts with interrupts masked in `SYSCALL_HALT`, with which `UserMain` ends: no key is answered again |
| `ThirdArgument.cfg` | overwrites RDX before copying it to R9: `a3` is `a1` |

Other disagreements that the models reproduce without a run of their own:
`SYSCALL_KMALLOC` has no `break` and frees what it allocated (`syscall.c:221-230`,
action `SyscallKmalloc`, under which the heap's invariants hold, though none of them
would notice it); a task that cannot be started leaves its user stack
allocated (`schedule.c:59-60`, `85-86`, variable `lost`) although
`syscall.c:182` speaks of correct stack management; alignments up to 16 are not
honoured (`heap.c:46`); the completion status is dropped and a read always
succeeds (`nvme.c:272`); a key pressed before `IOAPIC_MapIRQ` leaves its scancode
in the keyboard controller, after which no key raises an interrupt (variable
`missed` of `Boot`); a `PageTable_Map` that got no memory for a table writes its
entry into page 0 (`memory.c:93`, `114-118`, variable `exhausted` of
`PageTables`).

**Why `Kernel` has weaker properties than one would like.**  With two ring-3
tasks `ContextPreserved` is false, so `Kernel.cfg` checks what still holds
in that setting, and `Boot.cfg` checks the full property in the setting where
each task saves its frames on a stack of its own: the boot thread, which goes on
as the one ring-3 thread, and a ring-0 task.  That there is one ring-3 thread is
assumption `OneUserThread` of `Boot`: `UserMain` makes no `SYSCALL_EXEC`.  Every other
system call that `Kernel` has, `SYSCALL_HALT` included, may come at any time.

**What `RoutedKeysAnswered` excepts.**  `NeverListens` names the two places where the
CPU stays with interrupts masked: the `hlt` of `SYSCALL_HALT` (`syscall.c:202-204`), the
last call of the only user program (`main.c:111`), and the poll of a controller
that was not found (`nvme.c:41`).  So in this repository keys are answered during
boot and while `UserMain` or a task runs, and no longer after `UserMain` has
halted, which is what `HaltIgnoresKeys.cfg` shows.  `missed` marks the keyboard that
was silent from the start.  The property cannot catch what it excepts, and the
hazards of these three cases do not name it.  What it is sensitive to is
everything between a key press and its handler, as in its mutant, where the
handler acknowledges behind the switch and so never when the key is CapsLock or ESC.

### Bounds

- `PageTables`: three levels of four entries, so that there is a root, a middle
  and a last level and tables are shared and not shared at each; 64 virtual
  pages, 20 with memory behind them, devices at the far end.  One memory map
  has holes, lists the interrupt controllers as a region and leaves a few pages
  for other callers (blocks of 1 and 2); in the other the tables take every
  page, and the last region ends where the bitmap does.  Two pages are unmapped
  and accessed: one of `Memory_MapMMIO`'s and one of a device's.
- `Scheduler`: 4 slots, 10 pages with a hole, stacks of 0, 1 and 3 pages.  The
  table can fill before the pages run out and the other way round, and the kernel stack
  allocation can fail after the user stack's succeeded.
- `Kernel`: 3 slots, 7 pages, so that a task can wait while one ends and another
  starts; stacks of 1 and 2 pages.  `Faults` adds exceptions and spurious interrupts
  anywhere.
- `Boot`: eight machines, of which each takes another branch; the complete one
  has two I/O APICs and two buses of two devices with two functions, one NVMe
  function hidden behind a single-function device and one in the last place of
  the scan.  The memory map changes twice at most.  One ring-0 task besides the boot thread,
  which CapsLock and ESC reach at any point after `sti`.
- `Heap`: 36 units of 8 bytes, up to eight blocks.  The request sizes make exact fits, fits with too
  little to split, and remainders of every kind for the alignment of 8 units.
- `Console`: every width from 18 to 45 and height from 26 to 65 pixels, which
  covers every remainder modulo the cell size with one to four cells, and the
  fallback; `Word` stands for 2^32 and is only larger than any sum.
- `NvmeQueue`: rings of 4 entries passed many times (submission numbers are kept
  modulo 9, more than both rings hold).
- `SyscallEntry`: two values per argument register; saved registers all differ.

`CHECK_DEADLOCK FALSE` is set where the system really stops: after a fault or in
the `hlt` of `SYSCALL_HALT` (`Kernel`), in the endless loops of `EfiMain` and
`KernelMain` (`Boot`), and after the one call of `SyscallEntry`.

### Fairness

- `FairSchedSpec`: the user keeps pressing CapsLock; without it nothing promises
  another task a turn, since the timer does not preempt (`timer.c:7-11`).
- `FairKernelSpec`: weak fairness of kernel code (the CPU executes the next
  instruction; with interrupts off nothing else can happen), of leaving boot and
  of the NVMe controller's answer; strong fairness of each interrupt, since IF
  goes on and off with every system call and a pending interrupt is taken at one
  of the instructions where it is on.
- `FairBootSpec`: the same, with strong fairness of boot's next step: interrupts
  disable it again and again, but a timer period is much longer than its
  handler, so the interrupted code gets most of it.  `BootEnds` excepts
  behaviours in which CapsLock gave the CPU to a task that keeps it: nothing in
  the code takes it back.  `KernelRuns`, the kernel's code, is weakly fair and
  includes `SyscallHalt`; nothing ends the `hlt` behind it, and
  `ControllerAnswers` needs a controller to be there.
- `NvmeQueue!FairSpec`: weak fairness of the polling CPU and of the controller,
  never of submitting a read or a write.

## 4. What is proved

The proofs hold for every value of the constants: for the real table, bitmap
and heap sizes, ring lengths, tree depth and width, resolutions, memory maps and
machines.  Every safety invariant, action property and refinement that a passing
run checks is a theorem of its specification.  Each module has an inductive
invariant, which TLC checked on the run before it was proved, lemmas for the
initial state and for each action, and theorems that follow by one temporal
step.  `PROJECT.json` lists the theorems.

**Pages** (`Pages_proofs`).  What a non-NULL answer of the first-fit scan gives
its caller; every component that takes pages cites it.

**Page allocator** (`PageTables_proofs`, first part).  Types, `BlocksDisjoint`,
`BlocksUsable`, `BitmapExact` and the refinement of `PageOwner`.  The invariant is
the conjunction of the four: an allocation keeps blocks apart only because
every block's bits are set, and a free keeps the bitmap exact only because
blocks are apart.

**Page tables** (`PageTables_proofs`, second part).  A behaviour of the page tables
is one of the page allocator (`TablesUseAllocator`), so the above holds with them
on top, and a page taken for a table stays with the tables (`TablesHeld`).
`TreeOfTables` speaks of paths and is not inductive.  `TablesInv` gives every
table a level instead: an entry of a table of level *l* points to a table of the
level below, no two entries to the same one, every table but the root is
pointed to, and a `PageTable_Map` in progress is on the table that the walk of its
page finds.  A page is determined by its indices
(`IndicesDetermine`, a positional notation for any width), so two pages have
different last entries (`TreeInjective`) and one write changes one translation.
From this follow the tree shape, `TlbCoherent`, `DevicesSupervisor` (boot's requests
for the interrupt controllers come last and are never mapped over) and the
refinement of `AddressSpace`.

**Scheduler** (`Kernel_proofs`, first part).  Types, `Resumable`, `StacksApart`,
`PagesAccounted` and `SlotsUsedOnce`.  The invariant `Inv` adds `TaskFields`, what the
fields of a TCB mean.  The heart is `TerminateStep`: freeing the stack of the
task that ends leaves every waiting task's frame allocated, because that frame
is on the task's own stack, its kernel stack or the stack in TSS.RSP0
(`FramePage`), all apart from the stack freed.  `ClaimStep` and `LoseStep` are the
two ways a start can end.  For the refinement of `RoundRobin` the ring is the
list of live slots by `Turn`, the number of passes after which the search
`(current + d) % total_tasks` reaches a slot (`AfterTurn`).  There is one such list
(`SameRing`, by the place where two would first differ) and it has as many
places as there are live slots (`RingIs`); that there is one is
kept by every step, which builds the next list from the last: rotated by a switch,
without its head after an end, with the new slot right before slot 0 after a
start, unchanged when a start fails.

**Kernel** (`Kernel_proofs`, second part).  `KInv` is `KernelTypeOK`, the scheduler's
`Inv`, and four parts: `FramesOnStacks` (what each stack page holds), `Handling` (whose
frame the handler has), `Running` (registers, stack and the two copies of the
user's stack pointer are one thread's) and `InService` (the only interrupt in
service is the one whose handler runs).  It gives
`KernelTaskContexts`, `FirstFrameIntact`, `StackMatchesRegisters` and
`Acknowledged`, and that every step is one of `Scheduler` or leaves it alone.
Hence `SchedulerOnMachine`: what is proved of the scheduler, the round-robin order
included, holds under every order of interrupts, system calls and switches.

**Boot** (`Boot_proofs`).  `BootInv` has two halves.  `ContextInv`: every waiting thread
has its whole context on a page of its own (`SavedContexts`), the current one is in the
CPU or on its page (`CurrentContext`), the save area of system calls is the main
task's, and no vector is requested before `handler_table` has its entry
(`Vectors`).  The scheduler's `Inv` is *not* invariant here: the main task may
wait on the boot stack, which is not where an interrupt from ring 3 would save
it; `StacksOfTasks` takes its place.  `DeviceInv` says what was
found so far in the walk over the MADT and in the scan of the buses.  The halves
meet only in `Vectors`.  They give `ContextPreserved` and `DevicesFound`.

**Heap** (`Heap_proofs`).  `ListTilesHeap` is not inductive: it admits headers off the
list that form a second chain across the first.  `HeapInv` has `Tiling`, in
which no two blocks overlap and every block but the first is somebody's next, no
free neighbours, and callers' pointers on exactly the blocks in use.  Splitting,
carving an aligned block and merging on both sides each keep it; it gives
`ListTilesHeap`, `NoAdjacentFree` and `HeldBlocks`.

**System call entry** (`SyscallEntry_proofs`).  `EntryInv` gives the depth of the stack
as a function of the instruction, what lies at each depth, and which
registers still hold the user's values: each copy reads its source before it is
overwritten.  It gives `ArgumentsArrive` and `UserResumes`.

**NVMe queue** (`NvmeQueue_proofs`).  `QInv`: the phase bits split the completion ring
into the entries of this pass and those left from the one before
(`PhasesSplit`); the one outstanding command is still in the submission ring, being
executed, or answered by the one entry the driver has not seen
(`OneCommand`); and the controller is not reset once the rings are in use
(`StaysEnabled`).  It gives `OwnCompletion` and `Drained`.

**Console** (`Console_proofs`).  Types and `DrawnOnScreen`, of the characters that
`SYSCALL_PRINT` draws, for every resolution that has room for a cell.  The invariant adds where the cursor can be.

Assumptions are those of the modules (`...Assumption`), which TLC evaluates on
every run.  Most bound the constants.  Those that say something of the machine:

- `SchedulerAssumption`, `KernelAssumption`: RSP0's page and the boot stack are in
  use when the scheduler starts, and are two pages;
- `TableSizeAssumption`: one page is among the sizes asked for, as a table is one;
- `LayoutAssumption`: all that boot maps lies in the address space of the tree;
- `DeviceAssumption`: the interrupt controllers' registers are neither in the
  stack nor in another device's registers (a region of the memory map may
  list them);
- `BootAssumption`: the machines are any set of machines (`Machine`);
- `OneUserThread`: in `Boot` user mode makes no `SYSCALL_EXEC`, as `UserMain` makes none;
- `QueueAssumption`: a ring has at least two entries, and the commands of reads
  and writes have IDs of their own;
- `ScreenAssumption`: the screen has room for one character and below 2^32
  pixels in each direction.

Only model-checked is liveness (`NoStarvation`, `RoutedKeysAnswered`, `BootEnds`,
`WaitEnds`): it rests on fairness, and ENABLED is beyond the prover.

## 5. What is not modelled

- Register encodings: descriptors of the GDT and IDT, LAPIC and I/O APIC
  registers, the calibration of the timer, configuration space accesses.
- Where things lie: the models assume that the boot stack and page 0 are no
  memory the allocator hands out, that addresses are identity-mapped throughout,
  as the code assumes too, and that the MADT names the I/O APIC's usual address.
- After a mapping that ran out of memory, any further one: the code goes on with the
  next page (`memory.c:167-173`, `208-213`), `PageTables` begins none.  A later mapping
  would take page 0 for a table, follow entries that earlier ones wrote there
  into data pages and write there, so nothing that the properties say of
  tables holds from then on.  `TablesHeld` and `ImplementsAddressSpace` speak of the
  time up to the end of the first mapping that failed.  Boot's large allocations are taken to
  succeed, except the heap's.
- Firmware's interrupt requests that are pending when `KernelMain` starts;
  `KernelMain` is taken to run with interrupts off until `sti`.
- An MADT entry of length 0, with which the walk would not end.
- The timer's tick count and `Timer_Sleep`, `last_char` and
  `Keyboard_GetLastChar`: nothing in the repository calls the readers, so there
  is no caller to put in a model.
- Texts at fixed coordinates (`Graphics_Print`, the key that `Keyboard_Handler`
  echoes): `Console` is the cursor of `SYSCALL_PRINT`, and on a screen of fewer than
  696 lines some of the others lie below its edge (`nvme.c:161`, `main.c:231`).
- Pixels, colours, fonts, message texts; `libc.c`; the declarations of `efi.h`.
- Contents of memory other than saved contexts and tables.  A thread stays
  within its own stack, and a task never returns from its function.

## 6. Plan

Done in this order: `Pages`, `PageAllocator`, `Scheduler`, `Kernel` (the most
important behaviour), `Heap`, `SyscallEntry`, `Console`, `NvmeQueue`,
`PageTables`, `Boot`, and the proofs above, of every safety property and every
refinement.  What is left:

1. Mappings begun after one that ran out of memory (`exhausted` in `PageTables`): worth a
   model once the code handles that case; until then only the allocator's
   properties survive it.
2. The contents of the timer's count and of `last_char`, once something in the repository
   reads them.
