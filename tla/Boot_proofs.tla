----------------------------- MODULE Boot_proofs -----------------------------
(***************************************************************************)
(* Proofs about Boot for every machine, memory map and table size: with    *)
(* one ring-3 thread, which was boot, and any number of ring-0 tasks no    *)
(* context is ever lost, and the devices found are the right ones,         *)
(* whatever interrupts and switches come between the steps of KernelMain.  *)
(***************************************************************************)
EXTENDS Boot, Pages_proofs

(* Where thread i continues when its frame is restored, and the page that  *)
(* frame is saved on (gdt.c:100, interrupt.c:188, schedule.c:26-51): the   *)
(* main task moves from the boot stack to TSS.RSP0 when it enters ring 3.  *)
Origin(i) == IF i # 0 THEN "ring0" ELSE IF stage = "user" THEN "user" ELSE "boot"

Home(i) == IF i # 0 THEN tasks[i].stack_base ELSE IF stage = "user" THEN Rsp0 ELSE BootStack

(* The live tasks and their stacks: a page each, in use, none of boot's.   *)
StacksOfTasks ==
  /\ {0, current_task_index} \subseteq ActiveSlots
  /\ ActiveSlots \subseteq 0 .. (total_tasks - 1)
  /\ BootUsed \subseteq bitmap
  /\ \A i \in ActiveSlots \ {0} :
       /\ tasks[i].stack_pages = 1
       /\ tasks[i].stack_base \in bitmap \ (BootUsed \cup {NULL})
       /\ \A j \in ActiveSlots \ {0, i} : tasks[j].stack_base # tasks[i].stack_base

(* Every waiting thread has its whole context on its own page, and the     *)
(* table knows the page.                                                   *)
SavedContexts ==
  \A i \in ActiveSlots \ {current_task_index} :
    tasks[i].rsp = Home(i) /\ mem[Home(i)] = Frame(i, Origin(i))

(* The current thread is in the CPU, or on its page while a handler runs;  *)
(* the program point tells which thread it is.                             *)
CurrentContext ==
  LET c == current_task_index
  IN  IF cpu.pc \in {"isr", "iret"}
        THEN cpu.sp = Home(c) /\ mem[Home(c)] = Frame(c, Origin(c))
        ELSE /\ cpu.regs = c /\ cpu.stack = c
             /\ cpu.pc = "ring0" <=> c # 0
             /\ cpu.pc = "boot" <=> c = 0 /\ stage # "user"

(* Only the main task makes system calls, so their one save area is its.   *)
SyscallContext == (\A g \in DOMAIN scratch : scratch[g] = 0) /\ mem[Rsp0].regs = 0

EarlyStage == EfiStage \cup {"acpi", "tables", "madt", "lapic"}

(* Every vector that is requested or handled has an entry in handler_table:*)
(* the devices that could raise one are started after it is filled.        *)
Vectors ==
  /\ handlers \in {{}, Vector} /\ irr \subseteq handlers
  /\ stage \in EarlyStage => handlers = {}
  /\ stage = "controllers" => handlers = Vector
  /\ routed # 0 => handlers = Vector
  /\ cpu.if => cpu.pc \in Thread \cup {"boot"}
  /\ cpu.pc = "isr" => cpu.vec \in handlers
  /\ cpu.pc # "dead"

ContextInv ==
  KernelTypeOK /\ StacksOfTasks /\ SavedContexts /\ CurrentContext /\ SyscallContext /\ Vectors

(* What was found so far: the functions on the devices before `at' in scan *)
(* order, and the MADT entries before `entry'.                             *)
AfterScan == {"nvme", "kernel_stack", "user_stack", "ring3", "user"}

Passed(f) == f[1] < at[1] \/ (f[1] = at[1] /\ f[2] < at[2])

NvmePassed == {f.at : f \in {g \in machine.pci : g.nvme /\ Visible(g) /\ Passed(g.at)}}

ScanSoFar ==
  /\ bus_master = NvmePassed
  /\ IF NvmePassed = {} THEN g_nvme = <<>>
     ELSE g_nvme \in NvmePassed /\ \A f \in NvmePassed \ {g_nvme} : Later(g_nvme, f)

IsIoapic(e) == machine.controllers[e] = "IOAPIC"

WalkSoFar ==
  /\ entry \in 1 .. (Len(machine.controllers) + 1)
  /\ routed \in 0 .. Len(machine.controllers)
  /\ stage \in EarlyStage \cup {"controllers"} =>
       routed = 0 /\ \A e \in 1 .. (entry - 1) : ~IsIoapic(e)
  /\ stage \in {"sti", "scan"} \cup AfterScan =>
       \A e \in 1 .. Len(machine.controllers) : IsIoapic(e) => routed \in 1 .. e

Position ==
  /\ at \in (0 .. (LastBus + 1)) \X (0 .. LastDevice)
  /\ stage \in EarlyStage \cup {"controllers", "sti"} => at = <<0, 0>>
  /\ stage = "scan" => at[1] \in 0 .. LastBus
  /\ stage \in AfterScan => at = <<LastBus + 1, 0>>

Stages ==
  /\ machine \in Machines
  /\ stage \in EfiStage \cup KernelStage \cup EndStage
  /\ map_version \in 0 .. MaxChanges /\ map_key \in 0 .. map_version
  /\ g_xsdt \in BOOLEAN /\ missed \in BOOLEAN

DeviceInv == Stages /\ Position /\ WalkSoFar /\ ScanSoFar

(* The inductive invariant: the two halves meet only in Vectors, where the *)
(* devices wait for the handlers.                                          *)
BootInv == ContextInv /\ DeviceInv

-----------------------------------------------------------------------------
(* Every live thread has a page of its own to be saved on, and it is in    *)
(* use.                                                                    *)
LEMMA HomePages ==
  ASSUME TypeOK, StacksOfTasks
  PROVE  /\ {Rsp0, BootStack} \subseteq BootUsed \ {NULL} /\ BootUsed \subseteq Page
         /\ Rsp0 # BootStack /\ 0 \in Slot
         /\ current_task_index \in ActiveSlots /\ current_task_index \in Slot
         /\ \A i \in ActiveSlots :
              /\ Home(i) \in bitmap /\ Home(i) \in Page
              /\ i # 0 => Home(i) \notin BootUsed
              /\ \A j \in ActiveSlots \ {i} : Home(i) # Home(j)
<1>1. /\ {Rsp0, BootStack} \subseteq BootUsed \ {NULL} /\ BootUsed \subseteq Page
      /\ Rsp0 # BootStack
  BY SchedulerAssumption, KernelAssumption
<1>2. 0 \in Slot /\ current_task_index \in ActiveSlots /\ current_task_index \in Slot
  BY DEF StacksOfTasks, ActiveSlots
<1>3. bitmap \subseteq Page /\ BootUsed \subseteq bitmap
  BY DEF TypeOK, StacksOfTasks
<1>4. \A i \in ActiveSlots : Home(i) \in bitmap /\ (i # 0 => Home(i) \notin BootUsed)
  BY <1>1, <1>3 DEF StacksOfTasks, Home
<1>5. \A i \in ActiveSlots : \A j \in ActiveSlots \ {i} : Home(i) # Home(j)
  <2> SUFFICES ASSUME NEW i \in ActiveSlots, NEW j \in ActiveSlots, i # j
               PROVE  Home(i) # Home(j)
    OBVIOUS
  <2>1. Home(0) \in BootUsed
    BY <1>1 DEF Home
  <2>2. CASE i = 0 \/ j = 0
    BY <1>4, <2>1, <2>2
  <2>3. CASE i # 0 /\ j # 0
    BY <2>3 DEF StacksOfTasks, Home
  <2>4. QED
    BY <2>2, <2>3
<1>6. QED
  BY <1>1, <1>2, <1>3, <1>4, <1>5

LEMMA ContextInit == BootInit => ContextInv
<1> SUFFICES ASSUME BootInit PROVE ContextInv
  OBVIOUS
<1> USE DEF BootInit, KernelInit, SchedInit
<1>1. 0 \in Slot /\ MAX_TASKS \in Nat \ {0} /\ NULL \in Page
  BY SchedulerAssumption, MaxPagesAssumption DEF Slot, NULL, Page
<1>2. TypeOK
  <2>1. \A i \in Slot : [NoTask EXCEPT !.active = (i = 0)] \in TCB
    BY <1>1 DEF NoTask, TCB
  <2>2. QED
    BY <1>1, <2>1, SchedulerAssumption DEF TypeOK
<1>3. KernelTypeOK
  <2>1. cpu \in CPU
    BY <1>1 DEF CPU, Point, Thread
  <2>2. [Frame(0, "boot") EXCEPT !.kind = "empty"] \in Saved
    BY <1>1 DEF Frame, Saved, Point
  <2>3. QED
    BY <1>1, <1>2, <2>1, <2>2 DEF KernelTypeOK
<1>4. ActiveSlots = {0} /\ current_task_index = 0
  BY <1>1 DEF ActiveSlots, NoTask
<1>5. StacksOfTasks
  <2>1. total_tasks = 1 /\ 0 \in 0 .. (total_tasks - 1)
    OBVIOUS
  <2>2. QED
    BY <1>4, <2>1 DEF StacksOfTasks
<1>6. SavedContexts /\ CurrentContext
  BY <1>4 DEF SavedContexts, CurrentContext
<1>7. SyscallContext
  <2>1. Rsp0 \in Page
    BY SchedulerAssumption
  <2>2. QED
    BY <2>1 DEF SyscallContext, Frame
<1>8. Vectors
  BY DEF Vectors, EarlyStage, EfiStage
<1>9. QED
  BY <1>3, <1>5, <1>6, <1>7, <1>8 DEF ContextInv

(* A step that leaves the task table and the stage alone moves no thread.  *)
LEMMA SameHomes ==
  ASSUME UNCHANGED schedVars, stage' = "user" <=> stage = "user"
  PROVE  /\ current_task_index' = current_task_index /\ tasks' = tasks /\ bitmap' = bitmap
         /\ total_tasks' = total_tasks /\ ActiveSlots' = ActiveSlots
         /\ \A i : Home(i)' = Home(i) /\ Origin(i)' = Origin(i)
         /\ (TypeOK => TypeOK') /\ (StacksOfTasks => StacksOfTasks')
<1>1. /\ current_task_index' = current_task_index /\ tasks' = tasks /\ bitmap' = bitmap
      /\ total_tasks' = total_tasks /\ ActiveSlots' = ActiveSlots
      /\ kstack' = kstack /\ lost' = lost
  BY DEF schedVars, tableVars, ActiveSlots
<1>2. \A i : Home(i)' = Home(i) /\ Origin(i)' = Origin(i)
  BY <1>1 DEF Home, Origin
<1>3. (TypeOK => TypeOK') /\ (StacksOfTasks => StacksOfTasks')
  BY <1>1 DEF TypeOK, StacksOfTasks
<1>4. QED
  BY <1>1, <1>2, <1>3

(* A step that writes no stack only has to keep the CPU, the save areas of *)
(* system calls and the devices in order.                                  *)
LEMMA QuietContext ==
  ASSUME ContextInv, UNCHANGED <<schedVars, mem>>, stage' = "user" <=> stage = "user",
         cpu' \in CPU, scratch' \in [{"user", "cpu_data"} -> Slot],
         isr' \subseteq Vector, key' \in Keys \cup {None},
         CurrentContext', SyscallContext', Vectors'
  PROVE  ContextInv'
<1>1. TypeOK' /\ StacksOfTasks'
  BY SameHomes DEF ContextInv, KernelTypeOK
<1>2. SavedContexts'
  BY SameHomes DEF ContextInv, SavedContexts
<1>3. irr' \subseteq Vector /\ mem' \in [Page -> Saved]
  BY DEF Vectors, ContextInv, KernelTypeOK
<1>4. KernelTypeOK'
  BY <1>1, <1>3 DEF KernelTypeOK
<1>5. QED
  BY <1>1, <1>2, <1>4 DEF ContextInv

(* The steps of EfiMain and KernelMain that leave the machine alone: all   *)
(* but sti and the step into user mode.                                    *)
QuietBoot ==
  \/ LocateGop \/ LoadedImage \/ GetMemoryMap \/ ExitBootServices
  \/ ACPI_Init \/ DescriptorTables \/ FindMadt \/ LapicSetup \/ WalkMadt
  \/ PCI_CheckDevice \/ NVMe_Init \/ KernelStack \/ UserStack

LEMMA QuietBootStep ==
  ASSUME BootInv, QuietBoot
  PROVE  ContextInv'
<1> USE DEF BootInv, ContextInv
<1>1. UNCHANGED kernelVars /\ cpu.pc = "boot"
  BY DEF QuietBoot, LocateGop, LoadedImage, GetMemoryMap, ExitBootServices, ACPI_Init,
     DescriptorTables, FindMadt, LapicSetup, WalkMadt, PCI_CheckDevice, NVMe_Init,
     KernelStack, UserStack, Step
<1>2. UNCHANGED <<schedVars, cpu, mem, scratch, irr, isr, key>>
  BY <1>1 DEF kernelVars
<1>3. stage # "user" /\ stage' # "user" /\ Vectors'
  <2>1. CASE LocateGop \/ LoadedImage \/ GetMemoryMap \/ ExitBootServices
    <3>1. UNCHANGED <<handlers, routed>> /\ stage \in EfiStage
      BY <2>1 DEF LocateGop, LoadedImage, GetMemoryMap, ExitBootServices, Step, EfiStage, acpiVars
    <3>2. stage' \in EfiStage \cup {"efi_hang", "acpi"}
      BY <2>1 DEF LocateGop, LoadedImage, GetMemoryMap, ExitBootServices, Step, EfiStage, Retry
    <3>3. QED
      BY <1>2, <3>1, <3>2 DEF Vectors, EarlyStage, EfiStage
  <2>2. CASE ACPI_Init \/ DescriptorTables \/ FindMadt
    <3>1. /\ stage \in {"acpi", "tables", "madt"} /\ stage' \in {"tables", "madt", "lapic", "halted"}
          /\ handlers' \in {handlers, {}} /\ routed' = routed
      BY <2>2 DEF ACPI_Init, DescriptorTables, FindMadt, Step, acpiVars
    <3>2. QED
      BY <1>2, <3>1 DEF Vectors, EarlyStage, EfiStage
  <2>3. CASE LapicSetup
    <3>1. stage = "lapic" /\ stage' = "controllers" /\ handlers' = Vector /\ routed' = routed
      BY <2>3 DEF LapicSetup, Step, acpiVars, Vector
    <3>2. QED
      BY <1>2, <3>1 DEF Vectors, EarlyStage, EfiStage
  <2>4. CASE WalkMadt
    <3>1. /\ stage = "controllers" /\ stage' \in {"controllers", "sti"} /\ handlers' = handlers
      BY <2>4 DEF WalkMadt, Step
    <3>2. QED
      BY <1>2, <3>1 DEF Vectors, EarlyStage, EfiStage
  <2>5. CASE PCI_CheckDevice \/ NVMe_Init \/ KernelStack \/ UserStack
    <3>1. /\ stage \in {"scan", "nvme", "kernel_stack", "user_stack"}
          /\ stage' \in {"scan", "nvme", "kernel_stack", "user_stack", "ring3", "hang"}
          /\ UNCHANGED <<handlers, routed>>
      BY <2>5 DEF PCI_CheckDevice, NVMe_Init, KernelStack, UserStack, Step, acpiVars
    <3>2. QED
      BY <1>2, <3>1 DEF Vectors, EarlyStage, EfiStage
  <2>6. QED
    BY <2>1, <2>2, <2>3, <2>4, <2>5 DEF QuietBoot
<1>4. CurrentContext' /\ SyscallContext'
  BY <1>2, <1>3, SameHomes DEF CurrentContext, SyscallContext
<1>5. QED
  BY <1>2, <1>3, <1>4, QuietContext DEF KernelTypeOK

(* From here on interrupts arrive (main.c:187).                            *)
LEMMA StiStep ==
  ASSUME BootInv, Sti
  PROVE  ContextInv'
<1> USE DEF BootInv, ContextInv
<1>1. /\ UNCHANGED <<schedVars, mem, scratch, irr, isr, key, handlers, routed>>
      /\ cpu.pc = "boot" /\ cpu' = [cpu EXCEPT !.if = TRUE]
      /\ stage = "sti" /\ stage' = "scan"
  BY DEF Sti, Step, acpiVars
<1>2. cpu \in CPU
  BY DEF KernelTypeOK
<1>3. cpu' \in CPU /\ cpu'.pc = "boot" /\ cpu'.regs = cpu.regs /\ cpu'.stack = cpu.stack
  BY <1>1, <1>2 DEF CPU
<1>4. CurrentContext' /\ SyscallContext'
  BY <1>1, <1>3, SameHomes DEF CurrentContext, SyscallContext
<1>5. Vectors'
  BY <1>1, <1>3 DEF Vectors, EarlyStage, EfiStage
<1>6. QED
  BY <1>1, <1>3, <1>4, <1>5, QuietContext DEF KernelTypeOK

(* Only the main task changes its page and its ring, and it is running.    *)
LEMMA EnterUserModeStep ==
  ASSUME BootInv, EnterUserMode
  PROVE  ContextInv'
<1> DEFINE c == current_task_index
<1> USE DEF BootInv, ContextInv
<1>1. /\ UNCHANGED <<schedVars, mem, scratch, irr, isr, key, handlers, routed>>
      /\ cpu.pc = "boot" /\ cpu' = [cpu EXCEPT !.pc = "user", !.if = TRUE]
      /\ stage = "ring3" /\ stage' = "user"
  BY DEF EnterUserMode, SwitchToUserMode, Step, acpiVars
<1>2. cpu \in CPU /\ c = 0
  BY <1>1 DEF KernelTypeOK, CurrentContext
<1>3. cpu' \in CPU /\ cpu'.pc = "user" /\ cpu'.regs = cpu.regs /\ cpu'.stack = cpu.stack
  BY <1>1, <1>2 DEF CPU, Point, Thread
<1>4. /\ current_task_index' = c /\ tasks' = tasks /\ bitmap' = bitmap
      /\ total_tasks' = total_tasks /\ ActiveSlots' = ActiveSlots
      /\ kstack' = kstack /\ lost' = lost
  BY <1>1 DEF schedVars, tableVars, ActiveSlots
<1>5. \A i \in ActiveSlots \ {c} : Home(i)' = Home(i) /\ Origin(i)' = Origin(i)
  BY <1>2, <1>4 DEF Home, Origin
<1>6. TypeOK' /\ StacksOfTasks'
  BY <1>4 DEF KernelTypeOK, TypeOK, StacksOfTasks
<1>7. SavedContexts'
  BY <1>1, <1>4, <1>5 DEF SavedContexts
<1>8. CurrentContext' /\ SyscallContext'
  BY <1>1, <1>2, <1>3, <1>4 DEF CurrentContext, SyscallContext
<1>9. Vectors'
  BY <1>1, <1>3 DEF Vectors, EarlyStage, EfiStage, Thread
<1>10. KernelTypeOK'
  BY <1>1, <1>3, <1>6 DEF KernelTypeOK
<1>11. QED
  BY <1>6, <1>7, <1>8, <1>9, <1>10

(* A task that is started gets a page that nobody had, and its first frame *)
(* is on it (schedule.c:26-51).                                            *)
LEMMA StartTaskStep ==
  ASSUME BootInv, AddTask
  PROVE  ContextInv'
<1> DEFINE c == current_task_index
           t == total_tasks
<1> USE DEF BootInv, ContextInv, KernelTypeOK
<1>1. /\ UNCHANGED <<cpu, scratch, irr, isr, key, stage, handlers, routed>>
      /\ cpu.pc = "boot" /\ FirstFrame("ring0") /\ Scheduler_AddTask
  BY DEF AddTask, BootAddTask, bootVars, acpiVars
<1>2. c = 0 /\ TypeOK /\ mem \in [Page -> Saved]
  BY <1>1 DEF CurrentContext
<1> PICK s \in Page \ {NULL} :
       /\ AllocReturns(bitmap, TotalPages, 1, s)
       /\ bitmap' = AllocMarks(bitmap, s, 1)
       /\ IF TableFull
            THEN lost' = lost \cup {s} /\ UNCHANGED tableVars
            ELSE /\ tasks' = [tasks EXCEPT ![t] =
                      [rsp |-> s, active |-> TRUE, stack_base |-> s, stack_pages |-> 1]]
                 /\ total_tasks' = t + 1
                 /\ UNCHANGED <<current_task_index, lost>>
       /\ UNCHANGED kstack
  BY <1>1 DEF Scheduler_AddTask
<1>3. s \notin bitmap /\ bitmap' = bitmap \cup {s}
  <2>1. Run(s, 1) = {s}
    BY MaxPagesAssumption DEF Run, Page
  <2>2. TotalPages \in 0 .. (MAX_PAGES - 1)
    BY SchedulerAssumption
  <2>3. QED
    BY <2>1, <2>2, AllocGrants DEF AllocMarks
<1>4. t \in 1 .. MAX_TASKS /\ t \notin ActiveSlots /\ MAX_TASKS \in Nat \ {0}
  BY SchedulerAssumption DEF TypeOK, StacksOfTasks
<1>5. CASE TableFull
  <2>1. UNCHANGED <<tasks, current_task_index, total_tasks, kstack>> /\ lost' = lost \cup {s}
    BY <1>5 DEF tableVars
  <2>2. mem' = mem
    <3>1. t \in Slot => ~tasks[t].active
      BY <1>4 DEF ActiveSlots
    <3>2. QED
      BY <1>1, <2>1, <3>1 DEF FirstFrame
  <2>3. TypeOK'
    BY <1>3, <2>1 DEF TypeOK
  <2>4. /\ ActiveSlots' = ActiveSlots
        /\ \A i \in Slot : Home(i)' = Home(i) /\ Origin(i)' = Origin(i)
    BY <1>1, <2>1 DEF ActiveSlots, Home, Origin
  <2>5. StacksOfTasks'
    BY <1>3, <2>1, <2>4 DEF StacksOfTasks
  <2>6. SavedContexts'
    BY <2>1, <2>2, <2>4 DEF SavedContexts, ActiveSlots
  <2>7. CurrentContext' /\ SyscallContext' /\ Vectors'
    BY <1>1, <2>1, <2>2 DEF CurrentContext, SyscallContext, Vectors, EarlyStage, EfiStage
  <2>8. QED
    BY <1>1, <2>2, <2>3, <2>5, <2>6, <2>7
<1>6. CASE ~TableFull
  <2>1. t \in Slot /\ t # 0
    BY <1>4, <1>6 DEF TableFull, Slot
  <2>2. /\ tasks' = [tasks EXCEPT ![t] =
              [rsp |-> s, active |-> TRUE, stack_base |-> s, stack_pages |-> 1]]
        /\ total_tasks' = t + 1
        /\ UNCHANGED <<current_task_index, lost, kstack>>
    BY <1>6
  <2>3. /\ \A i \in Slot : i # t => tasks'[i] = tasks[i]
        /\ tasks'[t].rsp = s /\ tasks'[t].active /\ tasks'[t].stack_base = s
        /\ tasks'[t].stack_pages = 1
    BY <2>1, <2>2 DEF TypeOK
  <2>4. ActiveSlots' = ActiveSlots \cup {t}
    BY <2>1, <2>3 DEF ActiveSlots
  <2>5. TypeOK'
    <3>1. [rsp |-> s, active |-> TRUE, stack_base |-> s, stack_pages |-> 1] \in TCB
      BY DEF TCB
    <3>2. bitmap' \subseteq Page
      BY <1>3 DEF TypeOK
    <3>3. t + 1 \in 1 .. MAX_TASKS
      BY <1>4, <2>1 DEF Slot
    <3>4. QED
      BY <2>1, <2>2, <3>1, <3>2, <3>3 DEF TypeOK
  <2>6. Frame(t, "ring0") \in Saved
    BY <2>1 DEF Frame, Saved, Thread, Point
  <2>7. /\ mem' \in [Page -> Saved]
        /\ \A p \in Page : mem'[p] = IF p = s THEN Frame(t, "ring0") ELSE mem[p]
    BY <1>1, <1>2, <2>1, <2>3, <2>6 DEF FirstFrame
  <2>8. /\ \A i \in ActiveSlots : Home(i)' = Home(i) /\ Origin(i)' = Origin(i)
        /\ \A i \in {t} : Home(i)' = s /\ Origin(i)' = "ring0"
    <3>1. \A i \in ActiveSlots : i \in Slot /\ i # t
      BY <1>4 DEF ActiveSlots
    <3>2. QED
      BY <1>1, <2>1, <2>3, <3>1 DEF Home, Origin
  <2>9. StacksOfTasks'
    <3>1. ActiveSlots' \subseteq 0 .. (total_tasks' - 1)
      <4>1. 0 .. (t - 1) \subseteq 0 .. t /\ total_tasks' - 1 = t
        BY <1>4, <2>2
      <4>2. t \in 0 .. t
        BY <1>4
      <4>3. QED
        BY <2>4, <4>1, <4>2 DEF StacksOfTasks
    <3>2. \A i \in ActiveSlots \ {0} : tasks[i].stack_base \in bitmap /\ tasks'[i] = tasks[i]
      BY <1>4, <2>3 DEF StacksOfTasks, ActiveSlots
    <3>3. s \notin BootUsed
      BY <1>3 DEF StacksOfTasks
    <3>4. \A i \in ActiveSlots' \ {0} :
            /\ tasks'[i].stack_pages = 1
            /\ tasks'[i].stack_base \in bitmap' \ (BootUsed \cup {NULL})
      BY <1>3, <2>3, <2>4, <3>2, <3>3 DEF StacksOfTasks
    <3>5. \A i \in ActiveSlots' \ {0} : \A j \in ActiveSlots' \ {0, i} :
            tasks'[j].stack_base # tasks'[i].stack_base
      BY <1>3, <2>3, <2>4, <3>2 DEF StacksOfTasks
    <3>6. QED
      BY <1>3, <2>2, <2>4, <3>1, <3>4, <3>5 DEF StacksOfTasks
  <2>10. SavedContexts'
    <3>1. ASSUME NEW i \in ActiveSlots, i # c
          PROVE  tasks'[i].rsp = Home(i)' /\ mem'[Home(i)'] = Frame(i, Origin(i)')
      <4>1. tasks'[i] = tasks[i] /\ Home(i) \in Page /\ Home(i) # s
        BY <1>3, <1>4, <2>3, HomePages DEF ActiveSlots
      <4>2. QED
        BY <2>7, <2>8, <3>1, <4>1 DEF SavedContexts
    <3>2. mem'[s] = Frame(t, "ring0")
      BY <2>7
    <3>3. QED
      BY <2>2, <2>3, <2>4, <2>8, <3>1, <3>2 DEF SavedContexts
  <2>11. CurrentContext' /\ SyscallContext' /\ Vectors'
    <3>1. mem'[Rsp0] = mem[Rsp0]
      BY <1>3, <2>7, HomePages DEF StacksOfTasks
    <3>2. QED
      BY <1>1, <2>2, <3>1 DEF CurrentContext, SyscallContext, Vectors, EarlyStage, EfiStage
  <2>12. QED
    BY <1>1, <2>5, <2>7, <2>9, <2>10, <2>11
<1>7. QED
  BY <1>5, <1>6

-----------------------------------------------------------------------------
(* Entering a handler saves the current thread on its own page: the boot   *)
(* stack before ring 3, TSS.RSP0 after it, the task's stack in ring 0      *)
(* (interrupt.c:188-207).                                                  *)
LEMMA InterruptStep ==
  ASSUME BootInv, NEW v \in Vector, BootInterrupt(v)
  PROVE  ContextInv'
<1> DEFINE c == current_task_index
<1> USE DEF BootInv, ContextInv, KernelTypeOK
<1>1. /\ cpu.if /\ v \in irr /\ irr' = irr \ {v} /\ isr' = isr \cup {v}
      /\ UNCHANGED <<schedVars, scratch, key, stage, handlers, routed>>
      /\ mem' = [mem EXCEPT ![PushAt] =
           [kind |-> "frame", regs |-> cpu.regs, stack |-> cpu.stack, pc |-> cpu.pc]]
      /\ cpu' = [cpu EXCEPT !.pc = "isr", !.if = FALSE, !.sp = PushAt, !.vec = v]
  BY DEF BootInterrupt, Interrupt, Enter, bootVars, acpiVars
<1>2. cpu.pc \in {"user", "ring0", "boot"} /\ cpu.regs = c /\ cpu.stack = c
  BY <1>1 DEF Vectors, CurrentContext, Thread
<1>3. PushAt = Home(c) /\ cpu.pc = Origin(c)
  BY <1>2 DEF CurrentContext, PushAt, Home, Origin, Entry
<1>4. c \in ActiveSlots /\ c \in Slot /\ Home(c) \in Page /\ Rsp0 \in Page
  BY HomePages
<1>5. /\ cpu' \in CPU /\ cpu'.pc = "isr" /\ cpu'.if = FALSE /\ cpu'.sp = Home(c) /\ cpu'.vec = v
  BY <1>1, <1>3, <1>4 DEF CPU, Point
<1>6. Frame(c, Origin(c)) \in Saved
  BY <1>2, <1>3, <1>4 DEF Frame, Saved, Point, Thread
<1>7. /\ mem' \in [Page -> Saved]
      /\ \A p \in Page : mem'[p] = IF p = Home(c) THEN Frame(c, Origin(c)) ELSE mem[p]
  BY <1>1, <1>2, <1>3, <1>4, <1>6 DEF Frame
<1>8. TypeOK' /\ StacksOfTasks'
  BY <1>1, SameHomes
<1>9. SavedContexts'
  <2> SUFFICES ASSUME NEW i \in ActiveSlots, i # c
               PROVE  tasks[i].rsp = Home(i) /\ mem'[Home(i)] = Frame(i, Origin(i))
    BY <1>1, SameHomes DEF SavedContexts
  <2>1. Home(i) \in Page /\ Home(i) # Home(c)
    BY <1>4, HomePages
  <2>2. QED
    BY <1>7, <2>1 DEF SavedContexts
<1>10. CurrentContext'
  <2>1. mem'[Home(c)] = Frame(c, Origin(c))
    BY <1>4, <1>7
  <2>2. QED
    BY <1>1, <1>5, <2>1, SameHomes DEF CurrentContext
<1>11. SyscallContext'
  <2>1. CASE c = 0
    BY <1>1, <1>4, <1>7, <2>1 DEF SyscallContext, Frame
  <2>2. CASE c # 0
    <3>1. Home(c) # Rsp0
      BY <1>4, <2>2, HomePages
    <3>2. QED
      BY <1>1, <1>4, <1>7, <3>1 DEF SyscallContext
  <2>3. QED
    BY <2>1, <2>2
<1>12. Vectors'
  BY <1>1, <1>5 DEF Vectors
<1>13. QED
  BY <1>1, <1>5, <1>7, <1>8, <1>9, <1>10, <1>11, <1>12

LEMMA TimerStep ==
  ASSUME BootInv, Timer_Handler, UNCHANGED bootVars
  PROVE  ContextInv'
<1> USE DEF BootInv, ContextInv, KernelTypeOK
<1>1. /\ cpu.pc = "isr" /\ cpu' = [cpu EXCEPT !.pc = "iret"] /\ isr' \subseteq isr
      /\ UNCHANGED <<schedVars, mem, scratch, irr, key, stage, handlers, routed>>
  BY DEF Timer_Handler, EOI, bootVars, acpiVars
<1>2. cpu' \in CPU /\ cpu'.pc = "iret" /\ cpu'.sp = cpu.sp /\ cpu'.if = cpu.if
  BY <1>1 DEF CPU, Point
<1>3. CurrentContext' /\ SyscallContext'
  BY <1>1, <1>2, SameHomes DEF CurrentContext, SyscallContext
<1>4. Vectors'
  BY <1>1, <1>2 DEF Vectors, Thread
<1>5. isr' \subseteq Vector
  BY <1>1
<1>6. QED
  BY <1>1, <1>2, <1>3, <1>4, <1>5, QuietContext

(* The frame goes with the thread: the handler that switches stores the    *)
(* page it was entered with and returns to the page of the thread it       *)
(* switches to (keyboard.c:49, schedule.c:128-141, 158-196).               *)
LEMMA KeyboardStep ==
  ASSUME BootInv, Keyboard_Handler, UNCHANGED bootVars
  PROVE  ContextInv'
<1> DEFINE c == current_task_index
           j == current_task_index'
<1> USE DEF BootInv, ContextInv, KernelTypeOK
<1>1. /\ cpu.pc = "isr" /\ cpu' = [cpu EXCEPT !.pc = "iret", !.sp = ToRestore]
      /\ key' = None /\ isr' \subseteq isr
      /\ UNCHANGED <<mem, scratch, irr, stage, handlers, routed>>
  BY DEF Keyboard_Handler, EOI, bootVars, acpiVars
<1>2. cpu.sp = Home(c) /\ mem[Home(c)] = Frame(c, Origin(c))
  BY <1>1 DEF CurrentContext
<1>3. c \in ActiveSlots /\ c \in Slot /\ Home(c) \in Page /\ 0 \in ActiveSlots
  BY HomePages DEF StacksOfTasks
<1>4. isr' \subseteq Vector /\ key' \in Keys \cup {None}
  BY <1>1
<1>5. CASE UNCHANGED schedVars
  <2>1. ToRestore = cpu.sp
    BY <1>5 DEF ToRestore, schedVars, tableVars
  <2>2. cpu' \in CPU /\ cpu'.pc = "iret" /\ cpu'.sp = cpu.sp /\ cpu'.if = cpu.if
    BY <1>1, <1>2, <1>3, <2>1 DEF CPU, Point
  <2>3. CurrentContext' /\ SyscallContext'
    BY <1>1, <1>2, <1>5, <2>2, SameHomes DEF CurrentContext, SyscallContext
  <2>4. Vectors'
    BY <1>1, <2>2 DEF Vectors, Thread
  <2>5. QED
    BY <1>1, <1>4, <1>5, <2>2, <2>3, <2>4, QuietContext
<1>6. CASE ~UNCHANGED schedVars
  <2>1. \/ Scheduler_Switch(cpu.sp)
        \/ Scheduler_TerminateCurrentTask
    BY <1>6 DEF Keyboard_Handler
  <2>2. /\ j \in ActiveSlots \ {c} /\ UNCHANGED <<total_tasks, kstack, lost>>
        /\ bitmap' \subseteq bitmap /\ BootUsed \subseteq bitmap'
        /\ \A i \in ActiveSlots \ {0, c} : tasks[i].stack_base \in bitmap'
        /\ tasks' \in [Slot -> TCB]
        /\ \A i \in Slot : i # c => tasks'[i] = tasks[i]
        /\ tasks'[c].active => /\ tasks'[c] = [tasks[c] EXCEPT !.rsp = Home(c)]
                               /\ bitmap' = bitmap
        /\ ~tasks'[c].active => c # 0
    <3>1. CASE Scheduler_Switch(cpu.sp)
      <4>1. /\ j \in ActiveSlots \ {c} /\ UNCHANGED <<bitmap, total_tasks, kstack, lost>>
            /\ tasks' = [tasks EXCEPT ![c].rsp = Home(c)]
        BY <1>2, <1>6, <3>1 DEF Scheduler_Switch, NextIn, SaveRsp
      <4>2. tasks \in [Slot -> TCB] /\ BootUsed \subseteq bitmap
        BY DEF TypeOK, StacksOfTasks
      <4>3. [tasks[c] EXCEPT !.rsp = Home(c)] \in TCB
        BY <1>3, <4>2 DEF TCB
      <4>4. \A i \in ActiveSlots \ {0, c} : tasks[i].stack_base \in bitmap'
        BY <4>1 DEF StacksOfTasks
      <4>5. tasks'[c] = [tasks[c] EXCEPT !.rsp = Home(c)] /\ tasks'[c].active
        BY <1>3, <4>1, <4>2, <4>3 DEF TCB, ActiveSlots
      <4>6. QED
        BY <1>3, <4>1, <4>2, <4>3, <4>4, <4>5
    <3>2. CASE Scheduler_TerminateCurrentTask
      <4> DEFINE b == tasks[c].stack_base
      <4>1. c # 0
        BY <1>6, <3>2 DEF Scheduler_TerminateCurrentTask
      <4>2. /\ tasks \in [Slot -> TCB] /\ bitmap \subseteq Page /\ NULL \in Page
        BY MaxPagesAssumption DEF TypeOK, NULL, Page
      <4>3. /\ BootUsed \subseteq bitmap /\ tasks[c].stack_pages = 1
            /\ b \in bitmap \ (BootUsed \cup {NULL}) /\ b \in Page
        BY <1>3, <4>1, <4>2 DEF StacksOfTasks
      <4>4. /\ bitmap' = FreeRun(bitmap, b, 1)
            /\ tasks' = [tasks EXCEPT ![c] = [@ EXCEPT !.active = FALSE, !.stack_base = NULL]]
            /\ UNCHANGED <<total_tasks, kstack, lost>>
        <5>1. tasks[c].stack_base # NULL /\ tasks[c].stack_pages > 0
          BY <4>3
        <5>2. /\ bitmap' = FreeRun(bitmap, b, tasks[c].stack_pages)
              /\ UNCHANGED <<total_tasks, kstack, lost>>
          BY <1>6, <3>2, <5>1 DEF Scheduler_TerminateCurrentTask
        <5>3. tasks' = [tasks EXCEPT ![c] = [@ EXCEPT !.active = FALSE, !.stack_base = NULL]]
          BY <1>6, <3>2, <5>1 DEF Scheduler_TerminateCurrentTask
        <5>4. QED
          BY <4>3, <5>2, <5>3
      <4>5. j \in ActiveSlots \ {c}
        BY <1>3, <1>6, <3>2, <4>1 DEF Scheduler_TerminateCurrentTask, NextIn
      <4>6. bitmap' \subseteq bitmap /\ bitmap \ {b} \subseteq bitmap'
        <5>1. Run(b, 1) = {b}
          BY <4>3, MaxPagesAssumption DEF Run, Page
        <5>2. QED
          BY <4>4, <5>1 DEF FreeRun
      <4>7. [tasks[c] EXCEPT !.active = FALSE, !.stack_base = NULL] \in TCB
        BY <1>3, <4>2 DEF TCB
      <4>8. /\ tasks' \in [Slot -> TCB] /\ \A i \in Slot : i # c => tasks'[i] = tasks[i]
            /\ ~tasks'[c].active
        BY <1>3, <4>2, <4>4, <4>7 DEF TCB
      <4>9. \A i \in ActiveSlots \ {0, c} : tasks[i].stack_base \in bitmap'
        BY <1>3, <4>1, <4>6 DEF StacksOfTasks
      <4>10. QED
        BY <4>1, <4>3, <4>4, <4>5, <4>6, <4>8, <4>9
    <3>3. QED
      BY <2>1, <3>1, <3>2
  <2>3. /\ j # c /\ j \in ActiveSlots /\ j \in Slot /\ ActiveSlots' \subseteq ActiveSlots
        /\ {0, j} \subseteq ActiveSlots'
        /\ \A i \in ActiveSlots' : i # c \/ tasks'[c].active
    <3>1. \A i \in ActiveSlots : i \in Slot /\ tasks[i].active
      BY DEF ActiveSlots
    <3>2. \A i \in Slot : tasks'[i].active => tasks[i].active
      BY <1>3, <2>2, <3>1
    <3>3. tasks'[0].active
      BY <1>3, <2>2, <3>1
    <3>4. QED
      BY <1>3, <2>2, <3>1, <3>2, <3>3 DEF ActiveSlots
  <2>4. \A i \in ActiveSlots' :
          /\ tasks'[i].stack_base = tasks[i].stack_base
          /\ tasks'[i].stack_pages = tasks[i].stack_pages
          /\ Home(i)' = Home(i) /\ Origin(i)' = Origin(i)
    <3>1. \A i \in ActiveSlots' : /\ tasks'[i].stack_base = tasks[i].stack_base
                                  /\ tasks'[i].stack_pages = tasks[i].stack_pages
      <4> TAKE i \in ActiveSlots'
      <4>1. CASE i # c
        BY <2>2, <4>1 DEF ActiveSlots
      <4>2. CASE i = c
        <5>1. tasks'[c] = [tasks[c] EXCEPT !.rsp = Home(c)] /\ tasks[c] \in TCB
          BY <1>3, <2>2, <2>3, <4>2 DEF TypeOK
        <5>2. QED
          BY <4>2, <5>1 DEF TCB
      <4>3. QED
        BY <4>1, <4>2
    <3>2. QED
      BY <1>1, <3>1 DEF Home, Origin
  <2>5. TypeOK'
    BY <2>2, <2>3 DEF TypeOK
  <2>6. StacksOfTasks'
    <3>1. \A i \in ActiveSlots' \ {0} : tasks[i].stack_base \in bitmap'
      <4> TAKE i \in ActiveSlots' \ {0}
      <4>1. CASE i # c
        BY <2>2, <2>3, <4>1
      <4>2. CASE i = c
        BY <2>2, <2>3, <4>2 DEF StacksOfTasks
      <4>3. QED
        BY <4>1, <4>2
    <3>2. \A i \in ActiveSlots' \ {0} :
            /\ tasks[i].stack_pages = 1 /\ tasks[i].stack_base \notin BootUsed \cup {NULL}
            /\ \A k \in ActiveSlots' \ {0, i} : tasks[k].stack_base # tasks[i].stack_base
      BY <2>3 DEF StacksOfTasks
    <3>3. ActiveSlots' \subseteq 0 .. (total_tasks' - 1) /\ BootUsed \subseteq bitmap'
      BY <2>2, <2>3 DEF StacksOfTasks
    <3>4. QED
      BY <2>3, <2>4, <3>1, <3>2, <3>3 DEF StacksOfTasks
  <2>7. SavedContexts'
    <3> SUFFICES ASSUME NEW i \in ActiveSlots', i # j
                 PROVE  tasks'[i].rsp = Home(i) /\ mem[Home(i)] = Frame(i, Origin(i))
      BY <1>1, <2>4 DEF SavedContexts
    <3>1. CASE i = c
      <4>1. tasks'[c] = [tasks[c] EXCEPT !.rsp = Home(c)] /\ tasks[c] \in TCB
        BY <1>3, <2>2, <2>3, <3>1 DEF TypeOK
      <4>2. tasks'[c].rsp = Home(c)
        BY <4>1 DEF TCB
      <4>3. QED
        BY <1>2, <3>1, <4>2
    <3>2. CASE i # c
      BY <2>2, <2>3, <3>2 DEF SavedContexts, ActiveSlots
    <3>3. QED
      BY <3>1, <3>2
  <2>8. tasks'[j].rsp = Home(j) /\ mem[Home(j)] = Frame(j, Origin(j)) /\ Home(j) \in Page
    BY <2>2, <2>3, HomePages DEF SavedContexts
  <2>9. cpu' \in CPU /\ cpu'.pc = "iret" /\ cpu'.sp = Home(j) /\ cpu'.if = cpu.if
    <3>1. ToRestore = Home(j)
      BY <2>3, <2>8 DEF ToRestore
    <3>2. QED
      BY <1>1, <2>8, <3>1 DEF CPU, Point
  <2>10. CurrentContext'
    BY <1>1, <2>3, <2>4, <2>8, <2>9 DEF CurrentContext
  <2>11. SyscallContext' /\ Vectors'
    BY <1>1, <2>9 DEF SyscallContext, Vectors, Thread
  <2>12. QED
    BY <1>1, <1>4, <2>5, <2>6, <2>7, <2>9, <2>10, <2>11
<1>7. QED
  BY <1>5, <1>6

(* isr_restore finds the frame of the thread it restores (interrupt.c:209). *)
LEMMA RestoreContext ==
  ASSUME BootInv, isr_restore, UNCHANGED bootVars
  PROVE  ContextInv'
<1> DEFINE c == current_task_index
           f == Frame(c, Origin(c))
<1> USE DEF BootInv, ContextInv, KernelTypeOK
<1>1. /\ cpu.pc = "iret" /\ UNCHANGED <<schedVars, mem, scratch, irr, isr, key, stage, handlers, routed>>
      /\ cpu' = IF mem[cpu.sp].kind = "frame"
                  THEN [cpu EXCEPT !.pc = mem[cpu.sp].pc, !.regs = mem[cpu.sp].regs,
                                   !.stack = mem[cpu.sp].stack, !.if = TRUE]
                  ELSE [cpu EXCEPT !.pc = "dead"]
  BY DEF isr_restore, bootVars, acpiVars
<1>2. mem[cpu.sp] = f
  BY <1>1 DEF CurrentContext
<1>3. f.kind = "frame" /\ f.pc = Origin(c) /\ f.regs = c /\ f.stack = c
  BY DEF Frame
<1>4. c \in Slot /\ Origin(c) \in {"user", "ring0", "boot"}
  BY HomePages DEF Origin
<1>5. cpu' = [cpu EXCEPT !.pc = Origin(c), !.regs = c, !.stack = c, !.if = TRUE]
  BY <1>1, <1>2, <1>3
<1>6. cpu' \in CPU /\ cpu'.pc = Origin(c) /\ cpu'.regs = c /\ cpu'.stack = c
  BY <1>4, <1>5 DEF CPU, Point, Thread
<1>7. CurrentContext'
  <2>1. /\ Origin(c) = "ring0" <=> c # 0
        /\ Origin(c) = "boot" <=> c = 0 /\ stage # "user"
    BY DEF Origin
  <2>2. QED
    BY <1>1, <1>4, <1>6, <2>1, SameHomes DEF CurrentContext
<1>8. SyscallContext' /\ Vectors'
  BY <1>1, <1>4, <1>6 DEF SyscallContext, Vectors, Thread
<1>9. QED
  BY <1>1, <1>6, <1>7, <1>8, QuietContext

-----------------------------------------------------------------------------
(* The one user program makes no SYSCALL_EXEC (main.c:75-116). *)
LEMMA NoExec == cpu \in CPU => ~SyscallExec
  BY OneUserThread DEF SyscallExec, Serve, CPU

(* The system call path (syscall_entry.S:18-95): only the main task is in  *)
(* ring 3, so the one save area and the one user_rsp_scratch of either GS  *)
(* base always hold its context.                                           *)
LEMMA SyscallContextStep ==
  ASSUME BootInv, UNCHANGED bootVars,
         \/ \E k \in Calls : Syscall(k)
         \/ EntrySwapGs \/ EntrySaveRsp \/ EntryStack
         \/ SyscallPrint \/ SyscallTerminate \/ SyscallHalt \/ SyscallNvme \/ NvmeCompletes \/ SysRet
  PROVE  ContextInv'
<1> DEFINE c == current_task_index
<1> USE DEF BootInv, ContextInv, KernelTypeOK
<1>1. /\ UNCHANGED <<irr, isr, key, stage, handlers, routed>>
      /\ cpu.pc \in {"user", "swapgs", "save_rsp", "stack", "handler", "poll", "sysret"}
      /\ cpu \in CPU
  BY DEF Syscall, EntrySwapGs, EntrySaveRsp, EntryStack, SyscallPrint, SyscallTerminate,
     SyscallHalt, SyscallNvme, NvmeCompletes, SysRet, Serve, bootVars, acpiVars
<1>2. c = 0 /\ stage = "user" /\ cpu.regs = 0 /\ cpu.stack = 0
  BY <1>1 DEF CurrentContext
<1>3. 0 \in Slot /\ Rsp0 \in Page /\ Home(0) = Rsp0 /\ scratch \in [{"user", "cpu_data"} -> Slot]
  BY <1>2, HomePages DEF Home
<1>4. UNCHANGED schedVars
  BY <1>2 DEF Syscall, EntrySwapGs, EntrySaveRsp, EntryStack, SyscallPrint, SyscallTerminate,
     SyscallHalt, SyscallNvme, NvmeCompletes, SysRet, Scheduler_TerminateCurrentTask
<1>5. /\ cpu' \in CPU /\ cpu'.regs = 0 /\ cpu'.stack = 0
      /\ cpu'.pc \in {"user", "swapgs", "save_rsp", "stack", "handler", "poll", "hlt", "sysret"}
      /\ cpu'.if => cpu'.pc = "user"
  <2>0. cpu.if => cpu.pc = "user"
    BY <1>1 DEF Vectors, Thread
  <2>1. CASE \E k \in Calls : Syscall(k)
    <3> PICK k \in Calls : cpu' = [cpu EXCEPT !.pc = "swapgs", !.if = FALSE, !.call = k]
      BY <2>1 DEF Syscall, SyscallMask
    <3>1. QED
      BY <1>1, <1>2 DEF CPU, Point, Entry
  <2>2. CASE EntrySwapGs
    <3>1. cpu' = [cpu EXCEPT !.pc = "save_rsp", !.gs = SwapGs(cpu.gs)] /\ cpu.pc = "swapgs"
      BY <2>2 DEF EntrySwapGs
    <3>2. SwapGs(cpu.gs) \in {"user", "cpu_data"}
      BY DEF SwapGs
    <3>3. QED
      BY <1>1, <1>2, <2>0, <3>1, <3>2 DEF CPU, Point, Entry
  <2>3. CASE EntrySaveRsp
    <3>1. cpu' = [cpu EXCEPT !.pc = "stack"] /\ cpu.pc = "save_rsp"
      BY <2>3 DEF EntrySaveRsp
    <3>2. QED
      BY <1>1, <1>2, <2>0, <3>1 DEF CPU, Point, Entry
  <2>4. CASE EntryStack
    <3>1. cpu' = [cpu EXCEPT !.pc = "handler"] /\ cpu.pc = "stack"
      BY <2>4 DEF EntryStack
    <3>2. QED
      BY <1>1, <1>2, <2>0, <3>1 DEF CPU, Point
  <2>5. CASE SyscallPrint \/ SyscallTerminate \/ NvmeCompletes
    <3>1. cpu' = [cpu EXCEPT !.pc = "sysret"] /\ cpu.pc # "user"
      BY <1>4, <2>5 DEF SyscallPrint, SyscallTerminate, NvmeCompletes, Serve, schedVars, tableVars
    <3>2. QED
      BY <1>1, <1>2, <2>0, <3>1 DEF CPU, Point
  <2>6. CASE SyscallNvme
    <3>1. cpu' = [cpu EXCEPT !.pc = "poll"] /\ cpu.pc # "user"
      BY <2>6 DEF SyscallNvme, Serve
    <3>2. QED
      BY <1>1, <1>2, <2>0, <3>1 DEF CPU, Point
  <2>7. CASE SysRet
    <3>1. cpu' = [cpu EXCEPT !.pc = "user", !.if = TRUE, !.regs = mem[Rsp0].regs,
                             !.stack = scratch[cpu.gs], !.gs = SwapGs(cpu.gs), !.call = "none"]
      BY <2>7 DEF SysRet
    <3>2. SwapGs(cpu.gs) \in {"user", "cpu_data"} /\ cpu.gs \in {"user", "cpu_data"}
      BY <1>1 DEF SwapGs, CPU
    <3>3. mem[Rsp0].regs = 0 /\ scratch[cpu.gs] = 0
      BY <1>3, <3>2 DEF SyscallContext
    <3>4. QED
      BY <1>1, <1>3, <3>1, <3>2, <3>3 DEF CPU, Point, Thread
  <2>8. CASE SyscallHalt
    <3>1. cpu' = [cpu EXCEPT !.pc = "hlt"] /\ cpu.pc # "user"
      BY <2>8 DEF SyscallHalt, Serve
    <3>2. QED
      BY <1>1, <1>2, <2>0, <3>1 DEF CPU, Point
  <2>9. QED
    BY <2>1, <2>2, <2>3, <2>4, <2>5, <2>6, <2>7, <2>8
<1>6. CurrentContext'
  BY <1>1, <1>2, <1>4, <1>5, SameHomes DEF CurrentContext
<1>7. Vectors'
  BY <1>1, <1>5 DEF Vectors, Thread
<1>8. /\ scratch' \in [{"user", "cpu_data"} -> Slot]
      /\ \A g \in DOMAIN scratch' : scratch'[g] = 0
  <2>1. scratch' \in {scratch, [scratch EXCEPT ![cpu.gs] = 0]}
    BY <1>2 DEF Syscall, EntrySwapGs, EntrySaveRsp, EntryStack, SyscallPrint, SyscallTerminate,
       SyscallHalt, SyscallNvme, NvmeCompletes, SysRet
  <2>2. QED
    BY <1>3, <2>1 DEF SyscallContext
<1>9. CASE mem' = mem
  <2>1. SyscallContext'
    BY <1>8, <1>9 DEF SyscallContext
  <2>2. QED
    BY <1>1, <1>4, <1>5, <1>6, <1>7, <1>8, <1>9, <2>1, QuietContext
<1>10. CASE EntryStack
  <2> DEFINE r == [kind |-> "syscall", regs |-> cpu.regs, stack |-> cpu.stack, pc |-> "user"]
  <2>1. mem' = [mem EXCEPT ![Rsp0] = r] /\ mem \in [Page -> Saved]
    BY <1>10 DEF EntryStack
  <2>2. r \in Saved /\ r.regs = 0
    BY <1>2, <1>3 DEF Saved, Point, Thread
  <2>3. /\ mem' \in [Page -> Saved] /\ mem'[Rsp0].regs = 0
        /\ \A p \in Page : p # Rsp0 => mem'[p] = mem[p]
    BY <1>3, <2>1, <2>2
  <2>4. SyscallContext'
    BY <1>8, <2>3 DEF SyscallContext
  <2>5. SavedContexts'
    <3> SUFFICES ASSUME NEW i \in ActiveSlots, i # 0
                 PROVE  tasks[i].rsp = Home(i) /\ mem'[Home(i)] = Frame(i, Origin(i))
      BY <1>1, <1>2, <1>4, SameHomes DEF SavedContexts
    <3>1. Home(i) \in Page /\ Home(i) # Rsp0
      BY HomePages
    <3>2. QED
      BY <1>2, <2>3, <3>1 DEF SavedContexts
  <2>6. TypeOK' /\ StacksOfTasks'
    BY <1>1, <1>4, SameHomes
  <2>7. QED
    BY <1>1, <1>5, <1>6, <1>7, <1>8, <2>3, <2>4, <2>5, <2>6
<1>11. mem' = mem \/ EntryStack
  BY DEF Syscall, EntrySwapGs, EntrySaveRsp, SyscallPrint, SyscallTerminate,
     SyscallHalt, SyscallNvme, NvmeCompletes, SysRet
<1>12. QED
  BY <1>9, <1>10, <1>11

(* The timer, the keys and firmware's memory map: whatever requests an     *)
(* interrupt has a handler by then (main.c:166-180).                       *)
LEMMA DeviceContextStep ==
  ASSUME BootInv, BootTick \/ (\E k \in Keys : BootKeyPress(k)) \/ MapChanges \/ UNCHANGED allVars
  PROVE  ContextInv'
<1> USE DEF BootInv, ContextInv, KernelTypeOK
<1>1. /\ UNCHANGED <<schedVars, cpu, mem, scratch, isr, stage, handlers, routed>>
      /\ key' \in Keys \cup {None}
  BY DEF BootTick, Tick, BootKeyPress, KeyPress, MapChanges, bootVars, acpiVars, kernelVars, allVars
<1>2. irr' \subseteq handlers
  <2>1. CASE BootTick
    BY <2>1 DEF BootTick, TimerOn, Tick, Vectors, Vector
  <2>2. CASE \E k \in Keys : BootKeyPress(k)
    <3>1. irr' = irr \/ (routed # 0 /\ irr' = irr \cup {"keyboard"})
      BY <2>2 DEF BootKeyPress, KeyPress
    <3>2. QED
      BY <3>1 DEF Vectors, Vector
  <2>3. CASE MapChanges \/ UNCHANGED allVars
    BY <2>3 DEF MapChanges, kernelVars, allVars, Vectors
  <2>4. QED
    BY <2>1, <2>2, <2>3
<1>3. CurrentContext' /\ SyscallContext' /\ Vectors'
  BY <1>1, <1>2, SameHomes DEF CurrentContext, SyscallContext, Vectors
<1>4. QED
  BY <1>1, <1>3, QuietContext

LEMMA ContextStep ==
  ASSUME BootInv, [BootNext]_allVars
  PROVE  ContextInv'
<1>1. CASE BootStep
  <2>1. QuietBoot \/ Sti \/ EnterUserMode
    BY <1>1 DEF BootStep, QuietBoot
  <2>2. QED
    BY <2>1, QuietBootStep, StiStep, EnterUserModeStep
<1>2. CASE AddTask
  BY <1>2, StartTaskStep
<1>3. CASE \E v \in Vector : BootInterrupt(v)
  BY <1>3, InterruptStep
<1>4. CASE Dispatch /\ UNCHANGED bootVars
  <2>1. ~(cpu.pc = "isr" /\ cpu.vec \notin handlers)
    BY DEF BootInv, ContextInv, Vectors
  <2>2. QED
    BY <1>4, <2>1, TimerStep, KeyboardStep DEF Dispatch
<1>5. CASE isr_restore /\ UNCHANGED bootVars
  BY <1>5, RestoreContext
<1>6. CASE \/ KernelRuns /\ ~Dispatch /\ ~isr_restore
           \/ ControllerAnswers
           \/ \E k \in Calls : UserCalls(k)
  <2>1. /\ UNCHANGED bootVars
        /\ \/ \E k \in Calls : Syscall(k)
           \/ EntrySwapGs \/ EntrySaveRsp \/ EntryStack
           \/ SyscallPrint \/ SyscallTerminate \/ SyscallHalt \/ SyscallNvme \/ NvmeCompletes
           \/ SysRet
    BY <1>6, NoExec DEF KernelRuns, ControllerAnswers, UserCalls, BootInv, ContextInv, KernelTypeOK
  <2>2. QED
    BY <2>1, SyscallContextStep
<1>7. CASE BootTick \/ (\E k \in Keys : BootKeyPress(k)) \/ MapChanges \/ UNCHANGED allVars
  BY <1>7, DeviceContextStep
<1>8. QED
  BY <1>1, <1>2, <1>3, <1>4, <1>5, <1>6, <1>7 DEF BootNext, KernelRuns

-----------------------------------------------------------------------------
LEMMA MachineType ==
  ASSUME machine \in Machines
  PROVE  /\ Len(machine.controllers) \in Nat
         /\ \A f \in machine.pci : f.at \in Functions /\ f.nvme \in BOOLEAN /\ f.multi \in BOOLEAN
<1>1. machine \in Machine
  BY BootAssumption
<1>2. machine.controllers \in Seq({"LAPIC", "IOAPIC", "ISO"})
  BY <1>1 DEF Machine
<1>3. machine.pci \subseteq [at : Functions, nvme : BOOLEAN, multi : BOOLEAN]
  BY <1>1 DEF Machine
<1>4. QED
  BY <1>2, <1>3

LEMMA FunctionParts ==
  ASSUME NEW x \in Functions
  PROVE  /\ x[1] \in 0 .. LastBus /\ x[2] \in 0 .. LastDevice /\ x[3] \in 0 .. LastFunction
         /\ x = <<x[1], x[2], x[3]>>
  BY DEF Functions

LEMMA DeviceInit == BootInit => DeviceInv
<1> SUFFICES ASSUME BootInit PROVE DeviceInv
  OBVIOUS
<1> USE DEF BootInit
<1>1. NvmePassed = {}
  <2>1. \A f \in machine.pci : ~Passed(f.at)
    <3> TAKE f \in machine.pci
    <3>1. f.at[1] \in 0 .. LastBus /\ f.at[2] \in 0 .. LastDevice
      BY MachineType, FunctionParts
    <3>2. at[1] = 0 /\ at[2] = 0
      OBVIOUS
    <3>3. QED
      BY <3>1, <3>2, BootAssumption DEF Passed
  <2>2. QED
    BY <2>1 DEF NvmePassed
<1>2. ScanSoFar
  BY <1>1 DEF ScanSoFar
<1>3. Position
  BY BootAssumption DEF Position, EarlyStage, EfiStage, AfterScan
<1>4. WalkSoFar
  <2>1. Len(machine.controllers) \in Nat
    BY MachineType
  <2>2. 1 .. (entry - 1) = {}
    OBVIOUS
  <2>3. QED
    BY <2>1, <2>2 DEF WalkSoFar, EarlyStage, EfiStage, AfterScan
<1>5. Stages
  <2>1. map_version \in 0 .. MaxChanges /\ map_key \in 0 .. map_version
    <3>1. MaxChanges \in Nat
      BY BootAssumption
    <3>2. QED
      BY <3>1
  <2>2. machine \in Machines /\ stage \in EfiStage /\ g_xsdt \in BOOLEAN /\ missed \in BOOLEAN
    BY DEF EfiStage
  <2>3. QED
    BY <2>1, <2>2 DEF Stages
<1>6. QED
  BY <1>2, <1>3, <1>4, <1>5 DEF DeviceInv

(* Steps that look at no device.                                           *)
LEMMA SameDevices ==
  ASSUME DeviceInv, UNCHANGED <<machine, at, g_nvme, bus_master>>
  PROVE  ScanSoFar'
<1>1. NvmePassed' = NvmePassed
  BY DEF NvmePassed, Passed, Visible
<1>2. QED
  BY <1>1 DEF DeviceInv, ScanSoFar, Later

LEMMA KeepsDevices ==
  ASSUME DeviceInv, UNCHANGED <<machine, stage, entry, routed, at, g_nvme, bus_master>>, Stages'
  PROVE  DeviceInv'
<1>1. WalkSoFar'
  BY DEF DeviceInv, WalkSoFar, IsIoapic
<1>2. Position'
  BY DEF DeviceInv, Position
<1>3. QED
  BY <1>1, <1>2, SameDevices DEF DeviceInv

(* EfiMain and KernelMain before and after the two enumerations.           *)
LEMMA PlainBootStep ==
  ASSUME DeviceInv, BootStep, ~WalkMadt, ~PCI_CheckDevice
  PROVE  DeviceInv'
<1> USE DEF DeviceInv
<1>1. UNCHANGED <<machine, missed, entry, routed, at, g_nvme, bus_master, map_version>>
  BY DEF BootStep, LocateGop, LoadedImage, GetMemoryMap, ExitBootServices, ACPI_Init,
     DescriptorTables, FindMadt, LapicSetup, Sti, NVMe_Init, KernelStack, UserStack,
     EnterUserMode, Step, acpiVars, pciVars, efiVars
<1>2. \/ stage \in EarlyStage /\ stage' \in EarlyStage \cup {"controllers", "efi_hang", "halted"}
      \/ stage = "sti" /\ stage' = "scan"
      \/ stage \in AfterScan /\ stage' \in AfterScan \cup {"hang"}
  <2>1. CASE LocateGop \/ LoadedImage \/ GetMemoryMap \/ ExitBootServices
    BY <2>1 DEF LocateGop, LoadedImage, GetMemoryMap, ExitBootServices, Step, EarlyStage, EfiStage, Retry
  <2>2. CASE ACPI_Init \/ DescriptorTables \/ FindMadt \/ LapicSetup
    BY <2>2 DEF ACPI_Init, DescriptorTables, FindMadt, LapicSetup, Step, EarlyStage
  <2>3. CASE Sti \/ NVMe_Init \/ KernelStack \/ UserStack \/ EnterUserMode
    BY <2>3 DEF Sti, NVMe_Init, KernelStack, UserStack, EnterUserMode, Step, AfterScan
  <2>4. QED
    BY <2>1, <2>2, <2>3 DEF BootStep
<1>3. ScanSoFar'
  BY <1>1, SameDevices
<1>4. WalkSoFar'
  BY <1>1, <1>2 DEF WalkSoFar, IsIoapic, EarlyStage, EfiStage, AfterScan
<1>5. Position'
  <2>1. LastBus \in Nat /\ LastDevice \in Nat
    BY BootAssumption
  <2>2. CASE stage \in EarlyStage \cup {"sti"}
    <3>1. at = <<0, 0>> /\ at' = at
      BY <1>1, <2>2 DEF Position
    <3>2. stage' \notin AfterScan
      BY <1>2, <2>2 DEF AfterScan, EarlyStage, EfiStage
    <3>3. at' \in (0 .. (LastBus + 1)) \X (0 .. LastDevice) /\ at'[1] = 0
      BY <2>1, <3>1
    <3>4. QED
      BY <2>1, <3>1, <3>2, <3>3 DEF Position
  <2>3. CASE stage \in AfterScan
    <3>1. at' = <<LastBus + 1, 0>> /\ at' \in (0 .. (LastBus + 1)) \X (0 .. LastDevice)
      BY <1>1, <2>3 DEF Position
    <3>2. stage' \in AfterScan \cup {"hang"}
      BY <1>2, <2>3 DEF AfterScan, EarlyStage, EfiStage
    <3>3. QED
      BY <3>1, <3>2 DEF Position, AfterScan, EarlyStage, EfiStage
  <2>4. QED
    BY <1>2, <2>2, <2>3
<1>6. Stages'
  <2>1. map_key' \in 0 .. map_version'
    <3>1. map_key' \in {map_key, map_version}
      BY DEF BootStep, LocateGop, LoadedImage, GetMemoryMap, ExitBootServices, ACPI_Init,
         DescriptorTables, FindMadt, LapicSetup, Sti, NVMe_Init, KernelStack, UserStack,
         EnterUserMode, efiVars
    <3>2. QED
      BY <1>1, <3>1, BootAssumption DEF Stages
  <2>2. g_xsdt' \in BOOLEAN
    <3>1. CASE ACPI_Init
      BY <3>1 DEF ACPI_Init
    <3>2. CASE ~ACPI_Init
      <4>1. g_xsdt' = g_xsdt
        BY <3>2 DEF BootStep, LocateGop, LoadedImage, GetMemoryMap, ExitBootServices,
           DescriptorTables, FindMadt, LapicSetup, Sti, NVMe_Init, KernelStack, UserStack,
           EnterUserMode, acpiVars
      <4>2. QED
        BY <4>1 DEF Stages
    <3>3. QED
      BY <3>1, <3>2
  <2>3. stage' \in EfiStage \cup KernelStage \cup EndStage
    BY <1>2 DEF EarlyStage, AfterScan, EfiStage, KernelStage, EndStage
  <2>4. QED
    BY <1>1, <2>1, <2>2, <2>3 DEF Stages
<1>7. QED
  BY <1>3, <1>4, <1>5, <1>6

(* The walk over the MADT stops at its first I/O APIC (main.c:173-183).    *)
LEMMA WalkStep ==
  ASSUME DeviceInv, WalkMadt
  PROVE  DeviceInv'
<1> DEFINE n == Len(machine.controllers)
           found == entry <= n /\ IsIoapic(entry)
<1> USE DEF DeviceInv
<1>1. /\ UNCHANGED <<machine, missed, at, g_nvme, bus_master, map_version, map_key, g_xsdt>>
      /\ stage = "controllers"
      /\ stage' = IF found \/ entry > n THEN "sti" ELSE "controllers"
      /\ routed' = IF found THEN entry ELSE routed
      /\ entry' = IF stage' = "controllers" THEN entry + 1 ELSE entry
  BY DEF WalkMadt, Step, pciVars, efiVars, IsIoapic
<1>2. n \in Nat /\ entry \in 1 .. (n + 1) /\ routed = 0 /\ \A e \in 1 .. (entry - 1) : ~IsIoapic(e)
  BY <1>1, MachineType DEF WalkSoFar, Stages
<1>3. Len(machine.controllers)' = n /\ \A e : IsIoapic(e)' <=> IsIoapic(e)
  BY <1>1 DEF IsIoapic
<1>4. ScanSoFar'
  BY <1>1, SameDevices
<1>5. at' = <<0, 0>> /\ at' \in (0 .. (LastBus + 1)) \X (0 .. LastDevice)
  BY <1>1 DEF Position
<1>6. Position'
  BY <1>1, <1>5 DEF Position, AfterScan
<1>7. Stages'
  BY <1>1 DEF Stages, KernelStage
<1> HIDE DEF found, n
<1>8. WalkSoFar'
  <2>1. CASE found
    <3>1. entry <= n /\ IsIoapic(entry)
      BY <2>1 DEF found
    <3>2. stage' = "sti" /\ routed' = entry /\ entry' = entry
      BY <1>1, <2>1
    <3>3. \A e \in 1 .. n : IsIoapic(e) => entry \in 1 .. e
      BY <1>2
    <3>4. QED
      BY <1>2, <1>3, <3>1, <3>2, <3>3 DEF WalkSoFar, EarlyStage, EfiStage, n
  <2>2. CASE ~found /\ entry > n
    <3>1. stage' = "sti" /\ routed' = 0 /\ entry' = entry
      BY <1>1, <1>2, <2>2
    <3>2. \A e \in 1 .. n : ~IsIoapic(e)
      BY <1>2, <2>2
    <3>3. QED
      BY <1>2, <1>3, <3>1, <3>2 DEF WalkSoFar, EarlyStage, EfiStage, n
  <2>3. CASE ~found /\ ~(entry > n)
    <3>1. stage' = "controllers" /\ routed' = 0 /\ entry' = entry + 1
      BY <1>1, <1>2, <2>3
    <3>2. \A e \in 1 .. entry : ~IsIoapic(e)
      BY <1>2, <2>3 DEF found
    <3>3. entry' \in 1 .. (n + 1) /\ entry' - 1 = entry
      BY <1>2, <2>3, <3>1
    <3>4. QED
      BY <1>2, <1>3, <3>1, <3>2, <3>3 DEF WalkSoFar, AfterScan, n
  <2>4. QED
    BY <2>1, <2>2, <2>3
<1>9. QED
  BY <1>4, <1>6, <1>7, <1>8

(* PCI_CheckDevice looks at the functions of one device that hardware lets *)
(* software see (pci.c:80-96).                                             *)
OnDevice(x, b, d) == x[1] = b /\ x[2] = d

LEMMA ProbedFunctions ==
  ASSUME machine \in Machines, NEW b, NEW d, NEW g \in machine.pci
  PROVE  g \in Probed(b, d) <=> OnDevice(g.at, b, d) /\ Visible(g)
<1> DEFINE first == {f \in machine.pci : f.at = <<b, d, 0>>}
<1>1. \A f \in machine.pci : f.at = <<b, d, 0>> <=> OnDevice(f.at, b, d) /\ f.at[3] = 0
  <2> TAKE f \in machine.pci
  <2>1. f.at = <<f.at[1], f.at[2], f.at[3]>>
    BY MachineType, FunctionParts
  <2>2. QED
    BY <2>1 DEF OnDevice
<1>2. CASE \E f \in first : f.multi
  <2>1. Probed(b, d) = {f \in machine.pci : OnDevice(f.at, b, d)}
    BY <1>2 DEF Probed, OnDevice
  <2>2. OnDevice(g.at, b, d) => Visible(g)
    BY <1>2 DEF OnDevice, Visible
  <2>3. QED
    BY <2>1, <2>2
<1>3. CASE ~\E f \in first : f.multi
  <2>1. Probed(b, d) = first
    BY <1>3 DEF Probed
  <2>2. OnDevice(g.at, b, d) => (Visible(g) <=> g.at[3] = 0)
    BY <1>3 DEF OnDevice, Visible
  <2>3. QED
    BY <1>1, <2>1, <2>2
<1>4. QED
  BY <1>2, <1>3

(* One more device has been passed (pci.c:99-112).                         *)
LEMMA PassedDevice ==
  ASSUME Position, stage = "scan", at' = AfterDevice(at[1], at[2]), NEW x \in Functions
  PROVE  Passed(x)' <=> Passed(x) \/ OnDevice(x, at[1], at[2])
<1> DEFINE b == at[1]
           d == at[2]
<1>1. b \in Nat /\ d \in 0 .. LastDevice /\ LastDevice \in Nat
  BY BootAssumption DEF Position
<1>2. x[1] \in Nat /\ x[2] \in 0 .. LastDevice
  BY FunctionParts, BootAssumption
<1>3. CASE d < LastDevice
  <2>1. at'[1] = b /\ at'[2] = d + 1
    BY <1>3 DEF AfterDevice
  <2>2. x[2] < d + 1 <=> x[2] < d \/ x[2] = d
    BY <1>1, <1>2
  <2>3. QED
    BY <2>1, <2>2 DEF Passed, OnDevice
<1>4. CASE ~(d < LastDevice)
  <2>1. at'[1] = b + 1 /\ at'[2] = 0 /\ d = LastDevice
    BY <1>1, <1>4 DEF AfterDevice
  <2>2. x[1] < b + 1 <=> x[1] < b \/ x[1] = b
    BY <1>1, <1>2
  <2>3. ~(x[2] < 0) /\ (x[2] < d \/ x[2] = d)
    BY <1>1, <1>2, <2>1
  <2>4. QED
    BY <2>1, <2>2, <2>3 DEF Passed, OnDevice
<1>5. QED
  BY <1>3, <1>4

(* The scan goes through the functions in ascending order, so that the     *)
(* last one met is the last in that order (pci.c:50-66, 99-112).           *)
LEMMA ScanStep ==
  ASSUME DeviceInv, PCI_CheckDevice
  PROVE  DeviceInv'
<1> DEFINE b == at[1]
           d == at[2]
           hits == {f.at : f \in {g \in Probed(b, d) : g.nvme}}
           next == AfterDevice(b, d)
<1> USE DEF DeviceInv
<1>1. /\ UNCHANGED <<machine, missed, entry, routed, map_version, map_key, g_xsdt>>
      /\ stage = "scan" /\ stage' = IF next[1] > LastBus THEN "nvme" ELSE "scan"
      /\ at' = next
      /\ bus_master' = bus_master \cup hits
      /\ \/ hits = {} /\ UNCHANGED g_nvme
         \/ \E f \in hits : (\A g \in hits : g[3] <= f[3]) /\ g_nvme' = f
  BY DEF PCI_CheckDevice, Step, acpiVars, efiVars
<1>2. b \in 0 .. LastBus /\ d \in 0 .. LastDevice /\ LastBus \in Nat /\ LastDevice \in Nat
  BY <1>1, BootAssumption DEF Position
<1>3. Position'
  <2>1. CASE d < LastDevice
    <3>1. next = <<b, d + 1>>
      BY <2>1 DEF AfterDevice
    <3>2. QED
      BY <1>1, <1>2, <2>1, <3>1 DEF Position, EarlyStage, EfiStage, AfterScan
  <2>2. CASE ~(d < LastDevice)
    <3>1. next = <<b + 1, 0>>
      BY <2>2 DEF AfterDevice
    <3>2. QED
      BY <1>1, <1>2, <3>1 DEF Position, EarlyStage, EfiStage, AfterScan
  <2>3. QED
    BY <2>1, <2>2
<1>4. WalkSoFar' /\ Stages'
  BY <1>1 DEF WalkSoFar, Stages, IsIoapic, EarlyStage, EfiStage, AfterScan, KernelStage
<1> HIDE DEF hits, next
<1>5. \A x : x \in hits <=>
        \E g \in machine.pci : g.nvme /\ Visible(g) /\ OnDevice(g.at, b, d) /\ x = g.at
  <2>1. \A x : x \in hits <=> \E g \in Probed(b, d) : g.nvme /\ x = g.at
    BY DEF hits
  <2>2. Probed(b, d) \subseteq machine.pci
    BY DEF Probed
  <2>3. \A g \in machine.pci : g \in Probed(b, d) <=> OnDevice(g.at, b, d) /\ Visible(g)
    BY ProbedFunctions DEF Stages
  <2>4. QED
    BY <2>1, <2>2, <2>3
<1>6. hits \subseteq Functions /\ \A x \in hits : OnDevice(x, b, d)
  BY <1>5, MachineType DEF Stages
<1>7. \A x : x \in NvmePassed <=>
        \E g \in machine.pci : g.nvme /\ Visible(g) /\ Passed(g.at) /\ x = g.at
  BY DEF NvmePassed
<1>8. NvmePassed \subseteq Functions /\ \A x \in NvmePassed : Passed(x)
  BY <1>7, MachineType DEF Stages
<1>9. NvmePassed' = NvmePassed \cup hits
  <2>1. \A x : x \in NvmePassed' <=>
          \E g \in machine.pci : g.nvme /\ Visible(g) /\ Passed(g.at)' /\ x = g.at
    <3>1. machine' = machine /\ \A g : Visible(g)' <=> Visible(g)
      BY <1>1 DEF Visible
    <3>2. NvmePassed' = {f.at : f \in {g \in machine.pci : g.nvme /\ Visible(g) /\ Passed(g.at)'}}
      BY <1>1 DEF NvmePassed, Passed, Visible
    <3>3. QED
      BY <3>2
  <2>2. \A g \in machine.pci : Passed(g.at)' <=> Passed(g.at) \/ OnDevice(g.at, b, d)
    BY <1>1, MachineType, PassedDevice DEF Stages, next
  <2>3. QED
    BY <1>5, <1>7, <2>1, <2>2
<1>10. bus_master' = NvmePassed'
  BY <1>1, <1>9 DEF ScanSoFar
<1>11. CASE hits = {}
  <2>1. g_nvme' = g_nvme /\ NvmePassed' = NvmePassed
    BY <1>1, <1>9, <1>11
  <2>2. ScanSoFar'
    BY <1>10, <2>1 DEF ScanSoFar, Later
  <2>3. QED
    BY <1>3, <1>4, <2>2
<1>12. CASE hits # {}
  <2>1. g_nvme' \in hits /\ \A g \in hits : g[3] <= g_nvme'[3]
    BY <1>1, <1>12
  <2> DEFINE n == g_nvme'
  <2>2. n \in Functions /\ n[1] = b /\ n[2] = d
    BY <1>6, <2>1 DEF OnDevice
  <2>3. \A f \in hits \ {n} : Later(n, f)
    <3> TAKE f \in hits \ {n}
    <3>1. f \in Functions /\ f[1] = b /\ f[2] = d /\ f[3] <= n[3]
      BY <1>6, <2>1 DEF OnDevice
    <3>2. f[3] # n[3]
      BY <2>2, <3>1, FunctionParts
    <3>3. n[3] > f[3] /\ n[1] = f[1] /\ n[2] = f[2]
      <4>1. n[3] \in Int /\ f[3] \in Int
        BY <2>2, <3>1, FunctionParts, BootAssumption
      <4>2. QED
        BY <2>2, <3>1, <3>2, <4>1
    <3>4. \A j \in 1 .. 2 : n[j] = f[j]
      BY <3>3
    <3>5. QED
      BY <3>3, <3>4 DEF Later
  <2>4. \A f \in NvmePassed : Later(n, f)
    <3> TAKE f \in NvmePassed
    <3>1. f \in Functions /\ (f[1] < b \/ (f[1] = b /\ f[2] < d))
      BY <1>8 DEF Passed
    <3>2. f[1] \in Int /\ f[2] \in Int /\ b \in Int /\ d \in Int
      BY <1>2, <3>1, FunctionParts, BootAssumption
    <3>3. CASE f[1] < b
      <4>1. n[1] > f[1] /\ \A j \in 1 .. 0 : n[j] = f[j]
        BY <2>2, <3>2, <3>3
      <4>2. QED
        BY <4>1 DEF Later
    <3>4. CASE f[1] = b /\ f[2] < d
      <4>1. n[2] > f[2] /\ \A j \in 1 .. 1 : n[j] = f[j]
        BY <2>2, <3>2, <3>4
      <4>2. QED
        BY <4>1 DEF Later
    <3>5. QED
      BY <3>1, <3>3, <3>4
  <2>5. \A f \in NvmePassed' \ {n} : Later(n, f)
    BY <1>9, <2>3, <2>4
  <2>6. \A f : Later(g_nvme, f)' <=> Later(n, f')
    BY DEF Later
  <2>7. ScanSoFar'
    <3>1. n \in NvmePassed' /\ NvmePassed' # {}
      BY <1>9, <2>1
    <3>2. QED
      BY <1>10, <2>5, <3>1 DEF ScanSoFar, Later
  <2>8. QED
    BY <1>3, <1>4, <2>7
<1>13. QED
  BY <1>11, <1>12

LEMMA DeviceStep ==
  ASSUME DeviceInv, [BootNext]_allVars
  PROVE  DeviceInv'
<1>1. CASE BootStep
  BY <1>1, PlainBootStep, WalkStep, ScanStep
<1>2. CASE MapChanges
  <2>1. /\ UNCHANGED <<machine, stage, missed, map_key, entry, routed, g_xsdt, at, g_nvme, bus_master>>
        /\ map_version < MaxChanges /\ map_version' = map_version + 1
    BY <1>2 DEF MapChanges, acpiVars, pciVars
  <2>2. Stages'
    <3>1. MaxChanges \in Nat
      BY BootAssumption
    <3>2. map_version' \in 0 .. MaxChanges /\ map_key' \in 0 .. map_version'
      BY <2>1, <3>1 DEF DeviceInv, Stages
    <3>3. QED
      BY <2>1, <3>2 DEF DeviceInv, Stages
  <2>3. QED
    BY <2>1, <2>2, KeepsDevices
<1>3. CASE \/ AddTask \/ KernelRuns \/ ControllerAnswers
           \/ \E v \in Vector : BootInterrupt(v)
           \/ \E k \in Calls : UserCalls(k)
           \/ BootTick \/ (\E k \in Keys : BootKeyPress(k)) \/ UNCHANGED allVars
  <2>1. /\ UNCHANGED <<machine, stage, map_version, map_key, entry, routed, g_xsdt, at, g_nvme, bus_master>>
        /\ missed' \in {missed, TRUE}
    BY <1>3 DEF AddTask, KernelRuns, ControllerAnswers, BootInterrupt, UserCalls, BootTick,
       BootKeyPress, bootVars, efiVars, acpiVars, pciVars, allVars
  <2>2. Stages'
    BY <2>1 DEF DeviceInv, Stages
  <2>3. QED
    BY <2>1, <2>2, KeepsDevices
<1>4. QED
  BY <1>1, <1>2, <1>3 DEF BootNext

LEMMA BootInitInv == BootInit => BootInv
  BY ContextInit, DeviceInit DEF BootInv

LEMMA BootStepInv == BootInv /\ [BootNext]_allVars => BootInv'
  BY ContextStep, DeviceStep DEF BootInv

-----------------------------------------------------------------------------
(* The kernel's state and boot's keep their types.                         *)
THEOREM BootTypeCorrect == BootSpec => []BootTypeOK
<1>1. BootInv => BootTypeOK
  <2> SUFFICES ASSUME BootInv PROVE BootTypeOK
    OBVIOUS
  <2> USE DEF BootInv, DeviceInv
  <2>1. KernelTypeOK /\ handlers \subseteq Vector
    BY DEF ContextInv, Vectors
  <2>2. at[1] \in 0 .. (LastBus + 1) /\ at[2] \in 0 .. LastDevice
    BY DEF Position
  <2>3. NvmePassed \subseteq Functions
    BY MachineType DEF NvmePassed, Stages
  <2>4. g_nvme \in Functions \cup {<<>>} /\ bus_master \subseteq Functions
    BY <2>3 DEF ScanSoFar
  <2>5. QED
    BY <2>1, <2>2, <2>4 DEF BootTypeOK, Stages, WalkSoFar
<1>2. QED
  BY BootInitInv, BootStepInv, <1>1, PTL DEF BootSpec

(* No context is ever lost (README.md:16, schedule.c:80-81): the boot      *)
(* thread, which goes on as the one ring-3 thread, and every ring-0 task   *)
(* continue with their own registers, whatever interrupts, keys and        *)
(* switches arrive between the steps of KernelMain and after it, and no    *)
(* interrupt meets an empty handler_table.                                 *)
THEOREM ContextsPreserved == BootSpec => []ContextPreserved
<1>1. BootInv => ContextPreserved
  BY DEF BootInv, ContextInv, CurrentContext, Vectors, ContextPreserved, Thread
<1>2. QED
  BY BootInitInv, BootStepInv, <1>1, PTL DEF BootSpec

(* The devices boot goes on with are the right ones (main.c:173-190,       *)
(* pci.c:50-112): the first I/O APIC of the MADT has the keyboard's        *)
(* interrupt, every visible NVMe function is a bus master, and the one     *)
(* kept is the last in scan order.                                         *)
THEOREM RightDevicesFound == BootSpec => []DevicesFound
<1>1. BootInv => DevicesFound
  <2> SUFFICES ASSUME BootInv, stage \in {"kernel_stack", "user_stack", "ring3", "user"}
               PROVE  LET nvme == {f.at : f \in {g \in machine.pci : g.nvme /\ Visible(g)}}
                      IN  /\ bus_master = nvme
                          /\ IF nvme = {} THEN g_nvme = <<>>
                             ELSE g_nvme \in nvme /\ \A f \in nvme \ {g_nvme} : Later(g_nvme, f)
                          /\ \A e \in 1 .. Len(machine.controllers) :
                               machine.controllers[e] = "IOAPIC" => routed \in 1 .. e
    BY DEF DevicesFound
  <2> USE DEF BootInv, DeviceInv
  <2>1. stage \in AfterScan /\ at[1] = LastBus + 1
    BY DEF AfterScan, Position
  <2>2. \A g \in machine.pci : Passed(g.at)
    <3> TAKE g \in machine.pci
    <3>1. g.at[1] \in 0 .. LastBus /\ LastBus \in Nat
      BY MachineType, FunctionParts, BootAssumption DEF Stages
    <3>2. QED
      BY <2>1, <3>1 DEF Passed
  <2>3. NvmePassed = {f.at : f \in {g \in machine.pci : g.nvme /\ Visible(g)}}
    BY <2>2 DEF NvmePassed
  <2>4. \A e \in 1 .. Len(machine.controllers) :
          machine.controllers[e] = "IOAPIC" => routed \in 1 .. e
    BY <2>1 DEF WalkSoFar, IsIoapic
  <2>5. QED
    BY <2>3, <2>4 DEF ScanSoFar
<1>2. QED
  BY BootInitInv, BootStepInv, <1>1, PTL DEF BootSpec
=============================================================================
