-------------------------------- MODULE Boot --------------------------------
(***************************************************************************)
(* EfiMain and KernelMain (src/main.c) around the machine of module        *)
(* Kernel, with the ACPI lookup (src/acpi.c), the walk over the interrupt  *)
(* controllers, the I/O APIC (src/ioapic.c), the PCI scan (src/pci.c) and  *)
(* the wait for the NVMe controller.                                       *)
(*                                                                         *)
(* Boot is the thread at program point "boot" of task 0; `stage' says      *)
(* where in EfiMain or KernelMain it is.  From Sti on interrupts come in   *)
(* between, and CapsLock may give the CPU to another task.                 *)
(***************************************************************************)
EXTENDS Kernel, Sequences

CONSTANTS
  Machines,    \* records, see Machine below
  MaxChanges,  \* how often firmware changes its memory map
  LastBus, LastDevice, LastFunction   \* 255, 31 and 7 on a PC

VARIABLES
  machine,     \* what firmware and hardware offer
  stage,       \* where boot is
  map_version, \* version of firmware's memory map
  map_key,     \* the version EfiMain holds
  g_xsdt,      \* whether ACPI_Init stored an XSDT
  handlers,    \* vectors with an entry in handler_table
  entry,       \* the MADT entry that ptr points at, 1 is the first
  routed,      \* the entry of the I/O APIC that IRQ 1 is mapped in, 0 if none
  at,          \* <<bus, device>> that PCI_ScanBus looks at next
  g_nvme,      \* the function found, <<>> if none
  bus_master,  \* functions with bus mastering enabled
  missed       \* history: a key was pressed that no interrupt announced

efiVars  == <<map_version, map_key>>
acpiVars == <<g_xsdt, entry, routed>>
pciVars  == <<at, g_nvme, bus_master>>
bootVars == <<machine, stage, efiVars, acpiVars, handlers, pciVars, missed>>
allVars  == <<kernelVars, bootVars>>

Functions == (0 .. LastBus) \X (0 .. LastDevice) \X (0 .. LastFunction)

(* A function in configuration space: its address, whether it is an NVMe   *)
(* controller, and whether its header type has the multi-function bit.     *)
Machine ==
  [gop : {"protocol", "handle", "none"},  \* how the graphics protocol is found
   image : BOOLEAN,                       \* LoadedImage found
   map : BOOLEAN,                         \* the memory map fits the buffer
   revision : 0 .. 2,                     \* of the RSDP, 0 without one
   madt : BOOLEAN,                        \* whether the XSDT lists one
   controllers : Seq({"LAPIC", "IOAPIC", "ISO"}),
   heap : BOOLEAN,                        \* whether memory is left for the heap
   pci : SUBSET [at : Functions, nvme : BOOLEAN, multi : BOOLEAN]]

ASSUME BootAssumption ==
  /\ MaxChanges \in Nat
  /\ LastBus \in Nat /\ LastDevice \in Nat /\ LastFunction \in Nat
  /\ Machines \subseteq Machine

(* User mode is the one thread that KernelMain enters: UserMain makes no   *)
(* SYSCALL_EXEC (main.c:75-116).  Module Kernel has what happens with more.*)
ASSUME OneUserThread == "EXEC" \notin Calls

EfiStage    == {"gop", "image", "get_map", "exit"}
KernelStage == {"acpi", "tables", "madt", "lapic", "controllers", "sti", "scan", "nvme",
                "kernel_stack", "user_stack", "ring3"}
EndStage    == {"efi_hang", "user", "hang", "halted"}

BootInit ==
  /\ KernelInit
  /\ machine \in Machines
  /\ stage = "gop"
  /\ map_version = 0 /\ map_key = 0
  /\ g_xsdt = FALSE
  /\ handlers = {}
  /\ entry = 1 /\ routed = 0
  /\ at = <<0, 0>> /\ g_nvme = <<>> /\ bus_master = {}
  /\ missed = FALSE

(* Boot executes the code of stage s; to is what comes next. *)
Step(s, to) ==
  /\ cpu.pc = "boot"
  /\ stage = s
  /\ stage' = to
  /\ UNCHANGED <<machine, missed>>

-----------------------------------------------------------------------------
(* EfiMain. *)
LocateGop ==
  /\ Step("gop", IF machine.gop = "none" THEN "efi_hang" ELSE "image")
  /\ UNCHANGED <<kernelVars, efiVars, acpiVars, handlers, pciVars>>

LoadedImage ==
  /\ Step("image", IF machine.image THEN "get_map" ELSE "efi_hang")
  /\ UNCHANGED <<kernelVars, efiVars, acpiVars, handlers, pciVars>>

GetMemoryMap ==
  /\ Step("get_map", IF machine.map THEN "exit" ELSE "efi_hang")
  /\ map_key' = IF machine.map THEN map_version ELSE map_key
  /\ UNCHANGED <<kernelVars, map_version, acpiVars, handlers, pciVars>>

(* Firmware's own timers may allocate between the two calls. *)
MapChanges ==
  /\ stage \in EfiStage
  /\ map_version < MaxChanges
  /\ map_version' = map_version + 1
  /\ UNCHANGED <<kernelVars, machine, stage, missed, map_key, acpiVars, handlers, pciVars>>

(* Where the loop goes when firmware refused a stale key. *)
Retry_SameMap == "exit"   \* variant

Retry == "get_map"

ExitBootServices ==
  /\ Step("exit", IF map_key = map_version THEN "acpi" ELSE Retry)
  /\ UNCHANGED <<kernelVars, efiVars, acpiVars, handlers, pciVars>>

-----------------------------------------------------------------------------
(* KernelMain with interrupts off.  The RSDP is the first entry of the     *)
(* configuration table with the ACPI 2.0 GUID; without one nothing of ACPI *)
(* is touched.                                                             *)
FoundRsdp == machine.revision > 0

ACPI_Init ==
  /\ Step("acpi", "tables")
  /\ g_xsdt' = (FoundRsdp /\ machine.revision >= 2)
  /\ UNCHANGED <<kernelVars, efiVars, entry, routed, handlers, pciVars>>

(* GDT_Init, IDT_Init (which empties handler_table), Syscall_Init,         *)
(* Graphics_Init, PageTable_Init and the heap.                             *)
DescriptorTables ==
  /\ Step("tables", "madt")
  /\ handlers' = {}
  /\ UNCHANGED <<kernelVars, efiVars, acpiVars, pciVars>>

(* What ACPI_FindTable("APIC") finds; without a MADT boot ends in the hlt  *)
(* loop.                                                                   *)
FoundMadt == g_xsdt /\ machine.madt

FindMadt ==
  /\ Step("madt", IF FoundRsdp /\ FoundMadt THEN "lapic" ELSE "halted")
  /\ UNCHANGED <<kernelVars, efiVars, acpiVars, handlers, pciVars>>

(* LAPIC_Init, the two handlers, calibration and the periodic timer.       *)
LapicSetup ==
  /\ Step("lapic", "controllers")
  /\ handlers' = {"timer", "keyboard"}
  /\ UNCHANGED <<kernelVars, efiVars, acpiVars, pciVars>>

(* One entry of the MADT: the walk stops at the first I/O APIC and maps    *)
(* the keyboard's IRQ there.                                               *)
WalkMadt ==
  LET found == entry <= Len(machine.controllers) /\ machine.controllers[entry] = "IOAPIC"
  IN  /\ Step("controllers", IF found \/ entry > Len(machine.controllers)
                               THEN "sti" ELSE "controllers")
      /\ routed' = IF found THEN entry ELSE routed
      /\ entry' = IF stage' = "controllers" THEN entry + 1 ELSE entry
      /\ UNCHANGED <<kernelVars, efiVars, g_xsdt, handlers, pciVars>>

(* Scheduler_Init and sti: from here on interrupts arrive. *)
Sti ==
  /\ Step("sti", "scan")
  /\ cpu' = [cpu EXCEPT !.if = TRUE]
  /\ UNCHANGED <<schedVars, mem, scratch, irr, isr, key, efiVars, acpiVars, handlers, pciVars>>

-----------------------------------------------------------------------------
(* The PCI scan, one PCI_CheckDevice a step.  Function 0 tells whether the *)
(* others are looked at; the variant looks at function 0 only.             *)
Probed_FunctionZero(b, d) == {f \in machine.pci : f.at = <<b, d, 0>>}

Probed(b, d) ==
  LET first == {f \in machine.pci : f.at = <<b, d, 0>>}
  IN  IF \E f \in first : f.multi
        THEN {f \in machine.pci : f.at[1] = b /\ f.at[2] = d}
        ELSE first

(* The loops over bus and device; the variant's bus counter has 8 bits and *)
(* so never reaches the end.                                               *)
AfterDevice_NarrowBus(b, d) ==
  IF d < LastDevice THEN <<b, d + 1>> ELSE <<(b + 1) % (LastBus + 1), 0>>

AfterDevice(b, d) == IF d < LastDevice THEN <<b, d + 1>> ELSE <<b + 1, 0>>

(* Every NVMe function met overwrites g_nvme_device and is made a bus      *)
(* master, in ascending order of functions.                                *)
PCI_CheckDevice ==
  LET hits == {f.at : f \in {g \in Probed(at[1], at[2]) : g.nvme}}
      next == AfterDevice(at[1], at[2])
  IN  /\ Step("scan", IF next[1] > LastBus THEN "nvme" ELSE "scan")
      /\ at' = next
      /\ bus_master' = bus_master \cup hits
      /\ \/ hits = {} /\ UNCHANGED g_nvme
         \/ \E f \in hits : (\A g \in hits : g[3] <= f[3]) /\ g_nvme' = f
      /\ UNCHANGED <<kernelVars, efiVars, acpiVars, handlers>>

(* NVMe_Init polls the controller that was found; module NvmeQueue has the *)
(* steps of it.                                                            *)
NVMe_Init ==
  /\ Step("nvme", "kernel_stack")
  /\ UNCHANGED <<kernelVars, efiVars, acpiVars, handlers, pciVars>>

(* The two stacks come from the heap; each failure is an endless loop. *)
KernelStack ==
  /\ Step("kernel_stack", IF machine.heap THEN "user_stack" ELSE "hang")
  /\ UNCHANGED <<kernelVars, efiVars, acpiVars, handlers, pciVars>>

UserStack ==
  /\ Step("user_stack", IF machine.heap THEN "ring3" ELSE "hang")
  /\ UNCHANGED <<kernelVars, efiVars, acpiVars, handlers, pciVars>>

EnterUserMode ==
  /\ Step("ring3", "user")
  /\ SwitchToUserMode
  /\ UNCHANGED <<efiVars, acpiVars, handlers, pciVars>>

BootStep ==
  \/ LocateGop \/ LoadedImage \/ GetMemoryMap \/ ExitBootServices
  \/ ACPI_Init \/ DescriptorTables \/ FindMadt \/ LapicSetup \/ WalkMadt \/ Sti
  \/ PCI_CheckDevice \/ NVMe_Init \/ KernelStack \/ UserStack \/ EnterUserMode

-----------------------------------------------------------------------------
(* The devices while boot runs.  The timer runs from LapicSetup on.  A key *)
(* pressed after ExitBootServices and before IRQ 1 is mapped stays in the  *)
(* keyboard controller, and the edge that announced it is gone: no later   *)
(* key raises another until the scancode is read.                          *)
TimerOn == handlers # {}

BootTick == TimerOn /\ Tick /\ UNCHANGED bootVars

BootKeyPress(k) ==
  /\ stage \notin EfiStage \cup {"efi_hang"}
  /\ \/ routed # 0 /\ KeyPress(k) /\ UNCHANGED bootVars
     \/ /\ routed = 0 /\ key = None
        /\ key' = k
        /\ missed' = TRUE
        /\ UNCHANGED <<schedVars, cpu, mem, scratch, irr, isr, machine, stage, efiVars, acpiVars,
                       handlers, pciVars>>

(* ExceptionHandler calls what handler_table holds for the vector. *)
Dispatch ==
  \/ "timer" \in handlers /\ Timer_Handler
  \/ "keyboard" \in handlers /\ Keyboard_Handler
  \/ /\ cpu.pc = "isr" /\ cpu.vec \notin handlers
     /\ cpu' = [cpu EXCEPT !.pc = "dead"]
     /\ UNCHANGED <<schedVars, mem, scratch, irr, isr, key>>

(* The kernel goes on: a handler, isr_restore or a step of a system call;  *)
(* by OneUserThread the call is never SYSCALL_EXEC.                        *)
KernelRuns ==
  /\ \/ Dispatch \/ isr_restore
     \/ EntrySwapGs \/ EntrySaveRsp \/ EntryStack
     \/ SyscallPrint \/ SyscallExec \/ SyscallTerminate \/ SyscallHalt \/ SyscallNvme
     \/ SysRet
  /\ UNCHANGED bootVars

(* Without a controller the queues are NULL and the poll never ends. *)
ControllerAnswers == g_nvme # <<>> /\ NvmeCompletes /\ UNCHANGED bootVars

(* Tasks are added once Scheduler_Init has run, before interrupts are on.  *)
AddTask == stage = "sti" /\ BootAddTask /\ UNCHANGED bootVars

BootInterrupt(v) == Interrupt(v) /\ UNCHANGED bootVars

UserCalls(c) == Syscall(c) /\ UNCHANGED bootVars

BootNext ==
  \/ BootStep
  \/ MapChanges
  \/ AddTask
  \/ KernelRuns
  \/ ControllerAnswers
  \/ \E v \in Vector : BootInterrupt(v)
  \/ \E c \in Calls : UserCalls(c)
  \/ BootTick
  \/ \E k \in Keys : BootKeyPress(k)

BootSpec == BootInit /\ [][BootNext]_allVars

(* Code that can run runs, although interrupts take the CPU from it again  *)
(* and again: the timer leaves most of its period to the interrupted code. *)
(* The controller answers, and interrupts that stay possible are taken.    *)
FairBootSpec ==
  /\ BootSpec
  /\ SF_allVars(BootStep) /\ WF_allVars(KernelRuns)
  /\ WF_allVars(ControllerAnswers)
  /\ \A v \in Vector : SF_allVars(BootInterrupt(v))

-----------------------------------------------------------------------------
BootTypeOK ==
  /\ KernelTypeOK
  /\ stage \in EfiStage \cup KernelStage \cup EndStage
  /\ map_version \in 0 .. MaxChanges /\ map_key \in 0 .. map_version
  /\ g_xsdt \in BOOLEAN /\ missed \in BOOLEAN
  /\ handlers \subseteq Vector
  /\ entry \in 1 .. (Len(machine.controllers) + 1)
  /\ routed \in 0 .. Len(machine.controllers)
  /\ at[1] \in 0 .. (LastBus + 1) /\ at[2] \in 0 .. LastDevice
  /\ g_nvme \in Functions \cup {<<>>}
  /\ bus_master \subseteq Functions

(* What enumeration found when user mode is prepared, whatever interrupts  *)
(* and switches came between (main.c:173-190, pci.c:50-112): the first I/O *)
(* APIC of the MADT, the last NVMe function in scan order that hardware    *)
(* lets software see, and every such function is a bus master.             *)
Visible(f) ==
  f.at[3] = 0 \/ \E g \in machine.pci : g.multi /\ g.at = <<f.at[1], f.at[2], 0>>

Later(x, y) == \E i \in 1 .. 3 : x[i] > y[i] /\ \A j \in 1 .. (i - 1) : x[j] = y[j]

DevicesFound ==
  stage \in {"kernel_stack", "user_stack", "ring3", "user"} =>
    LET nvme == {f.at : f \in {g \in machine.pci : g.nvme /\ Visible(g)}}
    IN  /\ bus_master = nvme
        /\ IF nvme = {} THEN g_nvme = <<>>
           ELSE g_nvme \in nvme /\ \A f \in nvme \ {g_nvme} : Later(g_nvme, f)
        /\ \A e \in 1 .. Len(machine.controllers) :
             machine.controllers[e] = "IOAPIC" => routed \in 1 .. e

(* Boot ends: in user mode, in the hlt loop or in one of the deliberate    *)
(* endless loops; the memory map may change under EfiMain (main.c:383-398) *)
(* and interrupts arrive from sti on.  It needs the CPU: not if CapsLock   *)
(* gave it to a task that keeps it.                                        *)
BootEnds == <>[](current_task_index = 0) => <>(stage \in EndStage)

(* Where the CPU stays with interrupts masked: in the hlt with which       *)
(* UserMain ends (syscall.c:202-204, main.c:111; run HaltIgnoresKeys), and *)
(* in a wait for a controller that does not exist.                         *)
NeverListens == cpu.pc = "hlt" \/ (cpu.pc = "poll" /\ g_nvme = <<>>)

(* As long as the machine listens, a key pressed once its interrupt is     *)
(* mapped is read (main.c:180, keyboard.c:44-57), in boot and in user      *)
(* mode, whatever switches and system calls come between.  Excepted are    *)
(* the two places of NeverListens, which the CPU never leaves, and a       *)
(* keyboard that was silent from the start because no interrupt announced  *)
(* a key: missed.                                                          *)
RoutedKeysAnswered ==
  (key # None /\ ~missed) ~> (key = None \/ NeverListens)
=============================================================================
