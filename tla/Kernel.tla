------------------------------- MODULE Kernel -------------------------------
(***************************************************************************)
(* One CPU running the tasks of module Scheduler: ring-3 and ring-0        *)
(* threads, interrupts (src/interrupt.c, src/keyboard.c, src/timer.c), the *)
(* system call path (src/syscall_entry.S, src/syscall.c) and the context   *)
(* switches that both end in isr_restore.                                  *)
(*                                                                         *)
(* A context is whose registers and whose stack pointer it holds, and      *)
(* where it will continue.  mem maps a page to the context saved on it;    *)
(* a system call leaves its own, differently laid out, record at the top   *)
(* of the stack in TSS.RSP0, over any frame that was saved there.          *)
(***************************************************************************)
EXTENDS Scheduler

CONSTANTS
  BootStack, \* the page of the stack KernelMain runs on
  Calls,     \* the system calls that user programs make
  Keys,      \* the keys that are pressed
  Faults     \* whether threads fault and spurious interrupts arrive

ASSUME KernelAssumption ==
  /\ BootStack \in BootUsed \ {NULL, Rsp0}
  /\ Calls \subseteq {"PRINT", "EXEC", "TERMINATE", "HALT", "NVME_READ"}
  /\ Keys \subseteq {"CapsLock", "Esc", "Letter"}
  /\ Faults \in BOOLEAN

VARIABLES
  cpu,       \* the registers, see CPU below
  mem,       \* page -> what was last saved at its top
  scratch,   \* GS base -> user_rsp_scratch found there: whose stack pointer
  irr, isr,  \* LAPIC: vectors requested, vectors in service
  key        \* scancode in the keyboard controller, or None

kernelVars == <<schedVars, cpu, mem, scratch, irr, isr, key>>

None == "None"

Vector == {"keyboard", "timer"}

Priority(v) == CASE v = "keyboard" -> 2 [] v = "timer" -> 4

(* Program points.  Threads run at "user" (ring 3) and "ring0"; "swapgs",  *)
(* "save_rsp" and "stack" are the first instructions of syscall_entry;     *)
(* "poll" is the completion loop of the NVMe driver; "hlt" is the hlt of   *)
(* SYSCALL_HALT and "dead" the hlt loop at the end of ExceptionHandler.    *)
Thread == {"user", "ring0"}
Entry  == {"swapgs", "save_rsp", "stack"}
Point  == Thread \cup Entry \cup
          {"boot", "isr", "iret", "handler", "poll", "sysret", "hlt", "dead"}

CPU == [pc : Point, regs : Slot, stack : Slot, if : BOOLEAN,
        gs : {"user", "cpu_data"},
        sp : Page,                    \* page of the frame being handled
        call : {"none"} \cup Calls,   \* system call being served
        vec : {"none", "fault", "spurious"} \cup Vector]

Saved == [kind : {"empty", "frame", "syscall"}, regs : Slot, stack : Slot, pc : Point]

Frame(i, at) == [kind |-> "frame", regs |-> i, stack |-> i, pc |-> at]

SwapGs(gs) == IF gs = "user" THEN "cpu_data" ELSE "user"

-----------------------------------------------------------------------------
KernelInit ==
  /\ SchedInit
  /\ cpu = [pc |-> "boot", regs |-> 0, stack |-> 0, if |-> FALSE, gs |-> "user",
            sp |-> NULL, call |-> "none", vec |-> "none"]
  /\ mem = [p \in Page |-> [Frame(0, "boot") EXCEPT !.kind = "empty"]]
  /\ scratch = [g \in {"user", "cpu_data"} |-> 0]
  /\ irr = {} /\ isr = {}
  /\ key = None

(* A task added by a step has its first frame built at its rsp. *)
FirstFrame(at) ==
  mem' = IF total_tasks \in Slot /\ tasks'[total_tasks].active
           THEN [mem EXCEPT ![tasks'[total_tasks].rsp] = Frame(total_tasks, at)]
           ELSE mem

(* Kernel tasks are added before KernelMain enters user mode. *)
BootAddTask ==
  /\ cpu.pc = "boot" /\ ~cpu.if
  /\ Scheduler_AddTask
  /\ FirstFrame("ring0")
  /\ UNCHANGED <<cpu, scratch, irr, isr, key>>

SwitchToUserMode ==
  /\ cpu.pc = "boot"
  /\ cpu' = [cpu EXCEPT !.pc = "user", !.if = TRUE]
  /\ UNCHANGED <<schedVars, mem, scratch, irr, isr, key>>

-----------------------------------------------------------------------------
(* Interrupts and exceptions.  The CPU pushes at the top of the stack in   *)
(* TSS.RSP0 when it comes from ring 3, else where the stack pointer is.    *)
(* Here interrupts are off until user mode is entered; module Boot turns   *)
(* them on where KernelMain does.                                          *)
PushAt_AlwaysRsp0 == Rsp0   \* variant: as if every interrupt came from ring 3

PushAt ==
  IF cpu.pc \in {"ring0"} \cup Entry THEN tasks[cpu.stack].stack_base
  ELSE IF cpu.pc = "boot" THEN BootStack ELSE Rsp0

Enter(v) ==
  /\ mem' = [mem EXCEPT ![PushAt] =
       [kind |-> "frame", regs |-> cpu.regs, stack |-> cpu.stack, pc |-> cpu.pc]]
  /\ cpu' = [cpu EXCEPT !.pc = "isr", !.if = FALSE, !.sp = PushAt, !.vec = v]
  /\ UNCHANGED <<schedVars, scratch, key>>

Interrupt(v) ==
  /\ cpu.if
  /\ v \in irr
  /\ \A w \in (irr \cup isr) \ {v} : Priority(w) < Priority(v)
  /\ v \notin isr
  /\ irr' = irr \ {v} /\ isr' = isr \cup {v}
  /\ Enter(v)

Exception ==
  /\ Faults
  /\ \/ cpu.pc \in Thread /\ Enter("fault")
     \/ cpu.if /\ Enter("spurious")
  /\ UNCHANGED <<irr, isr>>

(* Variant: behind the switch, where the handler's early returns skip it. *)
EOI_AfterSwitch ==
  IF cpu.vec = "keyboard" /\ key \in {"CapsLock", "Esc"}
    THEN UNCHANGED isr
    ELSE isr' = {v \in isr : \E w \in isr : Priority(v) < Priority(w)}

EOI == isr' = {v \in isr : \E w \in isr : Priority(v) < Priority(w)}

(* The handler's frame pointer: moved to the next task's rsp when the      *)
(* scheduler switched.  The variant returns the frame it was called with.  *)
ToRestore_Unmoved == cpu.sp

ToRestore == IF current_task_index' = current_task_index
               THEN cpu.sp ELSE tasks'[current_task_index'].rsp

Timer_Handler ==
  /\ cpu.pc = "isr" /\ cpu.vec = "timer"
  /\ EOI
  /\ cpu' = [cpu EXCEPT !.pc = "iret"]
  /\ UNCHANGED <<schedVars, mem, scratch, irr, key>>

Keyboard_Handler ==
  /\ cpu.pc = "isr" /\ cpu.vec = "keyboard"
  /\ key' = None
  /\ EOI
  /\ \/ key = "CapsLock" /\ Scheduler_Switch(cpu.sp)
     \/ key = "Esc" /\ Scheduler_TerminateCurrentTask
     \/ key \notin {"CapsLock", "Esc"} /\ UNCHANGED schedVars
  /\ cpu' = [cpu EXCEPT !.pc = "iret", !.sp = ToRestore]
  /\ UNCHANGED <<mem, scratch, irr>>

(* No handler is registered for any other vector. *)
ExceptionHandler ==
  /\ cpu.pc = "isr" /\ cpu.vec \notin Vector
  /\ cpu' = [cpu EXCEPT !.pc = "dead"]
  /\ UNCHANGED <<schedVars, mem, scratch, irr, isr, key>>

(* isr_restore reloads what is at the stack pointer.  When that is not an  *)
(* interrupt frame, the words iretq takes for CS and SS are not selectors, *)
(* and the fault finds no handler.  GS is not part of a frame.             *)
isr_restore ==
  LET saved == mem[cpu.sp]
  IN  /\ cpu.pc = "iret"
      /\ cpu' = IF saved.kind = "frame"
                  THEN [cpu EXCEPT !.pc = saved.pc, !.regs = saved.regs,
                                   !.stack = saved.stack, !.if = TRUE]
                  ELSE [cpu EXCEPT !.pc = "dead"]
      /\ UNCHANGED <<schedVars, mem, scratch, irr, isr, key>>

-----------------------------------------------------------------------------
(* The system call path.  SFMASK clears IF; the variant leaves it alone. *)
SyscallMask_Unset(if) == if

SyscallMask(if) == FALSE

Syscall(c) ==
  /\ cpu.pc = "user"
  /\ cpu' = [cpu EXCEPT !.pc = "swapgs", !.if = SyscallMask(@), !.call = c]
  /\ UNCHANGED <<schedVars, mem, scratch, irr, isr, key>>

EntrySwapGs ==
  /\ cpu.pc = "swapgs"
  /\ cpu' = [cpu EXCEPT !.pc = "save_rsp", !.gs = SwapGs(@)]
  /\ UNCHANGED <<schedVars, mem, scratch, irr, isr, key>>

EntrySaveRsp ==
  /\ cpu.pc = "save_rsp"
  /\ scratch' = [scratch EXCEPT ![cpu.gs] = cpu.stack]
  /\ cpu' = [cpu EXCEPT !.pc = "stack"]
  /\ UNCHANGED <<schedVars, mem, irr, isr, key>>

(* Load the stack pointer from TSS.RSP0 and push the user's registers. *)
EntryStack ==
  /\ cpu.pc = "stack"
  /\ mem' = [mem EXCEPT ![Rsp0] =
       [kind |-> "syscall", regs |-> cpu.regs, stack |-> cpu.stack, pc |-> "user"]]
  /\ cpu' = [cpu EXCEPT !.pc = "handler"]
  /\ UNCHANGED <<schedVars, scratch, irr, isr, key>>

(* Syscall_Handler. A non-zero result is the rsp of the task to run next.  *)
Serve(c) == cpu.pc = "handler" /\ cpu.call = c

SyscallPrint ==
  /\ Serve("PRINT")
  /\ cpu' = [cpu EXCEPT !.pc = "sysret"]
  /\ UNCHANGED <<schedVars, mem, scratch, irr, isr, key>>

SyscallExec ==
  /\ Serve("EXEC")
  /\ \E n \in StackSizes : Syscall_Exec(n)
  /\ FirstFrame("user")
  /\ cpu' = [cpu EXCEPT !.pc = "sysret"]
  /\ UNCHANGED <<scratch, irr, isr, key>>

SyscallTerminate ==
  /\ Serve("TERMINATE")
  /\ Scheduler_TerminateCurrentTask
  /\ cpu' = IF current_task_index' = current_task_index
              THEN [cpu EXCEPT !.pc = "sysret"]
              ELSE [cpu EXCEPT !.pc = "iret", !.sp = ToRestore]
  /\ UNCHANGED <<mem, scratch, irr, isr, key>>

(* hlt with IF clear: no interrupt ends it. *)
SyscallHalt ==
  /\ Serve("HALT")
  /\ cpu' = [cpu EXCEPT !.pc = "hlt"]
  /\ UNCHANGED <<schedVars, mem, scratch, irr, isr, key>>

SyscallNvme ==
  /\ Serve("NVME_READ")
  /\ cpu' = [cpu EXCEPT !.pc = "poll"]
  /\ UNCHANGED <<schedVars, mem, scratch, irr, isr, key>>

(* The controller posts the completion the driver polls for. *)
NvmeCompletes ==
  /\ cpu.pc = "poll"
  /\ cpu' = [cpu EXCEPT !.pc = "sysret"]
  /\ UNCHANGED <<schedVars, mem, scratch, irr, isr, key>>

SysRet ==
  /\ cpu.pc = "sysret"
  /\ cpu' = [cpu EXCEPT !.pc = "user", !.if = TRUE, !.regs = mem[Rsp0].regs,
                        !.stack = scratch[cpu.gs], !.gs = SwapGs(@), !.call = "none"]
  /\ UNCHANGED <<schedVars, mem, scratch, irr, isr, key>>

-----------------------------------------------------------------------------
(* The devices.  The timer period (1 ms) is longer than its handler.       *)
Tick ==
  /\ ~(cpu.pc \in {"isr", "iret"} /\ cpu.vec = "timer")
  /\ irr' = irr \cup {"timer"}
  /\ UNCHANGED <<schedVars, cpu, mem, scratch, isr, key>>

(* The keyboard controller holds one scancode until it is read. *)
KeyPress(k) ==
  /\ key = None
  /\ key' = k
  /\ irr' = irr \cup {"keyboard"}
  /\ UNCHANGED <<schedVars, cpu, mem, scratch, isr>>

KernelStep ==
  \/ Timer_Handler \/ Keyboard_Handler \/ ExceptionHandler \/ isr_restore
  \/ EntrySwapGs \/ EntrySaveRsp \/ EntryStack
  \/ SyscallPrint \/ SyscallExec \/ SyscallTerminate \/ SyscallHalt \/ SyscallNvme
  \/ SysRet

KernelNext ==
  \/ BootAddTask \/ SwitchToUserMode
  \/ KernelStep
  \/ \E v \in Vector : Interrupt(v)
  \/ Exception
  \/ \E c \in Calls : Syscall(c)
  \/ NvmeCompletes
  \/ Tick
  \/ \E k \in Keys : KeyPress(k)

KernelSpec == KernelInit /\ [][KernelNext]_kernelVars

(* The CPU keeps executing kernel code, boot ends, the controller answers, *)
(* and an interrupt that can be taken again and again is taken.            *)
FairKernelSpec ==
  /\ KernelSpec
  /\ WF_kernelVars(KernelStep) /\ WF_kernelVars(SwitchToUserMode)
  /\ WF_kernelVars(NvmeCompletes)
  /\ \A v \in Vector : SF_kernelVars(Interrupt(v))

-----------------------------------------------------------------------------
KernelTypeOK ==
  /\ TypeOK
  /\ cpu \in CPU
  /\ mem \in [Page -> Saved]
  /\ scratch \in [{"user", "cpu_data"} -> Slot]
  /\ irr \subseteq Vector /\ isr \subseteq Vector
  /\ key \in Keys \cup {None}

(* A ring-0 task keeps its context over any interleaving of interrupts,    *)
(* switches and system calls of others (interrupt.c:188-228): its frame is *)
(* its own while it waits, and the CPU runs its registers on its stack     *)
(* whenever it is the current task.                                        *)
KernelTaskContexts ==
  \A i \in ActiveSlots :
    IsKernelTask(i) =>
      IF i # current_task_index
        THEN mem[tasks[i].rsp] = Frame(i, "ring0")
        ELSE cpu.pc \in Thread => cpu.pc = "ring0" /\ cpu.regs = i /\ cpu.stack = i

(* A user task starts from the frame that Scheduler_AddUserTask built      *)
(* (schedule.c:84-107), however late its first turn comes and whatever is  *)
(* allocated, freed and saved until then.                                  *)
FirstFrameIntact ==
  \A i \in ActiveSlots \ {current_task_index} :
    kstack[i] # NULL /\ tasks[i].rsp = kstack[i] => mem[kstack[i]] = Frame(i, "user")

(* The stack pointer a system call saves in the single user_rsp_scratch    *)
(* word comes back to the thread that made the call (syscall_entry.S:24,   *)
(* 92): registers and stack in the CPU always belong to the same thread.   *)
StackMatchesRegisters == cpu.pc \in Thread => cpu.regs = cpu.stack

(* Every handler acknowledges its interrupt on every way out, the returns  *)
(* right after a switch included (keyboard.c:46-56, timer.c:10), before    *)
(* the interrupted or another thread continues.                            *)
Acknowledged == cpu.if => isr = {}

(* Every step of the machine is a step of the scheduler's specification or *)
(* leaves the task table and the bitmap alone.                             *)
ImplementsScheduler == SchedSpec

(* Context switching works (README.md:16, schedule.c:80-81): the context   *)
(* in the CPU is that of the current task.                                 *)
ContextPreserved ==
  /\ cpu.pc \in Thread \cup {"boot"} => cpu.regs = current_task_index
  /\ cpu.pc # "dead"

(* "When executing 'swapgs' in syscall_entry, GS Base will point here"     *)
(* (syscall.c:35): Syscall_Handler runs with GS on cpu_data.               *)
GsOnCpuData == cpu.pc = "handler" => cpu.gs = "cpu_data"

(* A key press takes effect (README.md:38-41): the scancode is read and    *)
(* acted upon.                                                             *)
KeysAnswered == key # None ~> key = None
=============================================================================
