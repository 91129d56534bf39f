---------------------------- MODULE SyscallEntry ----------------------------
(***************************************************************************)
(* The registers over one system call (src/syscall_entry.S): saved, copied *)
(* into the argument places of Syscall_Handler, changed by the handler as  *)
(* its calling convention allows, and restored; and the segments, which    *)
(* SYSCALL and SYSRET take from the STAR register (src/syscall.c), while   *)
(* the IRETQ of a later interrupt looks them up in the GDT (src/gdt.c).    *)
(* GS and the stack switch are module Kernel's.                            *)
(*                                                                         *)
(* The instructions run one after another with interrupts off; pc is the   *)
(* number of those already executed.                                       *)
(***************************************************************************)
EXTENDS Naturals, Sequences

CONSTANT Values   \* what a register may hold

ASSUME ValuesAssumption == Values # {}

VARIABLES
  regs, cpu,      \* the general registers; RIP, RFLAGS, CS and SS
  stack, args,    \* what syscall_entry pushed, and the arguments on the stack
  pc,
  user            \* history: regs and cpu when the user made the call

vars == <<regs, cpu, stack, args, pc, user>>

(* The registers that hold a user's call, and those the entry path saves.  *)
(* rcx and r11 hold the user's RIP and RFLAGS, put there by the CPU.       *)
CallRegs  == {"rax", "rdi", "rsi", "rdx", "r10", "r8"}
SavedRegs == <<"rcx", "r11", "rbp", "rbx", "r12", "r13", "r14", "r15">>
Reg       == CallRegs \cup {"r9"} \cup {SavedRegs[i] : i \in 1 .. Len(SavedRegs)}

(* The GDT, by index, and the selectors made from it: index * 8 + ring.    *)
Gdt == [i \in 0 .. 6 |-> <<"null", "kernel code", "kernel data", "user data", "user code",
                            "TSS", "TSS, high part">>[i + 1]]

KERNEL_CODE_SEL == 8
USER_DATA_SEL   == 24 + 3
USER_CODE_SEL   == 32 + 3

(* MSR_STAR: what SYSCALL and SYSRET compute their selectors from.  The    *)
(* variant uses the selector that the comment above the code rejects.      *)
StarSysret_UserData == USER_DATA_SEL

StarSyscall == KERNEL_CODE_SEL
StarSysret  == 16 + 3

Ring3(selector) == (selector \div 4) * 4 + 3

(* The handler's convention (Win64) preserves these of the above.          *)
NonVolatile == {"rbp", "rbx", "r12", "r13", "r14", "r15"}

(* The copies in program order: two go to the stack, four to registers.    *)
Moves_Reordered == <<   \* variant: r8 is reused before it is copied
  [from |-> "r10", to |-> "arg5"], [from |-> "rax", to |-> "rcx"],
  [from |-> "rdi", to |-> "rdx"],  [from |-> "rsi", to |-> "r8"],
  [from |-> "r8",  to |-> "arg6"], [from |-> "rdx", to |-> "r9"] >>

Moves == <<
  [from |-> "r10", to |-> "arg5"], [from |-> "r8",  to |-> "arg6"],
  [from |-> "rax", to |-> "rcx"],  [from |-> "rdi", to |-> "rdx"],
  [from |-> "rsi", to |-> "r8"],   [from |-> "rdx", to |-> "r9"] >>

Pushed == Len(SavedRegs) + 1
Moved  == Pushed + Len(Moves)
Called == Moved + 1
Popped == Called + Len(SavedRegs)
Returned == Popped + 1

(* The saved registers hold distinct values, so that a mix-up shows.  r9 is *)
(* overwritten before it is read.                                           *)
Init ==
  /\ \E call \in [CallRegs -> Values], v \in Values :
       regs = [x \in Reg |-> IF x \in CallRegs THEN call[x] ELSE IF x = "r9" THEN v ELSE x]
  /\ cpu = [rip |-> "rip", rflags |-> "rflags", cs |-> USER_CODE_SEL, ss |-> USER_DATA_SEL]
  /\ user = [regs |-> regs, cpu |-> cpu]
  /\ stack = <<>>
  /\ args = [x \in {"arg5", "arg6"} |-> "none"]
  /\ pc = 0

(* The instruction itself, and the LSTAR address it continues at. *)
Syscall ==
  /\ pc = 0
  /\ regs' = [regs EXCEPT !["rcx"] = cpu.rip, !["r11"] = cpu.rflags]
  /\ cpu' = [rip |-> "syscall_entry", rflags |-> "masked",
             cs |-> StarSyscall, ss |-> StarSyscall + 8]
  /\ UNCHANGED <<stack, args, user>>

Push ==
  /\ pc >= 1 /\ pc < Pushed
  /\ stack' = Append(stack, regs[SavedRegs[pc]])
  /\ UNCHANGED <<regs, cpu, args, user>>

Move ==
  /\ pc >= Pushed /\ pc < Moved
  /\ LET m == Moves[pc - Pushed + 1]
     IN  IF m.to \in Reg
           THEN regs' = [regs EXCEPT ![m.to] = regs[m.from]] /\ UNCHANGED args
           ELSE args' = [args EXCEPT ![m.to] = regs[m.from]] /\ UNCHANGED regs
  /\ UNCHANGED <<stack, cpu, user>>

(* Syscall_Handler runs and returns 0; it may leave anything in the        *)
(* volatile registers.                                                     *)
CallHandler ==
  /\ pc = Moved
  /\ \E v \in Values :
       regs' = [x \in Reg |-> IF x \in NonVolatile THEN regs[x] ELSE v]
  /\ UNCHANGED <<stack, cpu, args, user>>

(* The register the next pop loads; the variant pops in push order. *)
PopsInto_PushOrder == SavedRegs[pc - Called + 1]

PopsInto == SavedRegs[Popped - pc]

Pop ==
  /\ pc >= Called /\ pc < Popped
  /\ regs' = [regs EXCEPT ![PopsInto] = stack[Len(stack)]]
  /\ stack' = SubSeq(stack, 1, Len(stack) - 1)
  /\ UNCHANGED <<args, cpu, user>>

SysRet ==
  /\ pc = Popped
  /\ cpu' = [rip |-> regs["rcx"], rflags |-> regs["r11"],
             cs |-> Ring3(StarSysret + 16), ss |-> Ring3(StarSysret + 8)]
  /\ UNCHANGED <<regs, stack, args, user>>

Next == (Syscall \/ Push \/ Move \/ CallHandler \/ Pop \/ SysRet) /\ pc' = pc + 1

Spec == Init /\ [][Next]_vars

-----------------------------------------------------------------------------
AtCall == pc = Moved

(* Syscall_Handler gets the call number, a1, a2, a4 and a5 the user passed *)
(* (syscall_entry.S:55-61), though the copies share registers with them.   *)
ArgumentsArrive ==
  AtCall => /\ regs["rcx"] = user.regs["rax"]
            /\ regs["rdx"] = user.regs["rdi"]
            /\ regs["r8"]  = user.regs["rsi"]
            /\ args["arg5"] = user.regs["r10"]
            /\ args["arg6"] = user.regs["r8"]

(* "R9  = a3 (RDX)" (syscall_entry.S:59). *)
Arg3Arrives == AtCall => regs["r9"] = user.regs["rdx"]

(* The user goes on where the call was made, with its RIP, RFLAGS and      *)
(* callee-saved registers (syscall_entry.S:33-40, 82-89), and in segments  *)
(* that the next interrupt's IRETQ finds in the GDT as user code and data: *)
(* SYSRET itself loads the selectors without a look at the GDT, so a wrong *)
(* STAR (syscall.c:113) would show only at the first interrupt after it.   *)
UserResumes ==
  pc = Returned =>
    /\ cpu = user.cpu
    /\ \A r \in NonVolatile : regs[r] = user.regs[r]
    /\ Gdt[cpu.cs \div 8] = "user code" /\ Gdt[cpu.ss \div 8] = "user data"
=============================================================================
