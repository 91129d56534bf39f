------------------------- MODULE SyscallEntry_proofs -------------------------
(***************************************************************************)
(* Proofs about SyscallEntry for every value the user's registers and the  *)
(* registers left by the handler may hold.                                 *)
(***************************************************************************)
EXTENDS SyscallEntry, TLAPS

(* What the i-th push puts on the stack: the first two are what SYSCALL    *)
(* left in rcx and r11.                                                    *)
Kept(i) == IF i = 1 THEN user.cpu.rip
           ELSE IF i = 2 THEN user.cpu.rflags
           ELSE user.regs[SavedRegs[i]]

(* How deep the stack is before an instruction: it grows over the pushes   *)
(* and shrinks over the pops.                                              *)
Depth == IF pc = 0 THEN 0
         ELSE IF pc <= 9 THEN pc - 1
         ELSE IF pc <= 16 THEN 8
         ELSE IF pc <= 24 THEN 24 - pc
         ELSE 0

EntryTypes ==
  /\ pc \in Nat
  /\ DOMAIN regs = Reg /\ regs = [x \in Reg |-> regs[x]]
  /\ args = [x \in {"arg5", "arg6"} |-> args[x]]
  /\ stack \in Seq({Kept(i) : i \in 1 .. 8})
  /\ user.cpu = [rip |-> user.cpu.rip, rflags |-> user.cpu.rflags,
                 cs |-> USER_CODE_SEL, ss |-> USER_DATA_SEL]

(* The stack holds what was pushed, in order, and the preserved registers  *)
(* have their values from the call to the return (syscall_entry.S:33-40,   *)
(* 82-89).                                                                 *)
SavedOnStack ==
  /\ Len(stack) = Depth
  /\ \A i \in 1 .. Depth : stack[i] = Kept(i)
  /\ \A r \in NonVolatile : regs[r] = user.regs[r]

(* What SYSRET reads: as SYSCALL left it until it is pushed, and again     *)
(* once it is popped.                                                      *)
ReturnPoint ==
  /\ pc = 0 => cpu = user.cpu
  /\ pc \in 1 .. 9 \cup {24} => regs["rcx"] = user.cpu.rip
  /\ pc \in 1 .. 9 \cup {23, 24} => regs["r11"] = user.cpu.rflags
  /\ pc = 25 => cpu = user.cpu

(* A register is copied before it is overwritten (syscall_entry.S:51-61).  *)
Copied ==
  /\ pc <= 15 => \A r \in {"rax", "rdi", "rsi", "r10"} : regs[r] = user.regs[r]
  /\ pc <= 13 => regs["r8"] = user.regs["r8"]
  /\ pc \in 10 .. 15 => args["arg5"] = user.regs["r10"]
  /\ pc \in 11 .. 15 => args["arg6"] = user.regs["r8"]
  /\ pc \in 12 .. 15 => regs["rcx"] = user.regs["rax"]
  /\ pc \in 13 .. 15 => regs["rdx"] = user.regs["rdi"]
  /\ pc \in 14 .. 15 => regs["r8"] = user.regs["rsi"]

EntryInv == EntryTypes /\ SavedOnStack /\ ReturnPoint /\ Copied

-----------------------------------------------------------------------------
LEMMA Lengths ==
  /\ Len(SavedRegs) = 8 /\ Len(Moves) = 6
  /\ Pushed = 9 /\ Moved = 15 /\ Called = 16 /\ Popped = 24 /\ Returned = 25
<1>1. Len(SavedRegs) = 8
  BY DEF SavedRegs
<1>2. Len(Moves) = 6
  BY DEF Moves
<1>3. QED
  BY <1>1, <1>2 DEF Pushed, Moved, Called, Popped, Returned

LEMMA Registers ==
  /\ SavedRegs[1] = "rcx" /\ SavedRegs[2] = "r11"
  /\ SavedRegs[3] = "rbp" /\ SavedRegs[4] = "rbx"
  /\ SavedRegs[5] = "r12" /\ SavedRegs[6] = "r13" /\ SavedRegs[7] = "r14" /\ SavedRegs[8] = "r15"
  /\ Reg = CallRegs \cup {"r9", "rcx", "r11"} \cup NonVolatile
<1>1. /\ SavedRegs[1] = "rcx" /\ SavedRegs[2] = "r11"
      /\ SavedRegs[3] = "rbp" /\ SavedRegs[4] = "rbx"
      /\ SavedRegs[5] = "r12" /\ SavedRegs[6] = "r13" /\ SavedRegs[7] = "r14" /\ SavedRegs[8] = "r15"
  BY DEF SavedRegs
<1>2. 1 .. 8 = {1, 2, 3, 4, 5, 6, 7, 8}
  OBVIOUS
<1>3. {SavedRegs[i] : i \in 1 .. 8} = {"rcx", "r11"} \cup NonVolatile
  BY <1>1, <1>2 DEF NonVolatile
<1>4. Reg = CallRegs \cup {"r9"} \cup {SavedRegs[i] : i \in 1 .. 8}
  BY Lengths DEF Reg
<1>5. QED
  BY <1>1, <1>3, <1>4

LEMMA EntryInit == Init => EntryInv
<1> SUFFICES ASSUME Init PROVE EntryInv
  OBVIOUS
<1>1. PICK call \in [CallRegs -> Values], v \in Values :
        regs = [x \in Reg |-> IF x \in CallRegs THEN call[x] ELSE IF x = "r9" THEN v ELSE x]
  BY DEF Init
<1>2. /\ cpu = [rip |-> "rip", rflags |-> "rflags", cs |-> USER_CODE_SEL, ss |-> USER_DATA_SEL]
      /\ user.regs = regs /\ user.cpu = cpu
      /\ stack = <<>> /\ pc = 0
      /\ args = [x \in {"arg5", "arg6"} |-> "none"]
  BY DEF Init
<1>3. EntryTypes
  BY <1>1, <1>2 DEF EntryTypes
<1>4. SavedOnStack
  BY <1>2 DEF SavedOnStack, Depth
<1>5. ReturnPoint /\ Copied
  BY <1>2 DEF ReturnPoint, Copied
<1>6. QED
  BY <1>3, <1>4, <1>5 DEF EntryInv

LEMMA SyscallInstruction ==
  ASSUME EntryInv, Syscall, pc' = pc + 1
  PROVE  EntryInv'
<1> USE DEF EntryInv
<1>1. /\ pc = 0 /\ pc' = 1 /\ UNCHANGED <<stack, args, user>>
      /\ regs' = [regs EXCEPT !["rcx"] = user.cpu.rip, !["r11"] = user.cpu.rflags]
  <2>1. pc = 0 /\ cpu = user.cpu
    BY DEF Syscall, ReturnPoint
  <2>2. QED
    BY <2>1 DEF Syscall
<1>2. "rcx" \in Reg /\ "r11" \in Reg /\ NonVolatile \cup CallRegs \subseteq Reg \ {"rcx", "r11"}
  BY Registers DEF NonVolatile, CallRegs
<1>3. /\ regs'["rcx"] = user.cpu.rip /\ regs'["r11"] = user.cpu.rflags
      /\ \A r \in NonVolatile \cup CallRegs : regs'[r] = regs[r]
  BY <1>1, <1>2 DEF EntryTypes
<1>4. EntryTypes'
  <2>1. DOMAIN regs' = Reg /\ regs' = [x \in Reg |-> regs'[x]]
    BY <1>1, <1>2 DEF EntryTypes
  <2>2. QED
    BY <1>1, <2>1 DEF EntryTypes, Kept
<1>5. SavedOnStack'
  <2>1. Depth = 0 /\ Depth' = 0
    BY <1>1 DEF Depth
  <2>2. Len(stack) = 0 /\ \A r \in NonVolatile : regs[r] = user.regs[r]
    BY <2>1 DEF SavedOnStack
  <2>3. \A r \in NonVolatile : regs'[r] = user'.regs[r]
    BY <1>1, <1>3, <2>2
  <2>4. 1 .. Depth' = {} /\ Len(stack') = Depth'
    BY <1>1, <2>1, <2>2
  <2>5. QED
    BY <2>3, <2>4 DEF SavedOnStack
<1>6. ReturnPoint'
  BY <1>1, <1>3 DEF ReturnPoint
<1>7. Copied'
  <2>1. \A r \in {"rax", "rdi", "rsi", "r10", "r8"} : regs'[r] = user.regs[r]
    <3>1. \A r \in {"rax", "rdi", "rsi", "r10", "r8"} : r \in CallRegs /\ regs[r] = user.regs[r]
      BY <1>1 DEF Copied, CallRegs
    <3>2. QED
      BY <1>3, <3>1
  <2>2. QED
    BY <1>1, <2>1 DEF Copied
<1>8. QED
  BY <1>4, <1>5, <1>6, <1>7

(* A push in order: what it saves is what the register held at the call,   *)
(* or what SYSCALL put there.                                              *)
LEMMA PushInstruction ==
  ASSUME EntryInv, Push, pc' = pc + 1
  PROVE  EntryInv'
<1> USE DEF EntryInv
<1>1. /\ pc \in 1 .. 8 /\ pc' = pc + 1 /\ UNCHANGED <<regs, cpu, args, user>>
      /\ stack' = Append(stack, regs[SavedRegs[pc]])
  BY Lengths DEF Push, EntryTypes
<1>2. regs[SavedRegs[pc]] = Kept(pc)
  <2>1. CASE pc = 1 \/ pc = 2
    BY <1>1, <2>1, Registers DEF ReturnPoint, Kept
  <2>2. CASE pc \in 3 .. 8
    <3>1. SavedRegs[pc] \in NonVolatile
      <4>1. pc \in {3, 4, 5, 6, 7, 8}
        BY <2>2
      <4>2. QED
        BY <4>1, Registers DEF NonVolatile
    <3>2. QED
      BY <2>2, <3>1 DEF SavedOnStack, Kept
  <2>3. QED
    BY <1>1, <2>1, <2>2
<1> DEFINE S == {Kept(i) : i \in 1 .. 8}
<1>3. Kept(pc) \in S /\ stack \in Seq(S) /\ Len(stack) = pc - 1
  BY <1>1 DEF EntryTypes, SavedOnStack, Depth
<1> HIDE DEF S
<1>4. /\ stack' \in Seq(S) /\ Len(stack') = pc /\ stack'[pc] = Kept(pc)
      /\ \A i \in 1 .. (pc - 1) : stack'[i] = stack[i]
  BY <1>1, <1>2, <1>3
<1>5. \A i : Kept(i)' = Kept(i)
  BY <1>1 DEF Kept
<1>6. EntryTypes'
  BY <1>1, <1>4, <1>5 DEF EntryTypes, S
<1>7. SavedOnStack'
  <2>1. Depth = pc - 1 /\ Depth' = pc
    BY <1>1 DEF Depth
  <2>2. QED
    BY <1>1, <1>4, <1>5, <2>1 DEF SavedOnStack
<1>8. ReturnPoint' /\ Copied'
  BY <1>1 DEF ReturnPoint, Copied
<1>9. QED
  BY <1>6, <1>7, <1>8

-----------------------------------------------------------------------------
LEMMA MoveTable ==
  /\ Moves[1].from = "r10" /\ Moves[1].to = "arg5"
  /\ Moves[2].from = "r8"  /\ Moves[2].to = "arg6"
  /\ Moves[3].from = "rax" /\ Moves[3].to = "rcx"
  /\ Moves[4].from = "rdi" /\ Moves[4].to = "rdx"
  /\ Moves[5].from = "rsi" /\ Moves[5].to = "r8"
  /\ Moves[6].from = "rdx" /\ Moves[6].to = "r9"
  BY DEF Moves

(* The copies leave the stack and the preserved registers alone.           *)
LEMMA MoveKeeps ==
  ASSUME EntryInv, pc \in 9 .. 14, pc' = pc + 1, UNCHANGED <<stack, cpu, user>>,
         DOMAIN regs' = Reg, regs' = [x \in Reg |-> regs'[x]],
         args' = [x \in {"arg5", "arg6"} |-> args'[x]],
         \A r \in NonVolatile : regs'[r] = regs[r]
  PROVE  EntryTypes' /\ SavedOnStack' /\ ReturnPoint'
<1> USE DEF EntryInv
<1>1. EntryTypes'
  BY DEF EntryTypes, Kept
<1>2. SavedOnStack'
  <2>1. Depth = 8 /\ Depth' = 8
    BY DEF Depth
  <2>2. Len(stack') = 8 /\ \A i \in 1 .. 8 : stack'[i] = Kept(i)'
    BY <2>1 DEF SavedOnStack, Kept
  <2>3. \A r \in NonVolatile : regs'[r] = user'.regs[r]
    BY DEF SavedOnStack
  <2>4. QED
    BY <2>1, <2>2, <2>3 DEF SavedOnStack
<1>3. ReturnPoint'
  BY DEF ReturnPoint
<1>4. QED
  BY <1>1, <1>2, <1>3

LEMMA MoveInstruction ==
  ASSUME EntryInv, Move, pc' = pc + 1
  PROVE  EntryInv'
<1> DEFINE m == Moves[pc - 8]
<1> USE DEF EntryInv
<1>1. pc \in 9 .. 14 /\ UNCHANGED <<stack, cpu, user>>
  BY Lengths DEF Move, EntryTypes
<1>2. IF m.to \in Reg
        THEN regs' = [regs EXCEPT ![m.to] = regs[m.from]] /\ UNCHANGED args
        ELSE args' = [args EXCEPT ![m.to] = regs[m.from]] /\ UNCHANGED regs
  <2>1. pc - Pushed + 1 = pc - 8
    BY <1>1, Lengths
  <2>2. QED
    BY <2>1 DEF Move
<1>3. /\ \A r \in {"rax", "rdi", "rsi", "r10"} : regs[r] = user.regs[r]
      /\ pc <= 13 => regs["r8"] = user.regs["r8"]
  BY <1>1 DEF Copied
<1>4. /\ "arg5" \notin Reg /\ "arg6" \notin Reg
      /\ {"rcx", "rdx", "r8", "r9"} \subseteq Reg \ NonVolatile
      /\ {"rax", "rdi", "rsi", "r10", "r8", "rcx", "rdx", "r9"} \subseteq Reg
  BY Registers DEF CallRegs, NonVolatile
<1>5. CASE pc = 9 \/ pc = 10
  <2> DEFINE to == IF pc = 9 THEN "arg5" ELSE "arg6"
             from == IF pc = 9 THEN "r10" ELSE "r8"
  <2>1. m.to = to /\ m.from = from
    BY <1>5, MoveTable
  <2>2. args' = [args EXCEPT ![to] = regs[from]] /\ UNCHANGED regs
    BY <1>2, <1>4, <2>1
  <2>3. args' = [x \in {"arg5", "arg6"} |-> args'[x]]
    BY <2>2 DEF EntryTypes
  <2>4. EntryTypes' /\ SavedOnStack' /\ ReturnPoint'
    BY <1>1, <2>2, <2>3, MoveKeeps DEF EntryTypes
  <2>5. args'[to] = user.regs[from] /\ (pc = 10 => args'["arg5"] = user.regs["r10"])
    <3>1. regs[from] = user.regs[from]
      BY <1>1, <1>3, <1>5
    <3>2. args'[to] = regs[from] /\ (pc = 10 => args'["arg5"] = args["arg5"])
      BY <2>2 DEF EntryTypes
    <3>3. QED
      BY <3>1, <3>2 DEF Copied
  <2>6. Copied'
    <3>1. CASE pc = 9
      BY <1>1, <1>3, <2>2, <2>5, <3>1 DEF Copied
    <3>2. CASE pc = 10
      BY <1>1, <1>3, <2>2, <2>5, <3>2 DEF Copied
    <3>3. QED
      BY <1>5, <3>1, <3>2
  <2>7. QED
    BY <2>4, <2>6
<1>6. CASE pc \in 11 .. 14
  <2> DEFINE to == IF pc = 11 THEN "rcx" ELSE IF pc = 12 THEN "rdx"
                   ELSE IF pc = 13 THEN "r8" ELSE "r9"
             from == IF pc = 11 THEN "rax" ELSE IF pc = 12 THEN "rdi"
                     ELSE IF pc = 13 THEN "rsi" ELSE "rdx"
  <2>1. m.to = to /\ m.from = from
    BY <1>6, MoveTable
  <2>2. to \in Reg \ NonVolatile /\ to \in {"rcx", "rdx", "r8", "r9"}
    BY <1>4
  <2>3. regs' = [regs EXCEPT ![to] = regs[from]] /\ UNCHANGED args
    BY <1>2, <2>1, <2>2
  <2> HIDE DEF to, from
  <2>4. regs'[to] = regs[from] /\ \A r \in Reg \ {to} : regs'[r] = regs[r]
    BY <2>2, <2>3 DEF EntryTypes
  <2>5. EntryTypes' /\ SavedOnStack' /\ ReturnPoint'
    <3>1. DOMAIN regs' = Reg /\ regs' = [x \in Reg |-> regs'[x]]
      BY <2>3 DEF EntryTypes
    <3>2. args' = [x \in {"arg5", "arg6"} |-> args'[x]]
      BY <2>3 DEF EntryTypes
    <3>3. \A r \in NonVolatile : regs'[r] = regs[r]
      BY <2>2, <2>4, Registers
    <3>4. QED
      BY <1>1, <3>1, <3>2, <3>3, MoveKeeps
  <2>6. \A r \in {"rax", "rdi", "rsi", "r10"} : regs'[r] = user.regs[r]
    BY <1>3, <1>4, <2>2, <2>4
  <2>7. args'["arg5"] = user.regs["r10"] /\ args'["arg6"] = user.regs["r8"]
    BY <1>6, <2>3 DEF Copied
  <2>8. CASE pc = 11
    <3>1. to = "rcx" /\ from = "rax"
      BY <2>8 DEF to, from
    <3>2. regs'["rcx"] = user.regs["rax"] /\ regs'["r8"] = user.regs["r8"]
      BY <1>3, <1>4, <2>4, <2>8, <3>1
    <3>3. QED
      BY <1>1, <2>5, <2>6, <2>7, <2>8, <3>2 DEF Copied
  <2>9. CASE pc = 12
    <3>1. to = "rdx" /\ from = "rdi"
      BY <2>9 DEF to, from
    <3>2. /\ regs'["rcx"] = user.regs["rax"] /\ regs'["rdx"] = user.regs["rdi"]
          /\ regs'["r8"] = user.regs["r8"]
      BY <1>3, <1>4, <2>4, <2>9, <3>1 DEF Copied
    <3>3. QED
      BY <1>1, <2>5, <2>6, <2>7, <2>9, <3>2 DEF Copied
  <2>10. CASE pc = 13
    <3>1. to = "r8" /\ from = "rsi"
      BY <2>10 DEF to, from
    <3>2. /\ regs'["rcx"] = user.regs["rax"] /\ regs'["rdx"] = user.regs["rdi"]
          /\ regs'["r8"] = user.regs["rsi"]
      BY <1>3, <1>4, <2>4, <2>10, <3>1 DEF Copied
    <3>3. QED
      BY <1>1, <2>5, <2>6, <2>7, <2>10, <3>2 DEF Copied
  <2>11. CASE pc = 14
    <3>1. to = "r9"
      BY <2>11 DEF to
    <3>2. /\ regs'["rcx"] = user.regs["rax"] /\ regs'["rdx"] = user.regs["rdi"]
          /\ regs'["r8"] = user.regs["rsi"]
      BY <1>4, <2>4, <2>11, <3>1 DEF Copied
    <3>3. QED
      BY <1>1, <2>5, <2>6, <2>7, <2>11, <3>2 DEF Copied
  <2>12. QED
    BY <1>6, <2>8, <2>9, <2>10, <2>11
<1>7. QED
  BY <1>1, <1>5, <1>6

-----------------------------------------------------------------------------
LEMMA CallStep ==
  ASSUME EntryInv, CallHandler, pc' = pc + 1
  PROVE  EntryInv'
<1> USE DEF EntryInv
<1>1. PICK v \in Values : regs' = [x \in Reg |-> IF x \in NonVolatile THEN regs[x] ELSE v]
  BY DEF CallHandler
<1>2. pc = 15 /\ pc' = 16 /\ UNCHANGED <<stack, cpu, args, user>>
  BY Lengths DEF CallHandler
<1>3. EntryTypes'
  BY <1>1, <1>2 DEF EntryTypes, Kept
<1>4. SavedOnStack'
  <2>1. Depth = 8 /\ Depth' = 8
    BY <1>2 DEF Depth
  <2>2. Len(stack') = 8 /\ \A i \in 1 .. 8 : stack'[i] = Kept(i)'
    BY <1>2, <2>1 DEF SavedOnStack, Kept
  <2>3. \A r \in NonVolatile : regs'[r] = user'.regs[r]
    BY <1>1, <1>2, Registers DEF SavedOnStack
  <2>4. QED
    BY <2>1, <2>2, <2>3 DEF SavedOnStack
<1>5. ReturnPoint' /\ Copied'
  BY <1>2 DEF ReturnPoint, Copied
<1>6. QED
  BY <1>3, <1>4, <1>5

(* The pops take the registers back in the opposite order: the ones in the *)
(* middle already have their values, the last two are SYSRET's.            *)
LEMMA PopInstruction ==
  ASSUME EntryInv, Pop, pc' = pc + 1
  PROVE  EntryInv'
<1> DEFINE k == 24 - pc
           r == SavedRegs[k]
           S == {Kept(i) : i \in 1 .. 8}
<1> USE DEF EntryInv
<1>1. /\ pc \in 16 .. 23 /\ UNCHANGED <<args, cpu, user>>
      /\ regs' = [regs EXCEPT ![r] = stack[Len(stack)]]
      /\ stack' = SubSeq(stack, 1, Len(stack) - 1)
  BY Lengths DEF Pop, PopsInto, EntryTypes
<1>2. k \in 1 .. 8 /\ Len(stack) = k /\ Depth = k
  BY <1>1 DEF SavedOnStack, Depth
<1>3. stack[Len(stack)] = Kept(k)
  BY <1>2 DEF SavedOnStack
<1>4. r \in Reg /\ (k >= 3 => r \in NonVolatile) /\ (k = 2 => r = "r11") /\ (k = 1 => r = "rcx")
  <2>1. k \in {1, 2, 3, 4, 5, 6, 7, 8}
    BY <1>2
  <2>2. QED
    BY <2>1, Registers DEF NonVolatile
<1>5. /\ regs'[r] = Kept(k) /\ \A x \in Reg \ {r} : regs'[x] = regs[x]
      /\ DOMAIN regs' = Reg /\ regs' = [x \in Reg |-> regs'[x]]
  BY <1>1, <1>3, <1>4 DEF EntryTypes
<1>6. Kept(k) = user.regs[r] \/ k < 3
  BY <1>2 DEF Kept
<1>7. \A i : Kept(i)' = Kept(i)
  BY <1>1 DEF Kept
<1>8. stack \in Seq(S)
  BY DEF EntryTypes
<1> HIDE DEF S
<1>9. stack' \in Seq(S) /\ Len(stack') = k - 1 /\ \A i \in 1 .. (k - 1) : stack'[i] = stack[i]
  BY <1>1, <1>2, <1>8
<1>10. EntryTypes'
  BY <1>1, <1>5, <1>7, <1>9 DEF EntryTypes, S
<1>11. SavedOnStack'
  <2>1. Depth' = k - 1
    BY <1>1 DEF Depth
  <2>2. \A i \in 1 .. (k - 1) : stack'[i] = Kept(i)'
    BY <1>2, <1>7, <1>9 DEF SavedOnStack
  <2>3. \A x \in NonVolatile : regs'[x] = user'.regs[x]
    <3> TAKE x \in NonVolatile
    <3>1. regs[x] = user.regs[x] /\ x \in Reg /\ x \notin {"rcx", "r11"}
      BY Registers DEF SavedOnStack, NonVolatile
    <3>2. CASE x # r
      BY <1>1, <1>5, <3>1, <3>2
    <3>3. CASE x = r
      <4>1. k >= 3
        BY <1>2, <1>4, <3>1, <3>3
      <4>2. QED
        BY <1>1, <1>2, <1>5, <1>6, <3>3, <4>1
    <3>4. QED
      BY <3>2, <3>3
  <2>4. QED
    BY <1>9, <2>1, <2>2, <2>3 DEF SavedOnStack
<1>12. ReturnPoint'
  <2>1. CASE pc = 22
    <3>1. k = 2 /\ r = "r11"
      BY <1>4, <2>1
    <3>2. regs'["r11"] = user.cpu.rflags
      BY <1>5, <3>1 DEF Kept
    <3>3. QED
      BY <1>1, <2>1, <3>2 DEF ReturnPoint
  <2>2. CASE pc = 23
    <3>1. k = 1 /\ r = "rcx" /\ "r11" \in Reg
      BY <1>4, <2>2, Registers
    <3>2. regs'["rcx"] = user.cpu.rip /\ regs'["r11"] = regs["r11"]
      BY <1>5, <3>1 DEF Kept
    <3>3. QED
      BY <1>1, <2>2, <3>2 DEF ReturnPoint
  <2>3. CASE pc \in 16 .. 21
    BY <1>1, <2>3 DEF ReturnPoint
  <2>4. QED
    BY <1>1, <2>1, <2>2, <2>3
<1>13. Copied'
  BY <1>1 DEF Copied
<1>14. QED
  BY <1>10, <1>11, <1>12, <1>13

(* SYSRET makes the user's selectors from STAR (syscall.c:113).            *)
LEMMA SysRetInstruction ==
  ASSUME EntryInv, SysRet, pc' = pc + 1
  PROVE  EntryInv'
<1> USE DEF EntryInv
<1>1. /\ pc = 24 /\ pc' = 25 /\ UNCHANGED <<regs, stack, args, user>>
      /\ cpu' = [rip |-> regs["rcx"], rflags |-> regs["r11"],
                 cs |-> Ring3(StarSysret + 16), ss |-> Ring3(StarSysret + 8)]
  BY Lengths DEF SysRet
<1>2. Ring3(StarSysret + 16) = USER_CODE_SEL /\ Ring3(StarSysret + 8) = USER_DATA_SEL
  BY DEF Ring3, StarSysret, USER_CODE_SEL, USER_DATA_SEL
<1>3. cpu' = user.cpu
  BY <1>1, <1>2 DEF ReturnPoint, EntryTypes
<1>4. EntryTypes'
  BY <1>1 DEF EntryTypes, Kept
<1>5. SavedOnStack'
  <2>1. Depth = 0 /\ Depth' = 0
    BY <1>1 DEF Depth
  <2>2. Len(stack') = 0 /\ 1 .. Depth' = {}
    BY <1>1, <2>1 DEF SavedOnStack
  <2>3. \A r \in NonVolatile : regs'[r] = user'.regs[r]
    BY <1>1 DEF SavedOnStack
  <2>4. QED
    BY <2>1, <2>2, <2>3 DEF SavedOnStack
<1>6. ReturnPoint' /\ Copied'
  BY <1>1, <1>3 DEF ReturnPoint, Copied
<1>7. QED
  BY <1>4, <1>5, <1>6

LEMMA EntryStep == EntryInv /\ [Next]_vars => EntryInv'
<1> SUFFICES ASSUME EntryInv, [Next]_vars PROVE EntryInv'
  OBVIOUS
<1>1. CASE Next
  BY <1>1, SyscallInstruction, PushInstruction, MoveInstruction, CallStep, PopInstruction,
     SysRetInstruction DEF Next
<1>2. CASE UNCHANGED vars
  <2>1. UNCHANGED <<regs, cpu, stack, args, pc, user>>
    BY <1>2 DEF vars
  <2>2. EntryTypes'
    BY <2>1 DEF EntryInv, EntryTypes, Kept
  <2>3. SavedOnStack'
    BY <2>1 DEF EntryInv, SavedOnStack, Depth, Kept
  <2>4. ReturnPoint' /\ Copied'
    BY <2>1 DEF EntryInv, ReturnPoint, Copied
  <2>5. QED
    BY <2>2, <2>3, <2>4 DEF EntryInv
<1>3. QED
  BY <1>1, <1>2

-----------------------------------------------------------------------------
(* Four arguments and the call number reach Syscall_Handler                *)
(* (syscall_entry.S:55-61), whatever their values: no copy reads a         *)
(* register that an earlier one has overwritten, but for a3's.             *)
THEOREM FourArguments == Spec => []ArgumentsArrive
<1>1. EntryInv => ArgumentsArrive
  BY Lengths DEF EntryInv, EntryTypes, Copied, ArgumentsArrive, AtCall
<1>2. QED
  BY EntryInit, EntryStep, <1>1, PTL DEF Spec

(* The user goes on where it made the call, with its flags, preserved      *)
(* registers and segments (syscall_entry.S:33-40, 82-89, syscall.c:113,    *)
(* gdt.c:44-70).                                                           *)
THEOREM UserGoesOn == Spec => []UserResumes
<1>1. EntryInv => UserResumes
  <2> SUFFICES ASSUME EntryInv, pc = 25
               PROVE  /\ cpu = user.cpu
                      /\ \A r \in NonVolatile : regs[r] = user.regs[r]
                      /\ Gdt[cpu.cs \div 8] = "user code" /\ Gdt[cpu.ss \div 8] = "user data"
    BY Lengths DEF UserResumes
  <2>1. cpu = user.cpu /\ cpu.cs = USER_CODE_SEL /\ cpu.ss = USER_DATA_SEL
    BY DEF EntryInv, ReturnPoint, EntryTypes
  <2>2. USER_CODE_SEL \div 8 = 4 /\ USER_DATA_SEL \div 8 = 3
    BY DEF USER_CODE_SEL, USER_DATA_SEL
  <2>3. Gdt[4] = "user code" /\ Gdt[3] = "user data"
    <3> DEFINE segments == <<"null", "kernel code", "kernel data", "user data", "user code",
                             "TSS", "TSS, high part">>
    <3>1. segments[4 + 1] = "user code" /\ segments[3 + 1] = "user data"
      OBVIOUS
    <3>2. Gdt = [i \in 0 .. 6 |-> segments[i + 1]]
      BY DEF Gdt
    <3> HIDE DEF segments
    <3>3. 3 \in 0 .. 6 /\ 4 \in 0 .. 6
      OBVIOUS
    <3>4. Gdt[4] = segments[4 + 1] /\ Gdt[3] = segments[3 + 1]
      BY <3>2, <3>3, Zenon
    <3>5. QED
      BY <3>1, <3>4
  <2>4. QED
    BY <2>1, <2>2, <2>3 DEF EntryInv, SavedOnStack
<1>2. QED
  BY EntryInit, EntryStep, <1>1, PTL DEF Spec
=============================================================================
