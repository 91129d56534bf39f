----------------------------- MODULE Scheduler -----------------------------
(***************************************************************************)
(* The task table of src/schedule.c together with the page bitmap its      *)
(* stacks come from, and the system call SYSCALL_EXEC, which allocates the *)
(* stack of a new user task and hands it to the table.                     *)
(*                                                                         *)
(* Interrupt gates and SFMASK keep interrupts off in every function here,  *)
(* so one call is one step; module Kernel interleaves the steps of the CPU *)
(* around them.  The state starts where KernelMain enters user mode.       *)
(*                                                                         *)
(* The address of a saved frame (TCB.rsp) is represented by the page that  *)
(* holds it, as every page holds at most one saved frame: the initial      *)
(* frame of a user task is at the top of its kernel stack page, a ring-0   *)
(* task saves frames on its one stack page, and an interrupt from ring 3   *)
(* always pushes its frame at the top of the one stack in TSS.RSP0.        *)
(***************************************************************************)
EXTENDS Pages, FiniteSets

CONSTANTS
  MAX_TASKS,     \* slots in the task table
  TotalPages,    \* total_pages of the allocator
  BootUsed,      \* pages in use when user mode starts
  Rsp0,          \* the page of the stack in TSS.RSP0
  StackSizes,    \* stack page counts that SYSCALL_EXEC is called with
  KernelTasks    \* whether kernel code calls Scheduler_AddTask

ASSUME SchedulerAssumption ==
  /\ MAX_TASKS \in Nat \ {0}
  /\ TotalPages \in 0 .. (MAX_PAGES - 1)
  /\ BootUsed \subseteq Page
  /\ Rsp0 \in BootUsed \ {NULL}
  /\ StackSizes \subseteq Nat
  /\ KernelTasks \in BOOLEAN

VARIABLES
  bitmap,              \* pages in use
  tasks,               \* slot -> TCB
  current_task_index,
  total_tasks,
  kstack,              \* history: slot -> kernel stack page, NULL if it has none
  lost                 \* history: stack pages that no TCB records

tableVars == <<tasks, current_task_index, total_tasks>>
schedVars == <<bitmap, tableVars, kstack, lost>>

Slot == 0 .. (MAX_TASKS - 1)

NoTask == [rsp |-> NULL, active |-> FALSE, stack_base |-> NULL, stack_pages |-> 0]

ActiveSlots == {i \in Slot : tasks[i].active}

(* Only user tasks get a kernel stack from the scheduler; the main task    *)
(* has neither that nor a stack it could lose.                             *)
IsKernelTask(i) == i # 0 /\ kstack[i] = NULL

(* The table has no slot left; and a variant with an off-by-one. *)
TableFull_OffByOne == total_tasks > MAX_TASKS

TableFull == total_tasks >= MAX_TASKS

-----------------------------------------------------------------------------
SchedInit ==
  /\ bitmap = BootUsed
  /\ tasks = [i \in Slot |-> [NoTask EXCEPT !.active = (i = 0)]]
  /\ current_task_index = 0
  /\ total_tasks = 1
  /\ kstack = [i \in Slot |-> NULL]
  /\ lost = {}

(* The caller takes one page for the stack; Scheduler_AddTask builds the   *)
(* first frame on it.  A full table drops the call silently.               *)
Scheduler_AddTask ==
  \E s \in Page \ {NULL} :
    /\ KernelTasks
    /\ AllocReturns(bitmap, TotalPages, 1, s)
    /\ bitmap' = AllocMarks(bitmap, s, 1)
    /\ IF TableFull
         THEN /\ lost' = lost \cup {s}
              /\ UNCHANGED tableVars
         ELSE /\ tasks' = [tasks EXCEPT ![total_tasks] =
                   [rsp |-> s, active |-> TRUE, stack_base |-> s, stack_pages |-> 1]]
              /\ total_tasks' = total_tasks + 1
              /\ UNCHANGED <<current_task_index, lost>>
    /\ UNCHANGED kstack

(* used is the bitmap once the caller has allocated the stack s of n pages. *)
(* The slot is claimed before the kernel stack is allocated.                *)
Scheduler_AddUserTask(used, s, n) ==
  \/ /\ TableFull
     /\ bitmap' = used
     /\ lost' = lost \cup Run(s, n)
     /\ UNCHANGED <<tableVars, kstack>>
  \/ /\ ~TableFull
     /\ total_tasks' = total_tasks + 1
     /\ AllocReturns(used, TotalPages, 1, NULL)
     /\ bitmap' = used
     /\ lost' = lost \cup Run(s, n)
     /\ UNCHANGED <<tasks, current_task_index, kstack>>
  \/ \E k \in Page \ {NULL} :
     /\ ~TableFull
     /\ total_tasks' = total_tasks + 1
     /\ AllocReturns(used, TotalPages, 1, k)
     /\ bitmap' = AllocMarks(used, k, 1)
     /\ tasks' = [tasks EXCEPT ![total_tasks] =
          [rsp |-> k, active |-> TRUE, stack_base |-> s, stack_pages |-> n]]
     /\ kstack' = [kstack EXCEPT ![total_tasks] = k]
     /\ UNCHANGED <<current_task_index, lost>>

Syscall_Exec(n) ==
  \/ AllocReturns(bitmap, TotalPages, n, NULL) /\ UNCHANGED schedVars
  \/ \E s \in Page \ {NULL} :
       /\ AllocReturns(bitmap, TotalPages, n, s)
       /\ Scheduler_AddUserTask(AllocMarks(bitmap, s, n), s, n)

-----------------------------------------------------------------------------
(* The slot that the d-th pass of the search looks at; and variants that   *)
(* forget where the search starts or go the wrong way round.               *)
After_FromZero(d)  == d % total_tasks
After_Backwards(d) == (current_task_index + total_tasks - d) % total_tasks

After(d) == (current_task_index + d) % total_tasks

(* j is where the search for a slot in S stops: it tries the slots after   *)
(* the current one in cyclic order, ending with the current one.  The      *)
(* variant takes the first slot without looking whether it is in S.        *)
NextIn_AnySlot(S, j) == j = After(1) /\ S # {}

NextIn(S, j) ==
  \E d \in 1 .. total_tasks :
    /\ j = After(d)
    /\ j \in S
    /\ \A e \in 1 .. (d - 1) : After(e) \notin S

(* The variant saves after moving on, into the wrong slot. *)
SaveRsp_TooLate(frame) == [tasks EXCEPT ![current_task_index'].rsp = frame]

SaveRsp(frame) == [tasks EXCEPT ![current_task_index].rsp = frame]

(* frame: where the interrupt that calls this saved the running context. *)
Scheduler_Switch(frame) ==
  LET others == ActiveSlots \ {current_task_index}
  IN  \/ others = {} /\ UNCHANGED schedVars
      \/ \E j \in Slot :
           /\ NextIn(others, j)
           /\ current_task_index' = j
           /\ tasks' = SaveRsp(frame)
           /\ UNCHANGED <<bitmap, total_tasks, kstack, lost>>

(* The main task is refused.  The context of the terminated task is not    *)
(* saved: the caller resumes at the rsp of the next task.                  *)
Scheduler_TerminateCurrentTask ==
  LET task   == tasks[current_task_index]
      others == ActiveSlots \ {current_task_index}
      frees  == task.stack_base # NULL /\ task.stack_pages > 0
  IN  \/ current_task_index = 0 /\ UNCHANGED schedVars
      \/ /\ current_task_index # 0
         /\ bitmap' = IF frees THEN FreeRun(bitmap, task.stack_base, task.stack_pages)
                               ELSE bitmap
         /\ tasks' = [tasks EXCEPT ![current_task_index] =
              [@ EXCEPT !.active = FALSE, !.stack_base = IF frees THEN NULL ELSE @]]
         /\ \E j \in Slot : /\ IF others = {} THEN j = 0 ELSE NextIn(others, j)
                            /\ current_task_index' = j
         /\ UNCHANGED <<total_tasks, kstack, lost>>

(* Where an interrupt taken while slot i runs pushes its frame. *)
FrameOf(i) == IF IsKernelTask(i) THEN tasks[i].stack_base ELSE Rsp0

CapsLock == Scheduler_Switch(FrameOf(current_task_index))

SchedNext ==
  \/ \E n \in StackSizes : ~IsKernelTask(current_task_index) /\ Syscall_Exec(n)
  \/ Scheduler_AddTask
  \/ CapsLock
  \/ Scheduler_TerminateCurrentTask

SchedSpec == SchedInit /\ [][SchedNext]_schedVars

(* The user keeps pressing CapsLock. *)
FairSchedSpec == SchedSpec /\ WF_schedVars(CapsLock)

-----------------------------------------------------------------------------
TCB == [rsp : Page, active : BOOLEAN, stack_base : Page, stack_pages : Nat]

TypeOK ==
  /\ bitmap \subseteq Page
  /\ tasks \in [Slot -> TCB]
  /\ current_task_index \in Slot
  /\ total_tasks \in 1 .. MAX_TASKS
  /\ kstack \in [Slot -> Page]
  /\ lost \subseteq Page

StackOf(i) == IF tasks[i].active THEN Run(tasks[i].stack_base, tasks[i].stack_pages) ELSE {}

KStackOf(i) == {kstack[i]} \ {NULL}

(* The scheduler always has somewhere to go (schedule.c:158-167, 186-193): *)
(* the main task and the current task are live, only claimed slots are,    *)
(* and the frame that a switch to any other live task would restore was    *)
(* written, on a page that is still allocated: the task's own kernel       *)
(* stack, its own ring-0 stack, or the stack in TSS.RSP0.                  *)
Resumable ==
  /\ {0, current_task_index} \subseteq ActiveSlots
  /\ ActiveSlots \subseteq 0 .. (total_tasks - 1)
  /\ \A i \in ActiveSlots \ {current_task_index} :
       /\ tasks[i].rsp \in bitmap \ {NULL}
       /\ tasks[i].rsp \in {FrameOf(i), kstack[i]}

(* Stacks are never shared (schedule.c:84, 139; syscall.c:177): the pages  *)
(* of boot, of each live task's stack, of each kernel stack and the lost   *)
(* ones are apart.                                                         *)
StacksApart ==
  /\ \A i, j \in Slot : i # j => /\ StackOf(i) \cap StackOf(j) = {}
                                 /\ KStackOf(i) \cap KStackOf(j) = {}
  /\ \A i, j \in Slot : StackOf(i) \cap KStackOf(j) = {}
  /\ \A i \in Slot : (StackOf(i) \cup KStackOf(i)) \cap (BootUsed \cup lost) = {}
  /\ BootUsed \cap lost = {}

(* Termination gives back the whole user stack and nothing else            *)
(* (schedule.c:138-141): what is in use is what boot, live stacks, kernel  *)
(* stacks and lost stacks add up to.                                       *)
PagesAccounted ==
  bitmap = BootUsed \cup lost \cup UNION {StackOf(i) \cup KStackOf(i) : i \in Slot}

(* A slot is used once (schedule.c:22, 62): a task that has ended, or whose *)
(* start failed, is never run again.                                        *)
SlotsUsedOnce ==
  [][\A i \in 0 .. (total_tasks - 1) :
       ~tasks[i].active => ~tasks'[i].active /\ current_task_index' # i]_schedVars

(* Every live task gets the CPU again or ends, as long as the user keeps   *)
(* pressing CapsLock (README.md:40), whatever is started or ended          *)
(* meanwhile.                                                              *)
NoStarvation ==
  \A i \in Slot : tasks[i].active ~> (current_task_index = i \/ ~tasks[i].active)

(* How many passes after slot c a search of t slots reaches slot i. *)
Turn(c, t, i) == IF i >= c THEN i - c ELSE i - c + t

(* s lists the slots of S in the order in which a search from c on finds them. *)
InTurn(s, S, c, t) ==
  /\ S = {s[k] : k \in DOMAIN s}
  /\ \A k, l \in DOMAIN s : k < l => Turn(c, t, s[k]) < Turn(c, t, s[l])

RingOf(S, c, t) == CHOOSE s \in [1 .. Cardinality(S) -> S] : InTurn(s, S, c, t)

(* The scheduler implements the round-robin ring (schedule.c:128-196).     *)
Ring == INSTANCE RoundRobin
          WITH Names <- Slot,
               ring <- RingOf(ActiveSlots, current_task_index, total_tasks),
               named <- 0 .. (total_tasks - 1)

ImplementsRoundRobin == Ring!RingSpec
=============================================================================
