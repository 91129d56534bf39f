--------------------------- MODULE Kernel_proofs ---------------------------
(***************************************************************************)
(* Proofs about Scheduler and Kernel for every table and bitmap size,      *)
(* every mix of ring-3 and ring-0 tasks, and every order of interrupts,    *)
(* exceptions, system calls and keys.                                      *)
(*                                                                         *)
(* The first part is about the task table alone: stacks and frames, and    *)
(* that the search for the next task goes round the ring.  The second part *)
(* puts the CPU around it and shows that every step of the machine is a    *)
(* step of the table or leaves it alone.                                   *)
(***************************************************************************)
EXTENDS Kernel, Pages_proofs, FiniteSetTheorems, SequenceTheorems

-----------------------------------------------------------------------------
(***************************************************************************)
(* The scheduler.                                                          *)
(***************************************************************************)

(* What the fields of a TCB mean (schedule.c:51-54, 106-120): only the     *)
(* main task has no stack of its own, a ring-0 task has one page, and a    *)
(* slot that was never claimed has no kernel stack.                        *)
TaskFields ==
  /\ kstack[0] = NULL /\ tasks[0].stack_base = NULL /\ tasks[0].stack_pages = 0
  /\ \A i \in ActiveSlots \ {0} : tasks[i].stack_base # NULL /\ tasks[i].stack_pages > 0
  /\ \A i \in ActiveSlots : IsKernelTask(i) => tasks[i].stack_pages = 1
  /\ \A i \in Slot : i >= total_tasks => kstack[i] = NULL

(* The inductive invariant.  Termination keeps the frames of the waiting   *)
(* tasks allocated only because the freed stack is apart from every page   *)
(* that holds one, and keeps PagesAccounted only because the freed pages   *)
(* have no other owner.                                                    *)
Inv == TypeOK /\ Resumable /\ StacksApart /\ PagesAccounted /\ TaskFields

Owned(i) == StackOf(i) \cup KStackOf(i)

-----------------------------------------------------------------------------
(* Every page somebody owns is in use. *)
LEMMA OwnedInUse ==
  ASSUME Inv
  PROVE  /\ BootUsed \subseteq bitmap
         /\ lost \subseteq bitmap
         /\ \A i \in Slot : StackOf(i) \subseteq bitmap /\ KStackOf(i) \subseteq bitmap
  BY DEF Inv, PagesAccounted

(* The page an interrupt would save the frame of a live task on is in use  *)
(* and is neither in another task's stack nor in the main task's.          *)
LEMMA FramePage ==
  ASSUME Inv, NEW i \in ActiveSlots
  PROVE  /\ FrameOf(i) \in Page \ {NULL}
         /\ FrameOf(i) \in bitmap
         /\ \A c \in Slot : c # i => FrameOf(i) \notin StackOf(c)
<1>1. i \in Slot /\ tasks[i].active
  BY DEF ActiveSlots
<1>2. CASE IsKernelTask(i)
  <2>1. tasks[i].stack_base # NULL /\ tasks[i].stack_pages = 1
    BY <1>1, <1>2 DEF Inv, TaskFields, IsKernelTask
  <2>2. tasks[i].stack_base \in Page
    BY <1>1 DEF Inv, TypeOK, TCB
  <2>3. tasks[i].stack_base \in StackOf(i)
    BY <1>1, <2>1, <2>2, MaxPagesAssumption DEF StackOf, Run, Page
  <2>4. FrameOf(i) = tasks[i].stack_base
    BY <1>2 DEF FrameOf
  <2>5. \A c \in Slot : c # i => StackOf(i) \cap StackOf(c) = {}
    BY <1>1 DEF Inv, StacksApart
  <2>6. QED
    BY <1>1, <2>1, <2>2, <2>3, <2>4, <2>5, OwnedInUse
<1>3. CASE ~IsKernelTask(i)
  <2>1. FrameOf(i) = Rsp0
    BY <1>3 DEF FrameOf
  <2>2. Rsp0 \in BootUsed \ {NULL} /\ BootUsed \subseteq Page
    BY SchedulerAssumption
  <2>3. \A c \in Slot : StackOf(c) \cap BootUsed = {}
    BY DEF Inv, StacksApart
  <2>4. QED
    BY <2>1, <2>2, <2>3, OwnedInUse
<1>4. QED
  BY <1>2, <1>3

LEMMA InitInv == SchedInit => Inv
<1> SUFFICES ASSUME SchedInit PROVE Inv
  OBVIOUS
<1> USE DEF SchedInit
<1>1. Slot = 0 .. (MAX_TASKS - 1) /\ 0 \in Slot /\ MAX_TASKS \in Nat \ {0}
  BY SchedulerAssumption DEF Slot
<1>2. NULL \in Page
  BY MaxPagesAssumption DEF NULL, Page
<1>3. \A i \in Slot : tasks[i] = [rsp |-> NULL, active |-> (i = 0), stack_base |-> NULL, stack_pages |-> 0]
  BY DEF NoTask
<1>4. TypeOK
  <2>1. bitmap \subseteq Page /\ lost \subseteq Page
    BY SchedulerAssumption
  <2>2. tasks \in [Slot -> TCB]
    <3>1. \A i \in Slot : [NoTask EXCEPT !.active = (i = 0)] \in TCB
      BY <1>2 DEF NoTask, TCB
    <3>2. QED
      BY <3>1
  <2>3. current_task_index \in Slot /\ total_tasks \in 1 .. MAX_TASKS
    BY <1>1
  <2>4. kstack \in [Slot -> Page]
    BY <1>2
  <2>5. QED
    BY <2>1, <2>2, <2>3, <2>4 DEF TypeOK
<1>5. ActiveSlots = {0}
  BY <1>1, <1>3 DEF ActiveSlots
<1>6. \A i \in Slot : StackOf(i) = {} /\ KStackOf(i) = {}
  <2>1. \A i \in Slot : Run(tasks[i].stack_base, tasks[i].stack_pages) = {}
    <3>1. Run(NULL, 0) = {}
      BY DEF Run, NULL
    <3>2. QED
      BY <1>3, <3>1
  <2>2. \A i \in Slot : kstack[i] = NULL
    OBVIOUS
  <2>3. QED
    BY <2>1, <2>2 DEF StackOf, KStackOf
<1>7. Resumable
  <2>1. {0, current_task_index} \subseteq ActiveSlots
    BY <1>5
  <2>2. ActiveSlots \subseteq 0 .. (total_tasks - 1)
    <3>1. total_tasks = 1
      OBVIOUS
    <3>2. 0 \in 0 .. (total_tasks - 1)
      BY <3>1
    <3>3. QED
      BY <1>5, <3>2
  <2>3. ActiveSlots \ {current_task_index} = {}
    BY <1>5
  <2>4. QED
    BY <2>1, <2>2, <2>3 DEF Resumable
<1>8. StacksApart
  BY <1>6 DEF StacksApart
<1>9. PagesAccounted
  BY <1>6 DEF PagesAccounted
<1>10. TaskFields
  BY <1>1, <1>3, <1>5 DEF TaskFields, IsKernelTask
<1>11. QED
  BY <1>4, <1>7, <1>8, <1>9, <1>10 DEF Inv

-----------------------------------------------------------------------------
LEMMA SwitchStep ==
  ASSUME Inv, Scheduler_Switch(FrameOf(current_task_index))
  PROVE  Inv'
<1> DEFINE c == current_task_index
<1>0. c \in ActiveSlots /\ c \in Slot
  BY DEF Inv, Resumable, ActiveSlots
<1>1. CASE UNCHANGED schedVars
  BY <1>1 DEF schedVars, tableVars, Inv, TypeOK, Resumable, StacksApart, PagesAccounted,
     TaskFields, ActiveSlots, FrameOf, IsKernelTask, StackOf, KStackOf
<1>2. CASE ~UNCHANGED schedVars
  <2> PICK j \in Slot : /\ NextIn(ActiveSlots \ {c}, j)
                        /\ current_task_index' = j
                        /\ tasks' = SaveRsp(FrameOf(c))
                        /\ UNCHANGED <<bitmap, total_tasks, kstack, lost>>
    BY <1>2 DEF Scheduler_Switch
  <2>1. j \in ActiveSlots \ {c}
    BY DEF NextIn
  <2>2. FrameOf(c) \in Page \ {NULL} /\ FrameOf(c) \in bitmap
    BY <1>0, FramePage
  <2>3. \A i \in Slot : /\ tasks'[i].active = tasks[i].active
                        /\ tasks'[i].stack_base = tasks[i].stack_base
                        /\ tasks'[i].stack_pages = tasks[i].stack_pages
                        /\ tasks'[i].rsp = IF i = c THEN FrameOf(c) ELSE tasks[i].rsp
    BY <1>0 DEF SaveRsp, Inv, TypeOK, TCB
  <2>4. tasks' \in [Slot -> TCB]
    BY <1>0, <2>2 DEF SaveRsp, Inv, TypeOK, TCB
  <2>5. ActiveSlots' = ActiveSlots
    BY <2>3 DEF ActiveSlots
  <2>6. \A i \in Slot : /\ StackOf(i)' = StackOf(i) /\ KStackOf(i)' = KStackOf(i)
                        /\ FrameOf(i)' = FrameOf(i) /\ IsKernelTask(i)' = IsKernelTask(i)
    BY <2>3 DEF StackOf, KStackOf, FrameOf, IsKernelTask
  <2>7. TypeOK'
    BY <2>4 DEF Inv, TypeOK
  <2>8. Resumable'
    BY <1>0, <2>1, <2>2, <2>3, <2>5, <2>6 DEF Inv, Resumable, ActiveSlots
  <2>9. StacksApart'
    BY <2>6 DEF Inv, StacksApart
  <2>10. PagesAccounted'
    BY <2>6 DEF Inv, PagesAccounted
  <2>11. TaskFields'
    BY <2>3, <2>5, <2>6, SchedulerAssumption DEF Inv, TaskFields, ActiveSlots, Slot
  <2>12. QED
    BY <2>7, <2>8, <2>9, <2>10, <2>11 DEF Inv
<1>3. QED
  BY <1>1, <1>2

-----------------------------------------------------------------------------
(* What the end of a task frees is its stack: nothing for the main task,   *)
(* which is refused anyway (schedule.c:129-142).                           *)
LEMMA TerminateStep ==
  ASSUME Inv, Scheduler_TerminateCurrentTask
  PROVE  Inv'
<1>a. current_task_index \in Slot /\ current_task_index \in ActiveSlots /\ 0 \in ActiveSlots
  BY DEF Inv, Resumable, ActiveSlots
<1> PICK c \in Slot : c = current_task_index
  BY <1>a
<1>0. c \in ActiveSlots /\ c \in Slot /\ 0 \in ActiveSlots /\ tasks[c].active
  BY <1>a DEF ActiveSlots
<1>1. CASE UNCHANGED schedVars
  BY <1>1 DEF schedVars, tableVars, Inv, TypeOK, Resumable, StacksApart, PagesAccounted,
     TaskFields, ActiveSlots, FrameOf, IsKernelTask, StackOf, KStackOf
<1>2. CASE ~UNCHANGED schedVars
  <2>1. c # 0
    BY <1>2 DEF Scheduler_TerminateCurrentTask
  <2>2. tasks[c].stack_base # NULL /\ tasks[c].stack_pages > 0
    BY <1>0, <2>1 DEF Inv, TaskFields
  <2>3. /\ bitmap' = bitmap \ StackOf(c)
        /\ tasks' = [tasks EXCEPT ![c] = [@ EXCEPT !.active = FALSE, !.stack_base = NULL]]
        /\ UNCHANGED <<total_tasks, kstack, lost>>
    BY <1>0, <1>2, <2>2 DEF Scheduler_TerminateCurrentTask, StackOf, FreeRun
  <2>4. ActiveSlots \ {c} # {}
    BY <1>0, <2>1
  <2>5. current_task_index' \in ActiveSlots \ {c} /\ current_task_index' \in Slot
    BY <1>2, <2>4 DEF Scheduler_TerminateCurrentTask, NextIn
  <2>6. \A i \in Slot : i # c => tasks'[i] = tasks[i]
    BY <2>3 DEF Inv, TypeOK
  <2>7. tasks'[c] = [tasks[c] EXCEPT !.active = FALSE, !.stack_base = NULL] /\ ~tasks'[c].active
    BY <1>0, <2>3 DEF Inv, TypeOK, TCB
  <2>8. ActiveSlots' = ActiveSlots \ {c}
    BY <1>0, <2>6, <2>7 DEF ActiveSlots
  <2>9. \A i \in Slot : i # c => /\ StackOf(i)' = StackOf(i)
                                 /\ FrameOf(i)' = FrameOf(i)
                                 /\ IsKernelTask(i)' = IsKernelTask(i)
    BY <2>3, <2>6 DEF StackOf, FrameOf, IsKernelTask
  <2>10. StackOf(c)' = {} /\ \A i \in Slot : KStackOf(i)' = KStackOf(i)
    BY <1>0, <2>3, <2>7 DEF StackOf, KStackOf
  <2>11. TypeOK'
    <3>1. NULL \in Page
      BY MaxPagesAssumption DEF NULL, Page
    <3>2. tasks' \in [Slot -> TCB]
      BY <1>0, <2>3, <3>1 DEF Inv, TypeOK, TCB
    <3>3. QED
      BY <2>3, <2>5, <3>2 DEF Inv, TypeOK
  <2>12. Resumable'
    <3>1. {0, current_task_index'} \subseteq ActiveSlots'
      BY <1>0, <2>1, <2>5, <2>8
    <3>2. ActiveSlots' \subseteq 0 .. (total_tasks' - 1)
      BY <2>3, <2>8 DEF Inv, Resumable
    <3>3. ASSUME NEW i \in ActiveSlots \ {c}
          PROVE  /\ tasks'[i].rsp \in bitmap' \ {NULL}
                 /\ tasks'[i].rsp \in {FrameOf(i)', kstack'[i]}
      <4>1. i \in Slot /\ i \in ActiveSlots
        BY <3>3 DEF ActiveSlots
      <4>2. tasks[i].rsp \in bitmap \ {NULL} /\ tasks[i].rsp \in {FrameOf(i), kstack[i]}
        BY <3>3 DEF Inv, Resumable
      <4>3. FrameOf(i) \notin StackOf(c)
        BY <1>0, <3>3, <4>1, FramePage
      <4>4. kstack[i] # NULL => kstack[i] \notin StackOf(c)
        BY <1>0, <4>1 DEF Inv, StacksApart, KStackOf
      <4>5. QED
        BY <2>3, <2>6, <2>9, <3>3, <4>1, <4>2, <4>3, <4>4
    <3>4. QED
      BY <2>8, <3>1, <3>2, <3>3 DEF Resumable
  <2>13. StacksApart'
    BY <1>0, <2>3, <2>9, <2>10 DEF Inv, StacksApart
  <2>14. PagesAccounted'
    <3>1. StackOf(c) \cap (BootUsed \cup lost) = {}
      BY <1>0 DEF Inv, StacksApart
    <3>2. \A i \in Slot : KStackOf(i) \cap StackOf(c) = {}
      BY <1>0 DEF Inv, StacksApart
    <3>3. \A i \in Slot : i # c => StackOf(i) \cap StackOf(c) = {}
      BY <1>0 DEF Inv, StacksApart
    <3>4. \A i \in Slot : (StackOf(i) \cup KStackOf(i))' = (StackOf(i) \cup KStackOf(i)) \ StackOf(c)
      BY <2>9, <2>10, <3>2, <3>3
    <3>5. bitmap = BootUsed \cup lost \cup UNION {StackOf(i) \cup KStackOf(i) : i \in Slot}
      BY DEF Inv, PagesAccounted
    <3>6. bitmap \ StackOf(c)
            = BootUsed \cup lost \cup UNION {(StackOf(i) \cup KStackOf(i))' : i \in Slot}
      BY <3>1, <3>4, <3>5
    <3>7. QED
      BY <2>3, <3>6 DEF PagesAccounted
  <2>15. TaskFields'
    <3>1. \A i \in ActiveSlots \ {c} : i \in Slot /\ i # c /\ i \in ActiveSlots
      BY DEF ActiveSlots
    <3>2. 0 \in Slot
      BY <1>0 DEF ActiveSlots
    <3>3. QED
      BY <2>1, <2>3, <2>6, <2>8, <2>9, <3>1, <3>2 DEF Inv, TaskFields
  <2>16. QED
    BY <2>11, <2>12, <2>13, <2>14, <2>15 DEF Inv
<1>3. QED
  BY <1>1, <1>2

-----------------------------------------------------------------------------
(* A call that fails after it allocated pages, whether or not it used up a *)
(* slot (schedule.c:59-60, 62, 86), adds them to the lost ones.            *)
LEMMA LoseStep ==
  ASSUME Inv, NEW L \in SUBSET Page, L \cap bitmap = {},
         bitmap' = bitmap \cup L, lost' = lost \cup L,
         UNCHANGED <<tasks, current_task_index, kstack>>,
         total_tasks' \in {total_tasks, total_tasks + 1}, total_tasks' \in 1 .. MAX_TASKS
  PROVE  Inv'
<1>1. /\ ActiveSlots' = ActiveSlots
      /\ \A i \in Slot : /\ StackOf(i)' = StackOf(i) /\ KStackOf(i)' = KStackOf(i)
                         /\ FrameOf(i)' = FrameOf(i) /\ IsKernelTask(i)' = IsKernelTask(i)
  BY DEF ActiveSlots, StackOf, KStackOf, FrameOf, IsKernelTask
<1>2. total_tasks \in Nat /\ total_tasks' \in Nat /\ total_tasks <= total_tasks'
  BY SchedulerAssumption DEF Inv, TypeOK
<1>3. TypeOK'
  BY DEF Inv, TypeOK
<1>4. Resumable'
  <2>1. ActiveSlots \subseteq 0 .. (total_tasks' - 1)
    <3>1. ActiveSlots \subseteq 0 .. (total_tasks - 1)
      BY DEF Inv, Resumable
    <3>2. CASE total_tasks' = total_tasks
      BY <3>1, <3>2
    <3>3. CASE total_tasks' = total_tasks + 1
      <4>1. 0 .. (total_tasks - 1) \subseteq 0 .. total_tasks
        BY <1>2
      <4>2. total_tasks' - 1 = total_tasks
        BY <1>2, <3>3
      <4>3. QED
        BY <3>1, <4>1, <4>2
    <3>4. QED
      BY <3>2, <3>3
  <2>2. QED
    <3>1. \A i \in ActiveSlots : FrameOf(i)' = FrameOf(i)
      BY <1>1 DEF ActiveSlots
    <3>2. QED
      BY <1>1, <2>1, <3>1 DEF Inv, Resumable
<1>5. StacksApart'
  BY <1>1, OwnedInUse DEF Inv, StacksApart
<1>6. PagesAccounted'
  BY <1>1 DEF Inv, PagesAccounted
<1>7. TaskFields'
  <2>1. \A i \in Slot : i >= total_tasks' => i >= total_tasks
    BY <1>2 DEF Slot
  <2>2. \A i \in ActiveSlots : IsKernelTask(i)' = IsKernelTask(i)
    BY <1>1 DEF ActiveSlots
  <2>3. QED
    BY <1>1, <2>1, <2>2 DEF Inv, TaskFields
<1>8. QED
  BY <1>3, <1>4, <1>5, <1>6, <1>7 DEF Inv

(* A call that succeeds gives the next slot to a task with a fresh stack   *)
(* s of n pages, its first frame on page r: on its own stack if it runs in *)
(* ring 0 (k = NULL, schedule.c:26-54), on a fresh kernel stack k if not   *)
(* (schedule.c:84-120).                                                    *)
LEMMA ClaimStep ==
  ASSUME Inv, ~TableFull,
         NEW s \in Page \ {NULL}, NEW n \in Nat \ {0}, NEW k \in Page,
         NEW r \in Page \ {NULL}, r = IF k = NULL THEN s ELSE k,
         k = NULL => n = 1,
         Run(s, n) \subseteq Page, s \in Run(s, n), Run(s, n) \cap bitmap = {},
         k # NULL => k \notin bitmap \cup Run(s, n),
         bitmap' = bitmap \cup Run(s, n) \cup ({k} \ {NULL}),
         tasks' = [tasks EXCEPT ![total_tasks] =
           [rsp |-> r, active |-> TRUE, stack_base |-> s, stack_pages |-> n]],
         kstack' = [kstack EXCEPT ![total_tasks] = k],
         total_tasks' = total_tasks + 1,
         UNCHANGED <<current_task_index, lost>>
  PROVE  Inv'
<1> PICK t \in Slot : t = total_tasks
  BY SchedulerAssumption DEF TableFull, Inv, TypeOK, Slot
<1>1. t # 0 /\ t \notin ActiveSlots /\ ~tasks[t].active /\ t # current_task_index
  <2>1. total_tasks \in Nat \ {0}
    BY SchedulerAssumption DEF Inv, TypeOK
  <2>2. t \notin ActiveSlots
    BY <2>1 DEF Inv, Resumable
  <2>3. QED
    BY <2>1, <2>2 DEF ActiveSlots, Inv, Resumable
<1>2. kstack[t] = NULL
  BY SchedulerAssumption DEF Inv, TypeOK, TaskFields
<1>3. /\ \A i \in Slot : i # t => tasks'[i] = tasks[i] /\ kstack'[i] = kstack[i]
      /\ tasks'[t] = [rsp |-> r, active |-> TRUE, stack_base |-> s, stack_pages |-> n]
      /\ kstack'[t] = k
  BY DEF Inv, TypeOK
<1>4. ActiveSlots' = ActiveSlots \cup {t}
  BY <1>3 DEF ActiveSlots
<1>5. \A i \in Slot : i # t => /\ StackOf(i)' = StackOf(i) /\ KStackOf(i)' = KStackOf(i)
                               /\ FrameOf(i)' = FrameOf(i)
                               /\ IsKernelTask(i)' = IsKernelTask(i)
  BY <1>3 DEF StackOf, KStackOf, FrameOf, IsKernelTask
<1>6. /\ StackOf(t) = {} /\ KStackOf(t) = {}
      /\ \A i \in {t} : /\ StackOf(i)' = Run(s, n) /\ KStackOf(i)' = {k} \ {NULL}
                        /\ IsKernelTask(i)' <=> k = NULL
                        /\ k = NULL => FrameOf(i)' = s
  BY <1>1, <1>2, <1>3 DEF StackOf, KStackOf, FrameOf, IsKernelTask
<1>7. TypeOK'
  <2>1. tasks' \in [Slot -> TCB]
    BY DEF Inv, TypeOK, TCB
  <2>2. kstack' \in [Slot -> Page]
    BY DEF Inv, TypeOK
  <2>3. total_tasks' \in 1 .. MAX_TASKS
    BY SchedulerAssumption DEF TableFull, Inv, TypeOK
  <2>4. QED
    BY <2>1, <2>2, <2>3 DEF Inv, TypeOK
<1>8. Resumable'
  <2>1. {0, current_task_index'} \subseteq ActiveSlots'
    BY <1>4 DEF Inv, Resumable
  <2>2. ActiveSlots' \subseteq 0 .. (total_tasks' - 1)
    BY <1>4, SchedulerAssumption DEF Inv, Resumable, TypeOK
  <2>3. ASSUME NEW i \in ActiveSlots, i # current_task_index
        PROVE  tasks'[i].rsp \in bitmap' \ {NULL} /\ tasks'[i].rsp \in {FrameOf(i)', kstack'[i]}
    <3>1. i \in Slot /\ i # t
      BY <1>1 DEF ActiveSlots
    <3>2. QED
      BY <1>3, <1>5, <2>3, <3>1 DEF Inv, Resumable
  <2>4. \A i \in {t} : /\ tasks'[i].rsp \in bitmap' \ {NULL}
                       /\ tasks'[i].rsp \in {FrameOf(i)', kstack'[i]}
    BY <1>3, <1>6
  <2>5. QED
    BY <1>4, <2>1, <2>2, <2>3, <2>4 DEF Resumable
<1>9. StacksApart'
  <2>1. \A i \in Slot : StackOf(i) \subseteq bitmap /\ KStackOf(i) \subseteq bitmap
    BY OwnedInUse
  <2>2. \A i \in Slot, U \in {Run(s, n), {k} \ {NULL}} :
          StackOf(i) \cap U = {} /\ KStackOf(i) \cap U = {}
    BY <2>1
  <2>3. Run(s, n) \cap ({k} \ {NULL}) = {}
    OBVIOUS
  <2>4. \A i \in Slot : i = t => /\ StackOf(i)' = Run(s, n) /\ KStackOf(i)' = {k} \ {NULL}
    BY <1>6
  <2>5. (Run(s, n) \cup ({k} \ {NULL})) \cap (BootUsed \cup lost) = {}
    BY OwnedInUse
  <2>6. \A i, j \in Slot : i # j => (StackOf(i) \cap StackOf(j))' = {} /\ (KStackOf(i) \cap KStackOf(j))' = {}
    BY <1>5, <2>2, <2>4 DEF Inv, StacksApart
  <2>7. \A i, j \in Slot : (StackOf(i) \cap KStackOf(j))' = {}
    BY <1>5, <2>2, <2>3, <2>4 DEF Inv, StacksApart
  <2>8. \A i \in Slot : ((StackOf(i) \cup KStackOf(i)) \cap (BootUsed \cup lost))' = {}
    BY <1>5, <2>4, <2>5 DEF Inv, StacksApart
  <2>9. QED
    BY <2>6, <2>7, <2>8 DEF Inv, StacksApart
<1>10. PagesAccounted'
  <2>1. \A i \in Slot : (StackOf(i) \cup KStackOf(i))' =
          IF i = t THEN Run(s, n) \cup ({k} \ {NULL}) ELSE StackOf(i) \cup KStackOf(i)
    BY <1>5, <1>6
  <2>2. QED
    BY <1>6, <2>1 DEF Inv, PagesAccounted
<1>11. TaskFields'
  <2>1. 0 \in Slot /\ 0 # t
    BY <1>1, SchedulerAssumption DEF Slot
  <2>2. \A i \in ActiveSlots : i \in Slot /\ i # t
    BY <1>1 DEF ActiveSlots
  <2>3. kstack'[0] = NULL /\ tasks'[0].stack_base = NULL /\ tasks'[0].stack_pages = 0
    BY <1>3, <2>1 DEF Inv, TaskFields
  <2>4. \A i \in ActiveSlots' \ {0} : tasks'[i].stack_base # NULL /\ tasks'[i].stack_pages > 0
    BY <1>3, <1>4, <2>2 DEF Inv, TaskFields
  <2>5. \A i \in ActiveSlots' : IsKernelTask(i)' => tasks'[i].stack_pages = 1
    <3>1. \A i \in ActiveSlots : IsKernelTask(i)' => tasks'[i].stack_pages = 1
      BY <1>3, <1>5, <2>2 DEF Inv, TaskFields
    <3>2. \A i \in {t} : IsKernelTask(i)' => tasks'[i].stack_pages = 1
      BY <1>3, <1>6
    <3>3. QED
      BY <1>4, <3>1, <3>2
  <2>6. \A i \in Slot : i >= total_tasks' => i >= total_tasks /\ i # t
    BY SchedulerAssumption DEF Inv, TypeOK, Slot
  <2>7. QED
    BY <1>3, <2>3, <2>4, <2>5, <2>6 DEF Inv, TaskFields
<1>12. QED
  BY <1>7, <1>8, <1>9, <1>10, <1>11 DEF Inv

-----------------------------------------------------------------------------
LEMMA AddTaskStep ==
  ASSUME Inv, Scheduler_AddTask
  PROVE  Inv'
<1> PICK s \in Page \ {NULL} :
       /\ AllocReturns(bitmap, TotalPages, 1, s)
       /\ bitmap' = AllocMarks(bitmap, s, 1)
       /\ IF TableFull
            THEN /\ lost' = lost \cup {s}
                 /\ UNCHANGED tableVars
            ELSE /\ tasks' = [tasks EXCEPT ![total_tasks] =
                      [rsp |-> s, active |-> TRUE, stack_base |-> s, stack_pages |-> 1]]
                 /\ total_tasks' = total_tasks + 1
                 /\ UNCHANGED <<current_task_index, lost>>
       /\ UNCHANGED kstack
  BY DEF Scheduler_AddTask
<1>1. Run(s, 1) = {s} /\ {s} \cap bitmap = {} /\ bitmap' = bitmap \cup {s}
  <2>1. Run(s, 1) = {s}
    BY MaxPagesAssumption DEF Run, Page
  <2>2. TotalPages \in 0 .. (MAX_PAGES - 1)
    BY SchedulerAssumption
  <2>3. QED
    BY <2>1, <2>2, AllocGrants DEF AllocMarks
<1>2. CASE TableFull
  <2>1. {s} \in SUBSET Page /\ total_tasks' = total_tasks /\ total_tasks' \in 1 .. MAX_TASKS
    BY <1>2 DEF tableVars, Inv, TypeOK
  <2>2. UNCHANGED <<tasks, current_task_index, kstack>> /\ lost' = lost \cup {s}
    BY <1>2 DEF tableVars
  <2>3. QED
    BY <1>1, <2>1, <2>2, LoseStep
<1>3. CASE ~TableFull
  <2>1. NULL \in Page
    BY MaxPagesAssumption DEF NULL, Page
  <2>2. kstack' = [kstack EXCEPT ![total_tasks] = NULL]
    <3>1. total_tasks \in Slot
      BY <1>3, SchedulerAssumption DEF TableFull, Inv, TypeOK, Slot
    <3>2. kstack[total_tasks] = NULL
      BY <3>1, SchedulerAssumption DEF Inv, TypeOK, TaskFields
    <3>3. QED
      BY <3>1, <3>2 DEF Inv, TypeOK
  <2>3. bitmap' = bitmap \cup Run(s, 1) \cup ({NULL} \ {NULL})
    BY <1>1
  <2>4. 1 \in Nat \ {0} /\ s \in Run(s, 1) /\ Run(s, 1) \subseteq Page /\ Run(s, 1) \cap bitmap = {}
    BY <1>1
  <2>5. /\ tasks' = [tasks EXCEPT ![total_tasks] =
              [rsp |-> s, active |-> TRUE, stack_base |-> s, stack_pages |-> 1]]
        /\ total_tasks' = total_tasks + 1
        /\ UNCHANGED <<current_task_index, lost>>
    BY <1>3
  <2>6. s = IF NULL = NULL THEN s ELSE NULL
    OBVIOUS
  <2>7. QED
    BY <1>3, <2>1, <2>2, <2>3, <2>4, <2>5, <2>6, ClaimStep
<1>4. QED
  BY <1>2, <1>3

(* The stack that SYSCALL_EXEC allocates ends up with the new task, or is  *)
(* lost when the table is full or no page is left for the kernel stack.    *)
LEMMA ExecStep ==
  ASSUME Inv, NEW n \in StackSizes, Syscall_Exec(n)
  PROVE  Inv'
<1>0. n \in Nat /\ TotalPages \in 0 .. (MAX_PAGES - 1)
  BY SchedulerAssumption
<1>1. CASE UNCHANGED schedVars
  BY <1>1 DEF schedVars, tableVars, Inv, TypeOK, Resumable, StacksApart, PagesAccounted,
     TaskFields, ActiveSlots, FrameOf, IsKernelTask, StackOf, KStackOf
<1>2. CASE ~UNCHANGED schedVars
  <2> PICK s \in Page \ {NULL} :
         /\ AllocReturns(bitmap, TotalPages, n, s)
         /\ Scheduler_AddUserTask(AllocMarks(bitmap, s, n), s, n)
    BY <1>2 DEF Syscall_Exec
  <2> DEFINE used == bitmap \cup Run(s, n)
  <2>1. /\ n > 0 /\ Run(s, n) \cap bitmap = {}
        /\ Run(s, n) \subseteq Page /\ s \in Run(s, n)
    BY <1>0, AllocGrants, GrantedPages
  <2>2. AllocMarks(bitmap, s, n) = used
    BY DEF AllocMarks
  <2>3. total_tasks \in 1 .. MAX_TASKS
    BY DEF Inv, TypeOK
  <2>4. CASE TableFull
    <3>1. bitmap' = used /\ lost' = lost \cup Run(s, n) /\ UNCHANGED <<tableVars, kstack>>
      BY <2>2, <2>4 DEF Scheduler_AddUserTask
    <3>2. QED
      BY <2>1, <2>3, <3>1, LoseStep DEF tableVars
  <2>5. CASE ~TableFull
    <3>1. total_tasks' = total_tasks + 1 /\ total_tasks' \in 1 .. MAX_TASKS
      BY <2>3, <2>5, SchedulerAssumption DEF Scheduler_AddUserTask, TableFull
    <3>2. CASE /\ bitmap' = used /\ lost' = lost \cup Run(s, n)
               /\ UNCHANGED <<tasks, current_task_index, kstack>>
      BY <2>1, <3>1, <3>2, LoseStep
    <3>3. CASE \E k \in Page \ {NULL} :
                 /\ AllocReturns(used, TotalPages, 1, k)
                 /\ bitmap' = AllocMarks(used, k, 1)
                 /\ tasks' = [tasks EXCEPT ![total_tasks] =
                      [rsp |-> k, active |-> TRUE, stack_base |-> s, stack_pages |-> n]]
                 /\ kstack' = [kstack EXCEPT ![total_tasks] = k]
                 /\ UNCHANGED <<current_task_index, lost>>
      <4> PICK k \in Page \ {NULL} :
                 /\ AllocReturns(used, TotalPages, 1, k)
                 /\ bitmap' = AllocMarks(used, k, 1)
                 /\ tasks' = [tasks EXCEPT ![total_tasks] =
                      [rsp |-> k, active |-> TRUE, stack_base |-> s, stack_pages |-> n]]
                 /\ kstack' = [kstack EXCEPT ![total_tasks] = k]
                 /\ UNCHANGED <<current_task_index, lost>>
        BY <3>3
      <4>1. Run(k, 1) = {k}
        BY MaxPagesAssumption DEF Run, Page
      <4>2. k \notin used
        BY <1>0, <4>1, AllocGrants
      <4>3. bitmap' = bitmap \cup Run(s, n) \cup ({k} \ {NULL})
        BY <4>1 DEF AllocMarks
      <4>4. n \in Nat \ {0}
        BY <1>0, <2>1
      <4>5. QED
        BY <2>1, <2>5, <3>1, <4>2, <4>3, <4>4, ClaimStep
    <3>4. QED
      BY <2>2, <2>5, <3>2, <3>3 DEF Scheduler_AddUserTask
  <2>6. QED
    BY <2>4, <2>5
<1>3. QED
  BY <1>1, <1>2

LEMMA StepInv == Inv /\ [SchedNext]_schedVars => Inv'
<1> SUFFICES ASSUME Inv, [SchedNext]_schedVars PROVE Inv'
  OBVIOUS
<1>1. CASE \E n \in StackSizes : ~IsKernelTask(current_task_index) /\ Syscall_Exec(n)
  BY <1>1, ExecStep
<1>2. CASE Scheduler_AddTask
  BY <1>2, AddTaskStep
<1>3. CASE CapsLock
  BY <1>3, SwitchStep DEF CapsLock
<1>4. CASE Scheduler_TerminateCurrentTask
  BY <1>4, TerminateStep
<1>5. CASE UNCHANGED schedVars
  BY <1>5 DEF schedVars, tableVars, Inv, TypeOK, Resumable, StacksApart, PagesAccounted,
     TaskFields, ActiveSlots, FrameOf, IsKernelTask, StackOf, KStackOf
<1>6. QED
  BY <1>1, <1>2, <1>3, <1>4, <1>5 DEF SchedNext

-----------------------------------------------------------------------------
(* The task table and the bitmap keep their types whatever is started,     *)
(* switched to or ended (schedule.c:10-196).                               *)
THEOREM TypeCorrect == SchedSpec => []TypeOK
<1>1. Inv => TypeOK
  BY DEF Inv
<1>2. QED
  BY InitInv, StepInv, <1>1, PTL DEF SchedSpec

(* The scheduler always has a live task to resume, whose frame is on a     *)
(* page nobody has freed (schedule.c:128-196).                             *)
THEOREM AlwaysResumable == SchedSpec => []Resumable
<1>1. Inv => Resumable
  BY DEF Inv
<1>2. QED
  BY InitInv, StepInv, <1>1, PTL DEF SchedSpec

(* No page is ever in two stacks (schedule.c:84, 139; syscall.c:177).      *)
THEOREM StackSeparation == SchedSpec => []StacksApart
<1>1. Inv => StacksApart
  BY DEF Inv
<1>2. QED
  BY InitInv, StepInv, <1>1, PTL DEF SchedSpec

(* Every page in use is accounted for: boot's, a live task's, a kernel     *)
(* stack or a lost stack (schedule.c:84-86, 122-124, 138-141).             *)
THEOREM PageAccounting == SchedSpec => []PagesAccounted
<1>1. Inv => PagesAccounted
  BY DEF Inv
<1>2. QED
  BY InitInv, StepInv, <1>1, PTL DEF SchedSpec

-----------------------------------------------------------------------------
(* No step makes a claimed slot live again. *)
LEMMA StaysEnded ==
  ASSUME Inv, [SchedNext]_schedVars, NEW i \in 0 .. (total_tasks - 1), ~tasks[i].active
  PROVE  ~tasks'[i].active
<1>1. i # total_tasks /\ i \in Slot /\ tasks \in [Slot -> TCB] /\ current_task_index \in Slot
  BY SchedulerAssumption DEF Inv, TypeOK, Slot
<1>2. CASE UNCHANGED tasks
  BY <1>2
<1>3. ASSUME NEW r \in [rsp : Page, active : {TRUE}, stack_base : Page, stack_pages : Nat],
             tasks' = [tasks EXCEPT ![total_tasks] = r]
      PROVE  ~tasks'[i].active
  BY <1>1, <1>3
<1>4. CASE \E n \in StackSizes : ~IsKernelTask(current_task_index) /\ Syscall_Exec(n)
  <2> PICK n \in StackSizes : Syscall_Exec(n)
    BY <1>4
  <2>1. CASE UNCHANGED schedVars
    BY <1>2, <2>1 DEF schedVars, tableVars
  <2>2. CASE \E s \in Page \ {NULL} : Scheduler_AddUserTask(AllocMarks(bitmap, s, n), s, n)
    <3>1. n \in Nat
      BY SchedulerAssumption
    <3>2. CASE ~UNCHANGED tasks
      <4> PICK s \in Page \ {NULL}, k \in Page \ {NULL} :
             tasks' = [tasks EXCEPT ![total_tasks] =
               [rsp |-> k, active |-> TRUE, stack_base |-> s, stack_pages |-> n]]
        BY <2>2, <3>2 DEF Scheduler_AddUserTask, tableVars
      <4>1. QED
        BY <1>3, <3>1
    <3>3. QED
      BY <1>2, <3>2
  <2>3. QED
    BY <2>1, <2>2 DEF Syscall_Exec
<1>5. CASE Scheduler_AddTask
  <2>1. CASE ~UNCHANGED tasks
    <3> PICK s \in Page \ {NULL} :
           tasks' = [tasks EXCEPT ![total_tasks] =
             [rsp |-> s, active |-> TRUE, stack_base |-> s, stack_pages |-> 1]]
      BY <1>5, <2>1 DEF Scheduler_AddTask, tableVars
    <3>1. QED
      BY <1>3
  <2>2. QED
    BY <1>2, <2>1
<1>6. CASE CapsLock
  BY <1>1, <1>2, <1>6 DEF CapsLock, Scheduler_Switch, SaveRsp, schedVars, tableVars, TCB
<1>7. CASE Scheduler_TerminateCurrentTask
  <2>1. CASE ~UNCHANGED tasks
    <3>1. PICK b : tasks' = [tasks EXCEPT ![current_task_index] =
                         [@ EXCEPT !.active = FALSE, !.stack_base = b]]
      BY <1>7, <2>1 DEF Scheduler_TerminateCurrentTask, schedVars, tableVars
    <3>2. QED
      BY <1>1, <3>1 DEF TCB
  <2>2. QED
    BY <1>2, <2>1
<1>8. CASE UNCHANGED schedVars
  BY <1>2, <1>8 DEF schedVars, tableVars
<1>9. QED
  BY <1>4, <1>5, <1>6, <1>7, <1>8 DEF SchedNext

(* A task that has ended, or whose start failed, is never run again        *)
(* (schedule.c:22, 62, 132, 153, 179).                                     *)
THEOREM NoSlotReuse == SchedSpec => SlotsUsedOnce
<1>1. Inv /\ Inv' /\ [SchedNext]_schedVars
        => [\A i \in 0 .. (total_tasks - 1) :
              ~tasks[i].active => ~tasks'[i].active /\ current_task_index' # i]_schedVars
  <2> SUFFICES ASSUME Inv, Inv', [SchedNext]_schedVars,
                      NEW i \in 0 .. (total_tasks - 1), ~tasks[i].active
               PROVE  ~tasks'[i].active /\ current_task_index' # i
    OBVIOUS
  <2>1. ~tasks'[i].active
    BY StaysEnded
  <2>2. tasks'[current_task_index'].active
    BY DEF Inv, Resumable, ActiveSlots
  <2>3. QED
    BY <2>1, <2>2
<1>2. QED
  BY InitInv, StepInv, <1>1, PTL DEF SchedSpec, SlotsUsedOnce

-----------------------------------------------------------------------------
(* The ring.  A set of numbers has a least one. *)
LEMMA Least ==
  ASSUME NEW T, T \subseteq Nat, T # {}
  PROVE  \E x \in T : \A y \in T : x <= y
<1>1. PICK x \in T : \A y \in T : ~(<<y, x>> \in OpToRel(<, Nat))
  BY NatLessThanWellFounded, WFMin
<1>2. ASSUME NEW y \in T PROVE x <= y
  <2>1. x \in Nat /\ y \in Nat
    OBVIOUS
  <2>2. <<y, x>> \in Nat \X Nat /\ <<y, x>>[1] = y /\ <<y, x>>[2] = x
    BY <2>1
  <2>3. ~(<<y, x>> \in {ss \in Nat \X Nat : ss[1] < ss[2]})
    BY <1>1 DEF OpToRel
  <2>4. ~(y < x)
    BY ONLY <2>2, <2>3
  <2>5. QED
    BY <2>1, <2>4
<1>3. QED
  BY <1>2

LEMMA TurnInt ==
  ASSUME NEW c \in Int, NEW t \in Int, NEW i \in Int
  PROVE  Turn(c, t, i) \in Int
  BY DEF Turn

(* Where two lists of the same slots in turn first differ, either one has  *)
(* the later slot.                                                         *)
LEMMA FirstDifference ==
  ASSUME NEW S, S \subseteq Int, NEW c \in Int, NEW t \in Int, NEW n \in Nat,
         NEW s \in [1 .. n -> S], InTurn(s, S, c, t),
         NEW u \in [1 .. n -> S], InTurn(u, S, c, t),
         NEW k \in 1 .. n, s[k] # u[k], \A l \in 1 .. n : l < k => s[l] = u[l]
  PROVE  Turn(c, t, u[k]) < Turn(c, t, s[k])
<1>1. DOMAIN s = 1 .. n /\ DOMAIN u = 1 .. n
  OBVIOUS
<1>2. s[k] \in {u[l] : l \in 1 .. n}
  BY <1>1 DEF InTurn
<1>3. PICK l \in 1 .. n : s[k] = u[l]
  BY <1>2
<1>4. \A m \in 1 .. n : Turn(c, t, s[m]) \in Int
  BY TurnInt
<1>5. ~(l < k)
  <2> SUFFICES ASSUME l < k PROVE FALSE
    OBVIOUS
  <2>1. s[l] = s[k]
    BY <1>3
  <2>2. Turn(c, t, s[l]) < Turn(c, t, s[k])
    BY <1>1 DEF InTurn
  <2>3. QED
    BY <1>4, <2>1, <2>2
<1>6. k < l
  BY <1>3, <1>5
<1>7. QED
  BY <1>1, <1>3, <1>6 DEF InTurn

(* There is one list of the slots of S in turn.                            *)
LEMMA SameRing ==
  ASSUME NEW S, S \subseteq Int, NEW c \in Int, NEW t \in Int, NEW n \in Nat,
         NEW s \in [1 .. n -> S], InTurn(s, S, c, t),
         NEW u \in [1 .. n -> S], InTurn(u, S, c, t)
  PROVE  s = u
<1> DEFINE D == {k \in 1 .. n : s[k] # u[k]}
<1>1. CASE D = {}
  BY <1>1
<1>2. CASE D # {}
  <2>1. D \subseteq Nat
    OBVIOUS
  <2>2. PICK k \in D : \A l \in D : k <= l
    <3> HIDE DEF D
    <3>1. QED
      BY <1>2, <2>1, Least
  <2>3. k \in 1 .. n /\ s[k] # u[k] /\ \A l \in 1 .. n : l < k => s[l] = u[l]
    BY <2>2
  <2>4. Turn(c, t, u[k]) < Turn(c, t, s[k])
    BY <2>3, FirstDifference
  <2>5. Turn(c, t, s[k]) < Turn(c, t, u[k])
    BY <2>3, FirstDifference
  <2>6. Turn(c, t, s[k]) \in Int /\ Turn(c, t, u[k]) \in Int
    BY <2>3, TurnInt
  <2>7. QED
    BY <2>4, <2>5, <2>6
<1>3. QED
  BY <1>1, <1>2

(* It has as many places as S has slots, so it is the ring.                *)
LEMMA RingIs ==
  ASSUME NEW S, S \subseteq Int, NEW c \in Int, NEW t \in Int, NEW n \in Nat,
         NEW s \in [1 .. n -> S], InTurn(s, S, c, t)
  PROVE  RingOf(S, c, t) = s
<1>1. DOMAIN s = 1 .. n
  OBVIOUS
<1>2. \A k \in 1 .. n : Turn(c, t, s[k]) \in Int
  BY TurnInt
<1>3. ASSUME NEW k \in 1 .. n, NEW l \in 1 .. n, s[k] = s[l]
      PROVE  k = l
  <2>1. ~(k < l)
    BY <1>1, <1>2, <1>3 DEF InTurn
  <2>2. ~(l < k)
    BY <1>1, <1>2, <1>3 DEF InTurn
  <2>3. QED
    BY <2>1, <2>2
<1>4. s \in Injection(1 .. n, S)
  BY <1>3 DEF Injection, IsInjective
<1>5. s \in Surjection(1 .. n, S)
  BY <1>1 DEF Surjection, InTurn
<1>6. ExistsBijection(1 .. n, S)
  BY <1>4, <1>5 DEF ExistsBijection, Bijection
<1>7. Cardinality(S) = n
  BY <1>6, FS_CountingElements
<1>8. /\ RingOf(S, c, t) \in [1 .. n -> S]
      /\ InTurn(RingOf(S, c, t), S, c, t)
  BY <1>7 DEF RingOf
<1>9. QED
  BY <1>8, SameRing

(* What is known of the slots and of the list: c is the current slot.      *)
Listed(s, n, S, c, t) ==
  /\ n \in Nat /\ t \in Nat
  /\ S \subseteq 0 .. (t - 1) /\ c \in S
  /\ s \in [1 .. n -> S]
  /\ InTurn(s, S, c, t)

LEMMA TurnRange ==
  ASSUME NEW t \in Nat, NEW c \in 0 .. (t - 1), NEW i \in 0 .. (t - 1)
  PROVE  Turn(c, t, i) \in 0 .. (t - 1) /\ (Turn(c, t, i) = 0 <=> i = c)
  BY DEF Turn

(* A later slot is further on in the list. *)
LEMMA TurnOrder ==
  ASSUME NEW s, NEW n, NEW S, NEW c, NEW t, Listed(s, n, S, c, t),
         NEW k \in 1 .. n, NEW l \in 1 .. n, Turn(c, t, s[k]) < Turn(c, t, s[l])
  PROVE  k < l
<1>1. DOMAIN s = 1 .. n /\ t \in Nat /\ c \in 0 .. (t - 1) /\ n \in Nat
  BY DEF Listed
<1>2. \A m \in 1 .. n : s[m] \in 0 .. (t - 1)
  BY DEF Listed
<1>3. Turn(c, t, s[k]) \in Int /\ Turn(c, t, s[l]) \in Int
  BY <1>1, <1>2, TurnRange
<1>4. k # l
  BY <1>3
<1>5. ~(l < k)
  <2> SUFFICES ASSUME l < k PROVE FALSE
    OBVIOUS
  <2>1. Turn(c, t, s[l]) < Turn(c, t, s[k])
    BY <1>1 DEF Listed, InTurn
  <2>2. QED
    BY <1>3, <2>1
<1>6. QED
  BY <1>4, <1>5

(* The current slot is at the head. *)
LEMMA CurrentFirst ==
  ASSUME NEW s, NEW n, NEW S, NEW c, NEW t, Listed(s, n, S, c, t)
  PROVE  n >= 1 /\ s[1] = c
<1>1. DOMAIN s = 1 .. n /\ t \in Nat /\ c \in 0 .. (t - 1) /\ n \in Nat
  BY DEF Listed
<1>2. c \in {s[k] : k \in 1 .. n}
  BY <1>1 DEF Listed, InTurn
<1>3. PICK k \in 1 .. n : s[k] = c
  BY <1>2
<1>4. 1 \in 1 .. n
  BY <1>1
<1>5. s[1] \in 0 .. (t - 1)
  BY <1>4 DEF Listed
<1>6. CASE s[1] # c
  <2>1. Turn(c, t, s[k]) < Turn(c, t, s[1])
    <3>1. Turn(c, t, c) = 0 /\ Turn(c, t, s[1]) \in 0 .. (t - 1) /\ Turn(c, t, s[1]) # 0
      BY <1>1, <1>5, <1>6, TurnRange
    <3>2. QED
      BY <3>1, <1>3
  <2>2. QED
    BY <2>1, <1>4, TurnOrder
<1>7. QED
  BY <1>1, <1>3, <1>6

(* Seen from the next slot j, the slots after it have the same order and   *)
(* the current slot is the last.                                           *)
LEMMA TurnShift ==
  ASSUME NEW t \in Nat, NEW c \in 0 .. (t - 1), NEW j \in 0 .. (t - 1), j # c,
         NEW i \in 0 .. (t - 1), i = c \/ Turn(c, t, j) <= Turn(c, t, i)
  PROVE  Turn(j, t, i) = IF i = c THEN t - Turn(c, t, j) ELSE Turn(c, t, i) - Turn(c, t, j)
  BY DEF Turn

LEMMA Rotated ==
  ASSUME NEW s, NEW n, NEW S, NEW c, NEW t, Listed(s, n, S, c, t),
         NEW j \in S \ {c}, \A i \in S \ {c} : Turn(c, t, j) <= Turn(c, t, i)
  PROVE  /\ n > 1
         /\ Listed([k \in 1 .. n |-> IF k = n THEN c ELSE s[k + 1]], n, S, j, t)
<1> DEFINE u == [k \in 1 .. n |-> IF k = n THEN c ELSE s[k + 1]]
<1>1. DOMAIN s = 1 .. n /\ t \in Nat /\ c \in 0 .. (t - 1) /\ n \in Nat
  BY DEF Listed
<1>2. j \in 0 .. (t - 1) /\ j # c /\ j \in S /\ c \in S /\ S \subseteq 0 .. (t - 1)
  BY DEF Listed
<1>3. S = {s[k] : k \in 1 .. n} /\ s \in [1 .. n -> S]
  BY <1>1 DEF Listed, InTurn
<1>4. n >= 1 /\ s[1] = c
  BY CurrentFirst
<1>5. n > 1
  <2>1. PICK k \in 1 .. n : s[k] = j
    BY <1>2, <1>3
  <2>2. k # 1
    BY <2>1, <1>2, <1>4
  <2>3. QED
    BY <2>2, <1>1
<1>6. \A k \in 2 .. n : s[k] \in S \ {c}
  <2> SUFFICES ASSUME NEW k \in 2 .. n PROVE s[k] \in S \ {c}
    OBVIOUS
  <2>1. k \in 1 .. n /\ 1 \in 1 .. n /\ 1 < k
    BY <1>1
  <2>2. Turn(c, t, s[1]) < Turn(c, t, s[k])
    BY <1>1, <2>1 DEF Listed, InTurn
  <2>3. Turn(c, t, c) = 0
    BY <1>1, TurnRange
  <2>4. s[k] # c
    BY <2>2, <2>3, <1>4
  <2>5. QED
    BY <1>3, <2>1, <2>4
<1>7. u \in [1 .. n -> S]
  <2>1. \A k \in 1 .. n : k # n => k + 1 \in 2 .. n
    BY <1>1
  <2>2. QED
    BY <2>1, <1>2, <1>6
<1>8. S = {u[k] : k \in 1 .. n}
  <2>1. ASSUME NEW i \in S PROVE \E k \in 1 .. n : u[k] = i
    <3>1. CASE i = c
      <4>1. n \in 1 .. n
        BY <1>1, <1>4
      <4>2. u[n] = c
        BY <4>1
      <4>3. QED
        BY <4>1, <4>2, <3>1
    <3>2. CASE i # c
      <4>1. PICK k \in 1 .. n : s[k] = i
        BY <1>3
      <4>2. k # 1
        BY <4>1, <3>2, <1>4
      <4>3. k - 1 \in 1 .. n /\ k - 1 # n /\ (k - 1) + 1 = k
        BY <4>2, <1>1
      <4>4. u[k - 1] = i
        BY <4>1, <4>3
      <4>5. QED
        BY <4>3, <4>4
    <3>3. QED
      BY <3>1, <3>2
  <2>2. QED
    BY <2>1, <1>7
<1>9. ASSUME NEW k \in 1 .. n, NEW l \in 1 .. n, k < l
      PROVE  Turn(j, t, u[k]) < Turn(j, t, u[l])
  <2> DEFINE a == s[k + 1]
  <2>1. k + 1 \in 2 .. n /\ k # n /\ k + 1 \in 1 .. n
    BY <1>1, <1>9
  <2>2. u[k] = a /\ a \in S \ {c} /\ a \in 0 .. (t - 1)
    BY <2>1, <1>2, <1>6
  <2>3. Turn(j, t, a) = Turn(c, t, a) - Turn(c, t, j)
    BY <2>2, <1>1, <1>2, TurnShift
  <2>4. Turn(c, t, a) \in 0 .. (t - 1) /\ Turn(c, t, j) \in 0 .. (t - 1)
    BY <1>1, <1>2, <2>2, TurnRange
  <2>5. CASE l = n
    <3>1. u[l] = c
      BY <2>5
    <3>2. Turn(j, t, c) = t - Turn(c, t, j)
      BY <1>1, <1>2, TurnShift
    <3> HIDE DEF a, u
    <3>3. t - Turn(c, t, j) > Turn(c, t, a) - Turn(c, t, j)
      BY <2>4, <1>1
    <3>4. QED
      BY <2>2, <2>3, <3>1, <3>2, <3>3
  <2>6. CASE l # n
    <3> DEFINE b == s[l + 1]
    <3>1. l + 1 \in 2 .. n /\ l + 1 \in 1 .. n /\ k + 1 < l + 1
      BY <1>1, <1>9, <2>6
    <3>2. u[l] = b /\ b \in S \ {c} /\ b \in 0 .. (t - 1)
      BY <3>1, <2>6, <1>2, <1>6
    <3>3. Turn(j, t, b) = Turn(c, t, b) - Turn(c, t, j)
      BY <3>2, <1>1, <1>2, TurnShift
    <3>4. Turn(c, t, b) \in 0 .. (t - 1)
      BY <1>1, <3>2, TurnRange
    <3>5. Turn(c, t, a) < Turn(c, t, b)
      BY <1>1, <2>1, <3>1 DEF Listed, InTurn
    <3> HIDE DEF a, b, u
    <3>6. Turn(c, t, a) - Turn(c, t, j) < Turn(c, t, b) - Turn(c, t, j)
      BY <2>4, <3>4, <3>5
    <3>7. QED
      BY <2>2, <2>3, <3>2, <3>3, <3>6
  <2>7. QED
    BY <2>5, <2>6
<1>10. DOMAIN u = 1 .. n
  OBVIOUS
<1> HIDE DEF u
<1>11. InTurn(u, S, j, t)
  BY <1>8, <1>9, <1>10 DEF InTurn
<1>12. Listed(u, n, S, j, t)
  BY <1>1, <1>2, <1>7, <1>11 DEF Listed
<1>13. QED
  BY <1>5, <1>12 DEF u

LEMMA Killed ==
  ASSUME NEW s, NEW n, NEW S, NEW c, NEW t, Listed(s, n, S, c, t),
         NEW j \in S \ {c}, \A i \in S \ {c} : Turn(c, t, j) <= Turn(c, t, i)
  PROVE  Listed([k \in 1 .. (n - 1) |-> s[k + 1]], n - 1, S \ {c}, j, t)
<1> DEFINE u == [k \in 1 .. n |-> IF k = n THEN c ELSE s[k + 1]]
           v == [k \in 1 .. (n - 1) |-> s[k + 1]]
<1>1. n > 1 /\ Listed(u, n, S, j, t)
  BY Rotated
<1>2. u[n] = c /\ \A k \in 1 .. (n - 1) : v[k] = u[k]
  <2>1. n \in Nat /\ n \in 1 .. n
    BY <1>1 DEF Listed
  <2>2. \A k \in 1 .. (n - 1) : k \in 1 .. n /\ k # n
    BY <2>1
  <2>3. QED
    BY <2>1, <2>2
<1>3. DOMAIN v = 1 .. (n - 1) /\ v = [k \in DOMAIN v |-> v[k]]
  OBVIOUS
<1> HIDE DEF u, v
<1>4. /\ n \in Nat /\ t \in Nat /\ S \subseteq 0 .. (t - 1) /\ j \in S
      /\ u \in [1 .. n -> S] /\ DOMAIN u = 1 .. n /\ S = {u[k] : k \in 1 .. n}
  BY <1>1 DEF Listed, InTurn
<1>5. \A k, l \in 1 .. n : k < l => Turn(j, t, u[k]) < Turn(j, t, u[l])
  BY <1>1, <1>4 DEF Listed, InTurn
<1>6. ASSUME NEW k \in 1 .. (n - 1) PROVE u[k] \in S \ {c}
  <2>1. k \in 1 .. n /\ n \in 1 .. n /\ k < n
    BY <1>4
  <2>2. Turn(j, t, u[k]) < Turn(j, t, c)
    BY <2>1, <1>5, <1>2
  <2>3. Turn(j, t, c) \in Int
    <3>1. j \in 0 .. (t - 1) /\ c \in 0 .. (t - 1)
      BY <2>1, <1>2, <1>4
    <3>2. QED
      BY <3>1, <1>4, TurnRange
  <2>4. u[k] # c
    BY <2>2, <2>3
  <2>5. QED
    BY <2>1, <2>4, <1>4
<1>7. v \in [1 .. (n - 1) -> S \ {c}]
  BY <1>2, <1>3, <1>6
<1>8. S \ {c} = {v[k] : k \in 1 .. (n - 1)}
  <2>1. ASSUME NEW i \in S \ {c} PROVE \E k \in 1 .. (n - 1) : v[k] = i
    <3>1. PICK k \in 1 .. n : u[k] = i
      BY <1>4
    <3>2. k # n
      BY <3>1, <1>2
    <3>3. k \in 1 .. (n - 1)
      BY <3>2, <1>4
    <3>4. QED
      BY <3>1, <3>3, <1>2
  <2>2. QED
    BY <2>1, <1>7
<1>9. ASSUME NEW k \in 1 .. (n - 1), NEW l \in 1 .. (n - 1), k < l
      PROVE  Turn(j, t, v[k]) < Turn(j, t, v[l])
  <2>1. k \in 1 .. n /\ l \in 1 .. n
    BY <1>4
  <2>2. QED
    BY <2>1, <1>2, <1>5, <1>9
<1>10. InTurn(v, S \ {c}, j, t)
  BY <1>3, <1>8, <1>9 DEF InTurn
<1>11. n - 1 \in Nat /\ S \ {c} \subseteq 0 .. (t - 1) /\ j \in S \ {c}
  <2>1. n - 1 \in Nat
    BY <1>1, <1>4
  <2>2. QED
    BY <2>1, <1>4
<1>12. Listed(v, n - 1, S \ {c}, j, t)
  BY <1>4, <1>7, <1>10, <1>11 DEF Listed
<1>13. QED
  BY <1>12 DEF v

(* A slot more in the table puts the slots below the current one further   *)
(* off and moves none before another.                                      *)
LEMMA TurnGrows ==
  ASSUME NEW t \in Nat, NEW c \in 0 .. (t - 1), NEW i \in 0 .. (t - 1), NEW k \in 0 .. (t - 1)
  PROVE  Turn(c, t, i) < Turn(c, t, k) <=> Turn(c, t + 1, i) < Turn(c, t + 1, k)
  BY DEF Turn

LEMMA Wasted ==
  ASSUME NEW s, NEW n, NEW S, NEW c, NEW t, Listed(s, n, S, c, t)
  PROVE  Listed(s, n, S, c, t + 1)
<1>1. /\ n \in Nat /\ t \in Nat /\ S \subseteq 0 .. (t - 1) /\ c \in S /\ c \in 0 .. (t - 1)
      /\ s \in [1 .. n -> S] /\ DOMAIN s = 1 .. n /\ S = {s[k] : k \in 1 .. n}
  BY DEF Listed, InTurn
<1>2. \A k \in 1 .. n : s[k] \in 0 .. (t - 1)
  BY <1>1
<1>3. ASSUME NEW k \in 1 .. n, NEW l \in 1 .. n, k < l
      PROVE  Turn(c, t + 1, s[k]) < Turn(c, t + 1, s[l])
  <2>1. Turn(c, t, s[k]) < Turn(c, t, s[l])
    BY <1>1, <1>3 DEF Listed, InTurn
  <2>2. QED
    BY <2>1, <1>1, <1>2, TurnGrows
<1>4. InTurn(s, S, c, t + 1)
  BY <1>1, <1>3 DEF InTurn
<1>5. t + 1 \in Nat /\ S \subseteq 0 .. ((t + 1) - 1)
  <2>1. ASSUME NEW i \in S PROVE i \in 0 .. ((t + 1) - 1)
    <3>1. i \in 0 .. (t - 1)
      BY <1>1
    <3>2. QED
      BY <3>1, <1>1
  <2>2. S \subseteq 0 .. ((t + 1) - 1)
    BY <2>1
  <2>3. t + 1 \in Nat
    BY <1>1
  <2>4. QED
    BY <2>2, <2>3
<1> DEFINE t1 == t + 1
<1>6. Listed(s, n, S, c, t1)
  <2>1. t1 \in Nat /\ S \subseteq 0 .. (t1 - 1) /\ InTurn(s, S, c, t1)
    BY <1>4, <1>5
  <2> HIDE DEF t1
  <2>2. QED
    BY <2>1, <1>1 DEF Listed
<1>7. QED
  BY <1>6

(* The new slot comes right before slot 0, or last when slot 0 runs.       *)
LEMMA TurnOfNew ==
  ASSUME NEW t \in Nat, NEW c \in 0 .. (t - 1), NEW i \in 0 .. (t - 1)
  PROVE  /\ i < c => Turn(c, t + 1, t) < Turn(c, t + 1, i)
         /\ i >= c => Turn(c, t + 1, i) < Turn(c, t + 1, t)
         /\ Turn(c, t, 0) <= Turn(c, t, i) <=> c = 0 \/ i < c
  BY DEF Turn

Inserted(s, n, x, m) ==
  [k \in 1 .. (n + 1) |-> IF k < m THEN s[k] ELSE IF k = m THEN x ELSE s[k - 1]]

LEMMA Spawned ==
  ASSUME NEW s, NEW n, NEW S, NEW c, NEW t, Listed(s, n, S, c, t),
         NEW m \in 1 .. (n + 1),
         \A k \in 1 .. n : k < m <=> s[k] >= c
  PROVE  Listed(Inserted(s, n, t, m), n + 1, S \cup {t}, c, t + 1)
<1> DEFINE u == [k \in 1 .. (n + 1) |-> IF k < m THEN s[k] ELSE IF k = m THEN t ELSE s[k - 1]]
<1>1. /\ n \in Nat /\ t \in Nat /\ S \subseteq 0 .. (t - 1) /\ c \in S /\ c \in 0 .. (t - 1)
      /\ s \in [1 .. n -> S] /\ DOMAIN s = 1 .. n /\ S = {s[k] : k \in 1 .. n}
  BY DEF Listed, InTurn
<1>2. \A k \in 1 .. n : s[k] \in 0 .. (t - 1)
  BY <1>1
<1>3. \A k, l \in 1 .. n : k < l => Turn(c, t + 1, s[k]) < Turn(c, t + 1, s[l])
  <2>1. Listed(s, n, S, c, t + 1)
    BY Wasted
  <2>2. QED
    BY <2>1, <1>1 DEF Listed, InTurn
<1>4. /\ \A k \in 1 .. (n + 1) : k < m => k \in 1 .. n /\ u[k] = s[k]
      /\ u[m] = t
      /\ \A k \in 1 .. (n + 1) : k > m => k - 1 \in 1 .. n /\ k - 1 >= m /\ u[k] = s[k - 1]
  <2>1. ASSUME NEW k \in 1 .. (n + 1), k < m PROVE k \in 1 .. n /\ u[k] = s[k]
    BY <2>1, <1>1
  <2>2. ASSUME NEW k \in 1 .. (n + 1), k > m
        PROVE  k - 1 \in 1 .. n /\ k - 1 >= m /\ u[k] = s[k - 1]
    BY <2>2, <1>1
  <2>3. u[m] = t
    BY <1>1
  <2>4. QED
    BY <2>1, <2>2, <2>3
<1>5. DOMAIN u = 1 .. (n + 1) /\ u = [k \in 1 .. (n + 1) |-> u[k]]
  OBVIOUS
<1> HIDE DEF u
<1>6. \A k \in 1 .. (n + 1) : u[k] \in S \cup {t}
  <2> SUFFICES ASSUME NEW k \in 1 .. (n + 1) PROVE u[k] \in S \cup {t}
    OBVIOUS
  <2>1. k < m \/ k = m \/ k > m
    BY <1>1
  <2>2. QED
    BY <2>1, <1>1, <1>4
<1>7. u \in [1 .. (n + 1) -> S \cup {t}]
  BY <1>5, <1>6
<1>8. S \cup {t} = {u[k] : k \in 1 .. (n + 1)}
  <2>1. ASSUME NEW i \in S PROVE \E k \in 1 .. (n + 1) : u[k] = i
    <3>1. PICK k \in 1 .. n : s[k] = i
      BY <1>1
    <3>2. CASE k < m
      <4>1. k \in 1 .. (n + 1)
        BY <1>1
      <4>2. u[k] = i
        BY <4>1, <3>1, <3>2, <1>4
      <4>3. QED
        BY <4>1, <4>2
    <3>3. CASE ~(k < m)
      <4>1. k + 1 \in 1 .. (n + 1) /\ k + 1 > m /\ k + 1 - 1 = k
        BY <1>1, <3>3
      <4>2. u[k + 1] = i
        BY <4>1, <3>1, <1>4
      <4>3. QED
        BY <4>1, <4>2
    <3>4. QED
      BY <3>2, <3>3
  <2>2. QED
    BY <2>1, <1>4, <1>6
<1>9. ASSUME NEW k \in 1 .. (n + 1), NEW l \in 1 .. (n + 1), k < l
      PROVE  Turn(c, t + 1, u[k]) < Turn(c, t + 1, u[l])
  <2>1. CASE l < m
    <3>1. k < m
      BY <2>1, <1>9, <1>1
    <3>2. QED
      BY <3>1, <2>1, <1>3, <1>4, <1>9
  <2>2. CASE l = m
    <3>1. k < m /\ k \in 1 .. n /\ u[k] = s[k]
      BY <2>2, <1>9, <1>4
    <3>2. s[k] >= c /\ s[k] \in 0 .. (t - 1)
      BY <3>1, <1>2
    <3>3. QED
      BY <3>1, <3>2, <2>2, <1>1, <1>4, TurnOfNew
  <2>3. CASE l > m /\ k = m
    <3>1. l - 1 \in 1 .. n /\ l - 1 >= m /\ u[l] = s[l - 1]
      BY <2>3, <1>4
    <3>2. ~(l - 1 < m)
      BY <3>1
    <3>3. s[l - 1] < c /\ s[l - 1] \in 0 .. (t - 1)
      BY <3>1, <3>2, <1>1, <1>2
    <3>4. QED
      BY <3>1, <3>3, <2>3, <1>1, <1>4, TurnOfNew
  <2>4. CASE l > m /\ k < m
    <3>1. l - 1 \in 1 .. n /\ u[l] = s[l - 1] /\ k \in 1 .. n /\ u[k] = s[k] /\ k < l - 1
      BY <2>4, <1>1, <1>4
    <3>2. QED
      BY <3>1, <1>3
  <2>5. CASE l > m /\ k > m
    <3>1. l - 1 \in 1 .. n /\ u[l] = s[l - 1] /\ k - 1 \in 1 .. n /\ u[k] = s[k - 1]
      BY <2>5, <1>4
    <3>2. k - 1 < l - 1
      BY <1>1, <1>9
    <3>3. QED
      BY <3>1, <3>2, <1>3
  <2>6. QED
    BY <2>1, <2>2, <2>3, <2>4, <2>5, <1>1
<1>10. InTurn(u, S \cup {t}, c, t + 1)
  BY <1>5, <1>8, <1>9 DEF InTurn
<1>11. n + 1 \in Nat /\ t + 1 \in Nat /\ c \in S \cup {t}
  BY <1>1
<1>12. S \cup {t} \subseteq 0 .. ((t + 1) - 1)
  <2>1. (t + 1) - 1 = t /\ t \in 0 .. t /\ \A i \in 0 .. (t - 1) : i \in 0 .. t
    BY <1>1
  <2>2. QED
    BY <2>1, <1>1
<1> DEFINE n1 == n + 1  t1 == t + 1  S1 == S \cup {t}
<1>13. Listed(u, n1, S1, c, t1)
  <2>1. /\ n1 \in Nat /\ t1 \in Nat /\ S1 \subseteq 0 .. (t1 - 1) /\ c \in S1
        /\ u \in [1 .. n1 -> S1] /\ InTurn(u, S1, c, t1)
    BY <1>7, <1>10, <1>11, <1>12
  <2> HIDE DEF n1, t1, S1
  <2>2. QED
    BY <2>1 DEF Listed
<1>14. QED
  BY <1>13 DEF u, Inserted

(* The lists as sequences, in the terms of RoundRobin.                     *)
LEMMA ListIsSeq ==
  ASSUME NEW S, NEW n \in Nat, NEW s \in [1 .. n -> S]
  PROVE  s \in Seq(S) /\ Len(s) = n
  OBVIOUS

LEMMA TailOfList ==
  ASSUME NEW S, NEW n \in Nat, n >= 1, NEW s \in [1 .. n -> S]
  PROVE  /\ Head(s) = s[1]
         /\ Tail(s) = [k \in 1 .. (n - 1) |-> s[k + 1]]
<1>1. s \in Seq(S) /\ Len(s) = n /\ s # << >>
  OBVIOUS
<1>2. Head(s) = s[1]
  BY <1>1
<1> DEFINE r == [k \in 1 .. (n - 1) |-> s[k + 1]]
<1>3. Tail(s) = r
  <2>1. /\ Tail(s) \in Seq(S) /\ Len(Tail(s)) = n - 1
        /\ \A k \in 1 .. Len(Tail(s)) : Tail(s)[k] = s[k + 1]
    BY <1>1, HeadTailProperties
  <2>2. r \in [1 .. (n - 1) -> S]
    <3>1. \A k \in 1 .. (n - 1) : k + 1 \in 1 .. n
      OBVIOUS
    <3>2. QED
      BY <3>1
  <2>3. \A k \in 1 .. (n - 1) : r[k] = s[k + 1]
    OBVIOUS
  <2> HIDE DEF r
  <2>4. r \in Seq(S) /\ Len(r) = n - 1
    BY <2>2
  <2>5. QED
    BY <2>1, <2>3, <2>4, SeqEqual
<1>4. QED
  BY <1>2, <1>3

LEMMA AppendToList ==
  ASSUME NEW S, NEW n \in Nat, NEW s \in [1 .. n -> S], NEW x \in S
  PROVE  Append(s, x) = [k \in 1 .. (n + 1) |-> IF k = n + 1 THEN x ELSE s[k]]
<1> DEFINE a == Append(s, x)
           u == [k \in 1 .. (n + 1) |-> IF k = n + 1 THEN x ELSE s[k]]
<1>1. s \in Seq(S) /\ Len(s) = n
  OBVIOUS
<1>2. a \in Seq(S) /\ Len(a) = n + 1 /\ a[n + 1] = x /\ \A k \in 1 .. n : a[k] = s[k]
  BY <1>1, AppendProperties
<1>3. u \in [1 .. (n + 1) -> S] /\ u[n + 1] = x /\ \A k \in 1 .. n : u[k] = s[k]
  <2>1. \A k \in 1 .. (n + 1) : k # n + 1 => k \in 1 .. n
    OBVIOUS
  <2>2. \A k \in 1 .. n : k \in 1 .. (n + 1) /\ k # n + 1
    OBVIOUS
  <2>3. n + 1 \in 1 .. (n + 1)
    OBVIOUS
  <2>4. QED
    BY <2>1, <2>2, <2>3
<1> HIDE DEF a, u
<1>4. u \in Seq(S) /\ Len(u) = n + 1
  BY <1>3
<1>5. \A k \in 1 .. (n + 1) : a[k] = u[k]
  <2>1. \A k \in 1 .. (n + 1) : k = n + 1 \/ k \in 1 .. n
    OBVIOUS
  <2>2. QED
    BY <2>1, <1>2, <1>3
<1>6. a = u
  BY <1>2, <1>4, <1>5, SeqEqual
<1>7. QED
  BY <1>6 DEF a, u

LEMMA RotateList ==
  ASSUME NEW S, NEW n \in Nat, n >= 1, NEW s \in [1 .. n -> S]
  PROVE  Append(Tail(s), Head(s)) = [k \in 1 .. n |-> IF k = n THEN s[1] ELSE s[k + 1]]
<1> DEFINE r == [k \in 1 .. (n - 1) |-> s[k + 1]]
           u == [k \in 1 .. n |-> IF k = n THEN s[1] ELSE s[k + 1]]
<1>1. Head(s) = s[1] /\ Tail(s) = r
  BY TailOfList
<1>2. n - 1 \in Nat /\ r \in [1 .. (n - 1) -> S] /\ s[1] \in S
  <2>1. n - 1 \in Nat /\ 1 \in 1 .. n /\ \A k \in 1 .. (n - 1) : k + 1 \in 1 .. n
    OBVIOUS
  <2>2. QED
    BY <2>1
<1> DEFINE w == [k \in 1 .. ((n - 1) + 1) |-> IF k = (n - 1) + 1 THEN s[1] ELSE r[k]]
<1>3. Append(r, s[1]) = w
  <2> HIDE DEF r
  <2>1. QED
    BY <1>2, AppendToList
<1>4. (n - 1) + 1 = n /\ \A k \in 1 .. n : k # n => k \in 1 .. (n - 1)
  OBVIOUS
<1>5. w = u
  BY <1>4
<1> HIDE DEF r, w, u
<1>6. Append(Tail(s), Head(s)) = u
  BY <1>1, <1>3, <1>5
<1>7. QED
  BY <1>6 DEF u

LEMMA InsertIntoList ==
  ASSUME NEW S, NEW n \in Nat, NEW s \in [1 .. n -> S], NEW x \in S, NEW m \in 1 .. n
  PROVE  SubSeq(s, 1, m - 1) \o <<x>> \o SubSeq(s, m, Len(s)) = Inserted(s, n, x, m)
<1> DEFINE p == SubSeq(s, 1, m - 1)
           q == SubSeq(s, m, n)
           px == p \o <<x>>
           u == [k \in 1 .. (n + 1) |-> IF k < m THEN s[k] ELSE IF k = m THEN x ELSE s[k - 1]]
<1>1. s \in Seq(S) /\ Len(s) = n /\ m - 1 \in Int /\ m \in Int /\ 1 \in Int /\ n \in Int
  OBVIOUS
<1>2. /\ p \in Seq(S) /\ Len(p) = m - 1
      /\ \A k \in 1 .. (m - 1) : p[k] = s[k]
  <2>1. \A k \in 1 .. (m - 1) : s[k] \in S
    OBVIOUS
  <2>2. /\ p \in Seq(S) /\ Len(p) = IF 1 <= m - 1 THEN (m - 1) - 1 + 1 ELSE 0
        /\ \A k \in 1 .. ((m - 1) - 1 + 1) : p[k] = s[1 + k - 1]
    BY <1>1, <2>1, SubSeqProperties
  <2> HIDE DEF p
  <2>3. (m - 1) - 1 + 1 = m - 1 /\ \A k \in 1 .. (m - 1) : 1 + k - 1 = k
    BY <1>1
  <2>4. Len(p) = m - 1
    BY <2>2
  <2>5. QED
    BY <2>2, <2>3, <2>4
<1>3. /\ q \in Seq(S) /\ Len(q) = n - m + 1
      /\ \A k \in 1 .. (n - m + 1) : q[k] = s[m + k - 1]
  <2>1. \A k \in m .. n : s[k] \in S
    OBVIOUS
  <2>2. /\ q \in Seq(S) /\ Len(q) = IF m <= n THEN n - m + 1 ELSE 0
        /\ \A k \in 1 .. (n - m + 1) : q[k] = s[m + k - 1]
    BY <1>1, <2>1, SubSeqProperties
  <2>3. QED
    BY <2>2
<1>4. <<x>> \in Seq(S) /\ Len(<<x>>) = 1 /\ <<x>>[1] = x
  OBVIOUS
<1> HIDE DEF p, q
<1>5. /\ px \in Seq(S) /\ Len(px) = m
      /\ \A k \in 1 .. m : px[k] = IF k < m THEN s[k] ELSE x
  <2>1. /\ px \in Seq(S) /\ Len(px) = (m - 1) + 1
        /\ \A k \in 1 .. ((m - 1) + 1) :
             px[k] = IF k <= m - 1 THEN p[k] ELSE <<x>>[k - (m - 1)]
    BY <1>2, <1>4, ConcatProperties
  <2> HIDE DEF px
  <2>2. (m - 1) + 1 = m
    OBVIOUS
  <2>3. ASSUME NEW k \in 1 .. m PROVE px[k] = IF k < m THEN s[k] ELSE x
    <3>1. CASE k < m
      <4>1. k <= m - 1 /\ k \in 1 .. (m - 1)
        BY <3>1
      <4>2. QED
        BY <4>1, <2>1, <2>2, <1>2, <3>1
    <3>2. CASE ~(k < m)
      <4>1. ~(k <= m - 1) /\ k - (m - 1) = 1
        BY <3>2
      <4>2. QED
        BY <4>1, <2>1, <2>2, <1>4, <3>2
    <3>3. QED
      BY <3>1, <3>2
  <2>4. QED
    BY <2>1, <2>2, <2>3
<1> HIDE DEF px
<1>6. /\ px \o q \in Seq(S) /\ Len(px \o q) = n + 1
      /\ \A k \in 1 .. (n + 1) : (px \o q)[k] = u[k]
  <2>1. /\ px \o q \in Seq(S) /\ Len(px \o q) = m + (n - m + 1)
        /\ \A k \in 1 .. (m + (n - m + 1)) :
             (px \o q)[k] = IF k <= m THEN px[k] ELSE q[k - m]
    <3>1. /\ px \o q \in Seq(S) /\ Len(px \o q) = Len(px) + Len(q)
          /\ \A k \in 1 .. (Len(px) + Len(q)) :
               (px \o q)[k] = IF k <= Len(px) THEN px[k] ELSE q[k - Len(px)]
      BY <1>3, <1>5, ConcatProperties
    <3>2. QED
      BY <3>1, <1>3, <1>5
  <2>2. m + (n - m + 1) = n + 1
    OBVIOUS
  <2>3. ASSUME NEW k \in 1 .. (n + 1) PROVE (px \o q)[k] = u[k]
    <3>1. CASE k <= m
      <4>1. k \in 1 .. m /\ (k < m \/ k = m)
        BY <3>1
      <4>2. u[k] = IF k < m THEN s[k] ELSE x
        BY <4>1
      <4>3. QED
        BY <3>1, <4>1, <4>2, <2>1, <2>2, <1>5
    <3>2. CASE ~(k <= m)
      <4>1. k - m \in 1 .. (n - m + 1) /\ m + (k - m) - 1 = k - 1 /\ ~(k < m) /\ k # m
        BY <3>2
      <4>2. u[k] = s[k - 1]
        BY <4>1
      <4>3. q[k - m] = s[k - 1]
        BY <4>1, <1>3
      <4>4. QED
        BY <3>2, <4>2, <4>3, <2>1, <2>2
    <3>3. QED
      BY <3>1, <3>2
  <2>4. QED
    BY <2>1, <2>2, <2>3
<1>7. px \o q = u
  <2>1. u \in Seq(S) /\ Len(u) = n + 1
    <3>1. \A k \in 1 .. (n + 1) : u[k] \in S
      <4>1. \A k \in 1 .. (n + 1) : /\ k < m => k \in 1 .. n
                                    /\ ~(k < m) /\ k # m => k - 1 \in 1 .. n
        OBVIOUS
      <4>2. QED
        BY <4>1
    <3>2. u \in [1 .. (n + 1) -> S]
      BY <3>1
    <3> HIDE DEF u
    <3>3. QED
      BY <3>2
  <2> HIDE DEF u
  <2>2. QED
    BY <2>1, <1>6, SeqEqual
<1>8. QED
  BY <1>1, <1>7 DEF p, q, px, u, Inserted

LEMMA ListedIsRing ==
  ASSUME NEW s, NEW n, NEW S, NEW c, NEW t, Listed(s, n, S, c, t)
  PROVE  RingOf(S, c, t) = s
<1>1. /\ n \in Nat /\ t \in Int /\ c \in Int /\ S \subseteq Int
      /\ s \in [1 .. n -> S] /\ InTurn(s, S, c, t)
  BY DEF Listed
<1>2. QED
  BY <1>1, RingIs

-----------------------------------------------------------------------------
(* Added to the scheduler's invariant: the live slots can be listed.       *)
RingInv == \E s, n : Listed(s, n, ActiveSlots, current_task_index, total_tasks)

LEMMA TableRange ==
  ASSUME Inv
  PROVE  /\ total_tasks \in Nat \ {0}
         /\ {0, current_task_index} \subseteq ActiveSlots
         /\ ActiveSlots \subseteq 0 .. (total_tasks - 1)
         /\ current_task_index \in 0 .. (total_tasks - 1)
<1>1. total_tasks \in Nat \ {0}
  BY SchedulerAssumption DEF Inv, TypeOK
<1>2. {0, current_task_index} \subseteq ActiveSlots /\ ActiveSlots \subseteq 0 .. (total_tasks - 1)
  BY DEF Inv, Resumable
<1>3. QED
  BY <1>1, <1>2

(* The d-th pass of the search looks at the slot whose turn is d.          *)
LEMMA AfterTurn ==
  ASSUME Inv, NEW i \in 0 .. (total_tasks - 1), i # current_task_index
  PROVE  /\ Turn(current_task_index, total_tasks, i) \in 1 .. (total_tasks - 1)
         /\ After(Turn(current_task_index, total_tasks, i)) = i
<1> DEFINE c == current_task_index  t == total_tasks  d == Turn(c, t, i)
<1>1. t \in Nat \ {0} /\ c \in 0 .. (t - 1)
  BY TableRange
<1> HIDE DEF c, t
<1>2. CASE i >= c
  <2>1. d = i - c /\ d \in 1 .. (t - 1)
    BY <1>1, <1>2 DEF Turn, c, t
  <2>2. c + d = i
    BY <2>1, <1>1
  <2>3. i % t = i
    BY <1>1 DEF t
  <2>4. QED
    BY <2>1, <2>2, <2>3 DEF After, c, t
<1>3. CASE ~(i >= c)
  <2>1. d = i - c + t /\ d \in 1 .. (t - 1)
    BY <1>1, <1>3 DEF Turn, c, t
  <2>2. c + d = i + t
    BY <2>1, <1>1
  <2>3. (i + t) % t = i
    BY <1>1 DEF t
  <2>4. QED
    BY <2>1, <2>2, <2>3 DEF After, c, t
<1>4. QED
  BY <1>2, <1>3

LEMMA AfterRange ==
  ASSUME Inv, NEW d \in 1 .. total_tasks
  PROVE  /\ After(d) \in 0 .. (total_tasks - 1)
         /\ After(d) # current_task_index => Turn(current_task_index, total_tasks, After(d)) = d
<1> DEFINE c == current_task_index  t == total_tasks
<1>1. t \in Nat \ {0} /\ c \in 0 .. (t - 1)
  BY TableRange
<1>2. d \in 1 .. t
  OBVIOUS
<1> HIDE DEF c, t
<1>3. CASE c + d < t
  <2>1. (c + d) % t = c + d
    BY <1>1, <1>2, <1>3
  <2>2. After(d) = c + d
    BY <2>1 DEF After, c, t
  <2>3. c + d \in 0 .. (t - 1) /\ Turn(c, t, c + d) = d
    BY <1>1, <1>2, <1>3 DEF Turn
  <2>4. QED
    BY <2>2, <2>3 DEF c, t
<1>4. CASE ~(c + d < t)
  <2>1. (c + d) % t = c + d - t
    BY <1>1, <1>2, <1>4
  <2>2. After(d) = c + d - t
    BY <2>1 DEF After, c, t
  <2>3. c + d - t \in 0 .. (t - 1) /\ (c + d - t # c => Turn(c, t, c + d - t) = d)
    BY <1>1, <1>2, <1>4 DEF Turn
  <2>4. QED
    BY <2>2, <2>3 DEF c, t
<1>5. QED
  BY <1>3, <1>4

(* The search finds the slot whose turn is first (schedule.c:173-180).     *)
LEMMA NextInTurn ==
  ASSUME Inv, NEW j, NextIn(ActiveSlots \ {current_task_index}, j)
  PROVE  /\ j \in ActiveSlots \ {current_task_index}
         /\ \A i \in ActiveSlots \ {current_task_index} :
              Turn(current_task_index, total_tasks, j) <= Turn(current_task_index, total_tasks, i)
<1> DEFINE S == ActiveSlots \ {current_task_index}
           T(i) == Turn(current_task_index, total_tasks, i)
<1>1. PICK d \in 1 .. total_tasks :
        j = After(d) /\ j \in S /\ \A e \in 1 .. (d - 1) : After(e) \notin S
  BY DEF NextIn
<1>2. total_tasks \in Nat /\ \A i \in S : i \in 0 .. (total_tasks - 1) /\ i # current_task_index
  BY TableRange
<1>3. T(j) = d
  BY <1>1, <1>2, AfterRange
<1>4. ASSUME NEW i \in S PROVE T(j) <= T(i)
  <2>1. T(i) \in 1 .. (total_tasks - 1) /\ After(T(i)) = i
    BY <1>2, AfterTurn
  <2> HIDE DEF T
  <2>2. ~(T(i) < d)
    <3> SUFFICES ASSUME T(i) < d PROVE FALSE
      OBVIOUS
    <3>1. T(i) \in 1 .. (d - 1)
      BY <2>1, <1>2
    <3>2. QED
      BY <3>1, <2>1, <1>1
  <2>3. QED
    BY <2>1, <2>2, <1>2, <1>3
<1>5. QED
  BY <1>1, <1>4

-----------------------------------------------------------------------------
(* Each step of the table is a step of the ring, or leaves it alone.       *)
LEMMA RingStutters ==
  ASSUME RingInv, ActiveSlots' = ActiveSlots,
         UNCHANGED <<current_task_index, total_tasks>>
  PROVE  RingInv' /\ UNCHANGED Ring!ringVars
  BY DEF RingInv, Ring!ringVars

(* A switch sends the current task to the back of the ring.                *)
LEMMA RingRotates ==
  ASSUME Inv, RingInv, ActiveSlots' = ActiveSlots, UNCHANGED total_tasks,
         NextIn(ActiveSlots \ {current_task_index}, current_task_index')
  PROVE  RingInv' /\ Ring!Rotate
<1> DEFINE c == current_task_index  t == total_tasks  S == ActiveSlots  j == current_task_index'
<1>1. PICK s, n : Listed(s, n, S, c, t)
  BY DEF RingInv
<1>2. j \in S \ {c} /\ \A i \in S \ {c} : Turn(c, t, j) <= Turn(c, t, i)
  BY NextInTurn
<1> DEFINE u == [k \in 1 .. n |-> IF k = n THEN c ELSE s[k + 1]]
<1>3. n > 1 /\ Listed(u, n, S, j, t)
  <2> HIDE DEF c, t, S, j
  <2>1. QED
    BY <1>1, <1>2, Rotated
<1>4. s[1] = c /\ n \in Nat /\ s \in [1 .. n -> S]
  BY <1>1, CurrentFirst DEF Listed
<1>5. Append(Tail(s), Head(s)) = u /\ Len(s) = n
  <2> HIDE DEF S
  <2>1. n >= 1
    BY <1>3, <1>4
  <2>2. Append(Tail(s), Head(s)) = [k \in 1 .. n |-> IF k = n THEN s[1] ELSE s[k + 1]]
    BY <2>1, <1>4, RotateList
  <2>3. Len(s) = n
    BY <1>4, ListIsSeq
  <2>4. QED
    BY <2>2, <2>3, <1>4
<1> HIDE DEF u
<1>6. RingOf(S, c, t) = s /\ RingOf(S, j, t) = u
  BY <1>1, <1>3, ListedIsRing
<1>7. S' = S /\ t' = t
  OBVIOUS
<1>8. RingInv'
  BY <1>3, <1>7 DEF RingInv
<1>9. Ring!Rotate
  BY <1>3, <1>5, <1>6, <1>7 DEF Ring!Rotate
<1>10. QED
  BY <1>8, <1>9

(* Termination takes it out; the main task is refused.                     *)
LEMMA RingKills ==
  ASSUME Inv, RingInv, current_task_index # 0,
         ActiveSlots' = ActiveSlots \ {current_task_index}, UNCHANGED total_tasks,
         NextIn(ActiveSlots \ {current_task_index}, current_task_index')
  PROVE  RingInv' /\ Ring!Kill
<1> DEFINE c == current_task_index  t == total_tasks  S == ActiveSlots  j == current_task_index'
<1>1. PICK s, n : Listed(s, n, S, c, t)
  BY DEF RingInv
<1>2. j \in S \ {c} /\ \A i \in S \ {c} : Turn(c, t, j) <= Turn(c, t, i)
  BY NextInTurn
<1> DEFINE v == [k \in 1 .. (n - 1) |-> s[k + 1]]
<1>3. n > 1 /\ Listed(v, n - 1, S \ {c}, j, t)
  <2> HIDE DEF c, t, S, j
  <2>1. n > 1 /\ Listed([k \in 1 .. n |-> IF k = n THEN c ELSE s[k + 1]], n, S, j, t)
    BY <1>1, <1>2, Rotated
  <2>2. Listed(v, n - 1, S \ {c}, j, t)
    BY <1>1, <1>2, Killed
  <2>3. QED
    BY <2>1, <2>2
<1>4. s[1] = c /\ n \in Nat /\ s \in [1 .. n -> S]
  BY <1>1, CurrentFirst DEF Listed
<1>5. Tail(s) = v /\ Head(s) = c
  <2> HIDE DEF S
  <2>1. n >= 1
    BY <1>3, <1>4
  <2>2. QED
    BY <2>1, <1>4, TailOfList
<1> HIDE DEF v
<1>6. RingOf(S, c, t) = s /\ RingOf(S \ {c}, j, t) = v
  BY <1>1, <1>3, ListedIsRing
<1>7. S' = S \ {c} /\ t' = t
  OBVIOUS
<1>8. RingInv'
  BY <1>3, <1>7 DEF RingInv
<1>9. Ring!Kill
  BY <1>3, <1>5, <1>6, <1>7 DEF Ring!Kill, Ring!MainTask
<1>10. QED
  BY <1>8, <1>9

(* A slot whose task could not be started is used up.                      *)
LEMMA RingWastes ==
  ASSUME Inv, RingInv, ActiveSlots' = ActiveSlots, UNCHANGED current_task_index,
         total_tasks' = total_tasks + 1
  PROVE  RingInv' /\ Ring!Waste(total_tasks)
<1> DEFINE c == current_task_index  t == total_tasks  S == ActiveSlots
<1>1. PICK s, n : Listed(s, n, S, c, t)
  BY DEF RingInv
<1>2. Listed(s, n, S, c, t + 1)
  BY <1>1, Wasted
<1>3. RingOf(S, c, t) = s /\ RingOf(S, c, t + 1) = s
  BY <1>1, <1>2, ListedIsRing
<1>4. S' = S /\ c' = c /\ t' = t + 1 /\ t \in Nat
  BY TableRange
<1>5. RingInv'
  BY <1>2, <1>4 DEF RingInv
<1>6. t \notin 0 .. (t - 1) /\ 0 .. (t' - 1) = (0 .. (t - 1)) \cup {t}
  BY <1>4
<1>7. Ring!Waste(t)
  BY <1>3, <1>4, <1>6 DEF Ring!Waste
<1>8. QED
  BY <1>5, <1>7

(* A new task enters right before the main task.                           *)
LEMMA RingSpawns ==
  ASSUME Inv, RingInv, ActiveSlots' = ActiveSlots \cup {total_tasks},
         UNCHANGED current_task_index, total_tasks' = total_tasks + 1
  PROVE  RingInv' /\ Ring!Spawn(total_tasks)
<1> DEFINE c == current_task_index  t == total_tasks  S == ActiveSlots
<1>1. PICK s, n : Listed(s, n, S, c, t)
  BY DEF RingInv
<1>2. /\ t \in Nat \ {0} /\ 0 \in S /\ S \subseteq 0 .. (t - 1) /\ c \in 0 .. (t - 1)
      /\ S' = S \cup {t} /\ c' = c /\ t' = t + 1
  BY TableRange
<1>3. n \in Nat /\ s \in [1 .. n -> S] /\ DOMAIN s = 1 .. n /\ S = {s[k] : k \in 1 .. n}
  BY <1>1 DEF Listed, InTurn
<1>4. n >= 1 /\ s[1] = c
  BY <1>1, CurrentFirst
<1> HIDE DEF c, t, S
<1>5. PICK p \in 1 .. n : s[p] = 0
  BY <1>2, <1>3
<1>6. \A k \in 1 .. n : s[k] \in 0 .. (t - 1)
  BY <1>2, <1>3
<1> DEFINE m == IF p = 1 THEN n + 1 ELSE p
           u == Inserted(s, n, t, m)
<1>7. m \in 1 .. (n + 1)
  BY <1>3
<1>8. ASSUME NEW k \in 1 .. n PROVE k < m <=> s[k] >= c
  <2>1. CASE p = 1
    <3>1. c = 0 /\ m = n + 1
      BY <2>1, <1>4, <1>5
    <3>2. QED
      BY <3>1, <1>2, <1>3, <1>6
  <2>2. CASE p # 1
    <3>1. c # 0
      <4> SUFFICES ASSUME c = 0 PROVE FALSE
        OBVIOUS
      <4>1. 1 \in 1 .. n /\ 1 < p
        BY <1>3, <1>4, <2>2
      <4>2. Turn(c, t, s[1]) < Turn(c, t, s[p])
        BY <4>1, <1>1, <1>3 DEF Listed, InTurn
      <4>3. Turn(c, t, c) = 0 /\ s[1] = c /\ s[p] = c
        BY <1>2, <1>4, <1>5, TurnRange
      <4>4. QED
        BY <4>2, <4>3
    <3>2. m = p
      BY <2>2
    <3>3. 0 \in 0 .. (t - 1) /\ s[k] \in 0 .. (t - 1)
      BY <1>2, <1>6
    <3>4. Turn(c, t, s[k]) \in Int /\ Turn(c, t, 0) \in Int
      <4>1. \A i \in 0 .. (t - 1) : Turn(c, t, i) \in 0 .. (t - 1)
        BY <1>2, TurnRange
      <4>2. QED
        BY <3>3, <4>1
    <3>5. k < p <=> Turn(c, t, s[k]) < Turn(c, t, 0)
      <4>1. k < p => Turn(c, t, s[k]) < Turn(c, t, s[p])
        BY <1>1, <1>3 DEF Listed, InTurn
      <4>2. Turn(c, t, s[k]) < Turn(c, t, s[p]) => k < p
        BY <1>1, TurnOrder
      <4>3. QED
        BY <4>1, <4>2, <1>5
    <3>6. Turn(c, t, 0) <= Turn(c, t, s[k]) <=> s[k] < c
      BY <3>1, <3>3, <1>2, TurnOfNew
    <3>7. k < p <=> ~(s[k] < c)
      BY <3>4, <3>5, <3>6
    <3>8. QED
      BY <3>2, <3>3, <3>7, <1>2
  <2>3. QED
    BY <2>1, <2>2
<1>9. Listed(u, n + 1, S \cup {t}, c, t + 1)
  <2> HIDE DEF m
  <2>1. QED
    BY <1>1, <1>7, <1>8, Spawned
<1>10. u = IF p = 1 THEN Append(s, t) ELSE SubSeq(s, 1, p - 1) \o <<t>> \o SubSeq(s, p, Len(s))
  <2> DEFINE T == S \cup {t}
  <2>1. s \in [1 .. n -> T] /\ t \in T /\ n \in Nat
    BY <1>3
  <2>2. CASE p = 1
    <3>1. Append(s, t) = [k \in 1 .. (n + 1) |-> IF k = n + 1 THEN t ELSE s[k]]
      <4> HIDE DEF T, u, m
      <4>1. QED
        BY <2>1, AppendToList
    <3>2. u = [k \in 1 .. (n + 1) |-> IF k = n + 1 THEN t ELSE s[k]]
      <4>1. m = n + 1
        BY <2>2
      <4>2. \A k \in 1 .. (n + 1) : k = n + 1 \/ k < m
        BY <4>1, <1>3
      <4>3. ~(n + 1 < m)
        BY <4>1, <1>3
      <4>4. QED
        BY <4>1, <4>2, <4>3 DEF Inserted
    <3>3. QED
      BY <3>1, <3>2, <2>2
  <2>3. CASE p # 1
    <3>1. SubSeq(s, 1, p - 1) \o <<t>> \o SubSeq(s, p, Len(s)) = Inserted(s, n, t, p)
      <4> HIDE DEF T, u, m
      <4>1. QED
        BY <2>1, InsertIntoList
    <3>2. m = p
      BY <2>3
    <3>3. QED
      BY <3>1, <3>2, <2>3
  <2>4. QED
    BY <2>2, <2>3
<1> HIDE DEF u, m
<1>11. RingOf(S, c, t) = s /\ RingOf(S \cup {t}, c, t + 1) = u
  BY <1>1, <1>9, ListedIsRing
<1>12. RingInv'
  BY <1>2, <1>9 DEF RingInv, S, c, t
<1>13. t \notin 0 .. (t - 1) /\ 0 .. ((t + 1) - 1) = (0 .. (t - 1)) \cup {t}
  BY <1>2
<1>14. Len(s) = n
  BY <1>3, ListIsSeq
<1>15. Ring!Spawn(t)
  <2>1. RingOf(S, c, t)' = u
    BY <1>2, <1>11
  <2>2. p \in 1 .. Len(RingOf(S, c, t)) /\ RingOf(S, c, t)[p] = 0
    BY <1>5, <1>11, <1>14
  <2>3. RingOf(S, c, t)' = IF p = 1
                             THEN Append(RingOf(S, c, t), t)
                             ELSE SubSeq(RingOf(S, c, t), 1, p - 1) \o <<t>>
                                    \o SubSeq(RingOf(S, c, t), p, Len(RingOf(S, c, t)))
    BY <2>1, <1>10, <1>11
  <2>4. (0 .. (t - 1))' = (0 .. (t - 1)) \cup {t}
    BY <1>2, <1>13
  <2>5. QED
    BY <2>2, <2>3, <2>4, <1>13 DEF Ring!Spawn, Ring!MainTask, S, c, t
<1>16. QED
  BY <1>12, <1>15 DEF t

LEMMA RingStarts ==
  ASSUME SchedInit
  PROVE  RingInv /\ Ring!RingInit
<1>1. 0 \in Slot
  BY SchedulerAssumption DEF Slot
<1>2. \A i \in Slot : tasks[i].active <=> i = 0
  BY DEF SchedInit, NoTask
<1>3. ActiveSlots = {0} /\ current_task_index = 0 /\ total_tasks = 1
  BY <1>1, <1>2 DEF ActiveSlots, SchedInit
<1> DEFINE s == <<0>>
<1>4. s \in [1 .. 1 -> {0}] /\ DOMAIN s = 1 .. 1 /\ s[1] = 0
  OBVIOUS
<1> HIDE DEF s
<1>5. InTurn(s, {0}, 0, 1)
  BY <1>4 DEF InTurn
<1>6. Listed(s, 1, {0}, 0, 1)
  BY <1>4, <1>5 DEF Listed
<1>7. RingInv
  BY <1>3, <1>6 DEF RingInv
<1>8. RingOf({0}, 0, 1) = <<0>>
  BY <1>6, ListedIsRing DEF s
<1>9. 0 .. (1 - 1) = {0}
  OBVIOUS
<1>10. Ring!RingInit
  BY <1>3, <1>8, <1>9 DEF Ring!RingInit, Ring!MainTask
<1>11. QED
  BY <1>7, <1>10

LEMMA RingSteps ==
  ASSUME Inv, RingInv, [SchedNext]_schedVars
  PROVE  RingInv' /\ [Ring!RingNext]_Ring!ringVars
<1>1. /\ tasks \in [Slot -> TCB] /\ current_task_index \in Slot
      /\ total_tasks \in Nat \ {0}
      /\ ~TableFull => total_tasks \in Slot
  BY SchedulerAssumption, TableRange DEF Inv, TypeOK, Slot, TableFull
<1>2. CASE UNCHANGED <<tasks, current_task_index, total_tasks>>
  <2>1. ActiveSlots' = ActiveSlots
    BY <1>2 DEF ActiveSlots
  <2>2. QED
    BY <1>2, <2>1, RingStutters
<1>3. CASE UNCHANGED <<tasks, current_task_index>> /\ ~TableFull /\ total_tasks' = total_tasks + 1
  <2>1. ActiveSlots' = ActiveSlots
    BY <1>3 DEF ActiveSlots
  <2>2. RingInv' /\ Ring!Waste(total_tasks)
    BY <1>3, <2>1, RingWastes
  <2>3. total_tasks \in Slot
    BY <1>1, <1>3
  <2>4. Ring!RingNext
    BY <2>2, <2>3 DEF Ring!RingNext
  <2>5. QED
    BY <2>2, <2>4
<1>4. ASSUME NEW r, NEW s, NEW n, ~TableFull,
             tasks' = [tasks EXCEPT ![total_tasks] =
               [rsp |-> r, active |-> TRUE, stack_base |-> s, stack_pages |-> n]],
             total_tasks' = total_tasks + 1, UNCHANGED current_task_index
      PROVE  RingInv' /\ Ring!RingNext
  <2>1. total_tasks \in Slot /\ tasks'[total_tasks].active
    <3>1. total_tasks \in Slot
      BY <1>1, <1>4
    <3>2. QED
      BY <3>1, <1>1, <1>4
  <2>2. \A i \in Slot : i # total_tasks => tasks'[i] = tasks[i]
    BY <1>1, <1>4
  <2>3. ActiveSlots' = ActiveSlots \cup {total_tasks}
    BY <2>1, <2>2 DEF ActiveSlots
  <2>4. RingInv' /\ Ring!Spawn(total_tasks)
    BY <1>4, <2>3, RingSpawns
  <2>5. QED
    BY <2>1, <2>4 DEF Ring!RingNext
<1>5. ASSUME NEW n \in StackSizes, Syscall_Exec(n)
      PROVE  RingInv' /\ [Ring!RingNext]_Ring!ringVars
  <2>1. CASE UNCHANGED schedVars
    BY <2>1, <1>2 DEF schedVars, tableVars
  <2>2. ASSUME NEW s \in Page, Scheduler_AddUserTask(AllocMarks(bitmap, s, n), s, n)
        PROVE  RingInv' /\ [Ring!RingNext]_Ring!ringVars
    <3>1. CASE ~UNCHANGED tasks
      <4>1. PICK k \in Page :
              /\ ~TableFull
              /\ total_tasks' = total_tasks + 1
              /\ tasks' = [tasks EXCEPT ![total_tasks] =
                   [rsp |-> k, active |-> TRUE, stack_base |-> s, stack_pages |-> n]]
              /\ UNCHANGED current_task_index
        BY <2>2, <3>1 DEF Scheduler_AddUserTask, tableVars
      <4>2. QED
        BY <4>1, <1>4
    <3>2. CASE UNCHANGED tasks
      <4>1. /\ UNCHANGED current_task_index
            /\ \/ UNCHANGED total_tasks
               \/ ~TableFull /\ total_tasks' = total_tasks + 1
        BY <2>2 DEF Scheduler_AddUserTask, tableVars
      <4>2. QED
        BY <3>2, <4>1, <1>2, <1>3
    <3>3. QED
      BY <3>1, <3>2
  <2>3. QED
    BY <1>5, <2>1, <2>2 DEF Syscall_Exec
<1>6. CASE Scheduler_AddTask
  <2>1. PICK s \in Page :
          IF TableFull
            THEN UNCHANGED tableVars
            ELSE /\ tasks' = [tasks EXCEPT ![total_tasks] =
                      [rsp |-> s, active |-> TRUE, stack_base |-> s, stack_pages |-> 1]]
                 /\ total_tasks' = total_tasks + 1
                 /\ UNCHANGED current_task_index
    BY <1>6 DEF Scheduler_AddTask
  <2>2. CASE TableFull
    BY <2>1, <2>2, <1>2 DEF tableVars
  <2>3. CASE ~TableFull
    BY <2>1, <2>3, <1>4
  <2>4. QED
    BY <2>2, <2>3
<1>7. CASE CapsLock
  <2>1. CASE UNCHANGED schedVars
    BY <2>1, <1>2 DEF schedVars, tableVars
  <2>2. CASE ~UNCHANGED schedVars
    <3>1. /\ NextIn(ActiveSlots \ {current_task_index}, current_task_index')
          /\ tasks' = [tasks EXCEPT ![current_task_index].rsp = FrameOf(current_task_index)]
          /\ UNCHANGED total_tasks
      BY <1>7, <2>2 DEF CapsLock, Scheduler_Switch, SaveRsp
    <3>2. \A i \in Slot : tasks'[i].active = tasks[i].active
      BY <3>1, <1>1 DEF TCB
    <3>3. ActiveSlots' = ActiveSlots
      BY <3>2 DEF ActiveSlots
    <3>4. QED
      BY <3>1, <3>3, RingRotates DEF Ring!RingNext
  <2>3. QED
    BY <2>1, <2>2
<1>8. CASE Scheduler_TerminateCurrentTask
  <2>1. CASE UNCHANGED schedVars
    BY <2>1, <1>2 DEF schedVars, tableVars
  <2>2. CASE ~UNCHANGED schedVars
    <3>1. current_task_index # 0 /\ UNCHANGED total_tasks
      BY <1>8, <2>2 DEF Scheduler_TerminateCurrentTask
    <3>2. PICK b : tasks' = [tasks EXCEPT ![current_task_index] =
                         [@ EXCEPT !.active = FALSE, !.stack_base = b]]
      BY <1>8, <2>2 DEF Scheduler_TerminateCurrentTask
    <3>3. 0 \in ActiveSlots \ {current_task_index}
      BY <3>1, TableRange
    <3>4. NextIn(ActiveSlots \ {current_task_index}, current_task_index')
      BY <1>8, <2>2, <3>3 DEF Scheduler_TerminateCurrentTask
    <3>5. /\ ~tasks'[current_task_index].active
          /\ \A i \in Slot : i # current_task_index => tasks'[i] = tasks[i]
      BY <3>2, <1>1 DEF TCB
    <3>6. ActiveSlots' = ActiveSlots \ {current_task_index}
      BY <3>5, <1>1 DEF ActiveSlots
    <3>7. QED
      BY <3>1, <3>4, <3>6, RingKills DEF Ring!RingNext
  <2>3. QED
    BY <2>1, <2>2
<1>9. CASE UNCHANGED schedVars
  BY <1>9, <1>2 DEF schedVars, tableVars
<1>10. QED
  BY <1>5, <1>6, <1>7, <1>8, <1>9 DEF SchedNext

(* The scheduler is a round-robin ring (schedule.c:128-196): whatever is   *)
(* started and ended meanwhile, the search over the table takes the live   *)
(* tasks in the order of the ring.                                         *)
THEOREM RoundRobinOrder == SchedSpec => ImplementsRoundRobin
<1>1. Inv /\ RingInv /\ [SchedNext]_schedVars => RingInv' /\ [Ring!RingNext]_Ring!ringVars
  BY RingSteps
<1>2. SchedInit => Inv /\ RingInv /\ Ring!RingInit
  BY InitInv, RingStarts
<1>3. QED
  BY <1>1, <1>2, StepInv, PTL DEF SchedSpec, ImplementsRoundRobin, Ring!RingSpec

-----------------------------------------------------------------------------
(***************************************************************************)
(* The kernel on top of the scheduler.                                     *)
(***************************************************************************)

(* Where a system call runs on the stack of TSS.RSP0, its record saved.    *)
InSyscall == {"handler", "poll", "sysret", "hlt"}

(* What the stacks hold (interrupt.c:188-228, schedule.c:26-51, 88-104):   *)
(* a saved context is all of one thread; what is saved in TSS.RSP0 goes    *)
(* back to ring 3; the first frame of a user task is never overwritten,    *)
(* not even after the task ended; a waiting ring-0 task has its frame.     *)
FramesOnStacks ==
  /\ \A p \in Page : mem[p].regs = mem[p].stack
  /\ mem[Rsp0].kind = "empty" \/ mem[Rsp0].pc = "user"
  /\ \A i \in Slot : kstack[i] # NULL => mem[kstack[i]] = Frame(i, "user")
  /\ \A i \in ActiveSlots \ {current_task_index} :
       IsKernelTask(i) => mem[tasks[i].stack_base] = Frame(i, "ring0")

(* The frame a handler was entered with or moved on to belongs to the      *)
(* current task, if only by its page: two user tasks share TSS.RSP0.       *)
Handling ==
  LET c == current_task_index
  IN  /\ cpu.pc = "isr" => cpu.sp = FrameOf(c)
      /\ cpu.pc \in {"isr", "iret"} =>
           IF IsKernelTask(c)
             THEN cpu.sp = tasks[c].stack_base /\ mem[cpu.sp] = Frame(c, "ring0")
             ELSE cpu.sp \in {Rsp0, kstack[c]} \ {NULL}

(* The CPU runs one thread's registers on that thread's stack, in the ring *)
(* of the current task; interrupts are on in threads only; and over a      *)
(* system call the two copies, in user_rsp_scratch and on the stack of     *)
(* TSS.RSP0, agree with it.                                                *)
Running ==
  LET c == current_task_index
  IN  /\ cpu.regs = cpu.stack
      /\ cpu.if => cpu.pc \in Thread
      /\ cpu.pc = "ring0" => IsKernelTask(c) /\ cpu.regs = c
      /\ cpu.pc \in {"boot", "user"} \cup Entry \cup InSyscall => ~IsKernelTask(c)
      /\ cpu.pc \in {"stack"} \cup InSyscall => scratch[cpu.gs] = cpu.stack
      /\ cpu.pc \in InSyscall => mem[Rsp0].regs = cpu.regs

(* The only interrupt in service is the one whose handler runs. *)
InService == isr = IF cpu.pc = "isr" /\ cpu.vec \in Vector THEN {cpu.vec} ELSE {}

(* The inductive invariant.  It needs the scheduler's: frames stay intact  *)
(* because the stacks they are on are apart, and allocated.                *)
KInv == KernelTypeOK /\ Inv /\ FramesOnStacks /\ Handling /\ Running /\ InService

-----------------------------------------------------------------------------
(* The pages that hold frames are in use, and none of them holds the       *)
(* frames of two.                                                          *)
LEMMA FramePages ==
  ASSUME Inv
  PROVE  /\ Rsp0 \in Page \ {NULL} /\ Rsp0 \in bitmap
         /\ \A i \in Slot : kstack[i] # NULL =>
              /\ kstack[i] \in Page /\ kstack[i] \in bitmap /\ kstack[i] # Rsp0
              /\ \A j \in Slot \ {i} : kstack[j] # kstack[i]
         /\ \A i \in ActiveSlots : IsKernelTask(i) =>
              LET b == tasks[i].stack_base
              IN  /\ b \in Page \ {NULL} /\ b \in bitmap /\ b # Rsp0
                  /\ \A j \in Slot : kstack[j] # b
                  /\ \A j \in ActiveSlots \ {i} : FrameOf(j) # b
<1>1. Rsp0 \in BootUsed /\ Rsp0 \in Page \ {NULL}
  BY SchedulerAssumption
<1>2. \A i \in Slot : kstack[i] # NULL =>
        /\ kstack[i] \in Page /\ kstack[i] \in bitmap /\ kstack[i] # Rsp0
        /\ \A j \in Slot \ {i} : kstack[j] # kstack[i]
  BY <1>1, OwnedInUse DEF Inv, TypeOK, StacksApart, KStackOf
<1>3. ASSUME NEW i \in ActiveSlots, IsKernelTask(i)
      PROVE  LET b == tasks[i].stack_base
             IN  /\ b \in Page \ {NULL} /\ b \in bitmap /\ b # Rsp0
                 /\ \A j \in Slot : kstack[j] # b
                 /\ \A j \in ActiveSlots \ {i} : FrameOf(j) # b
  <2> DEFINE b == tasks[i].stack_base
  <2>1. i \in Slot /\ b = FrameOf(i)
    BY <1>3 DEF ActiveSlots, FrameOf
  <2>2. b \in Page \ {NULL} /\ b \in bitmap
    BY <2>1, FramePage
  <2>3. tasks[i].stack_pages = 1
    BY <1>3 DEF Inv, TaskFields
  <2>4. b \in StackOf(i)
    BY <2>2, <2>3, MaxPagesAssumption DEF StackOf, Run, Page, ActiveSlots
  <2>5. b # Rsp0 /\ \A j \in Slot : kstack[j] # b
    BY <1>1, <2>1, <2>2, <2>4 DEF Inv, StacksApart, KStackOf
  <2>6. \A j \in ActiveSlots \ {i} : FrameOf(j) # b
    <3> TAKE j \in ActiveSlots \ {i}
    <3>1. j \in ActiveSlots
      OBVIOUS
    <3>2. \A c \in Slot : c # j => FrameOf(j) \notin StackOf(c)
      BY <3>1, FramePage
    <3>3. QED
      BY <2>1, <2>4, <3>2
  <2>7. QED
    BY <2>2, <2>5, <2>6
<1>4. QED
  BY <1>1, <1>2, <1>3, OwnedInUse

(* What a step of the task table does to the tasks.  Starting one: either  *)
(* nothing, or a slot nobody had gets a stack nobody had; s # k tells a    *)
(* user task, which also gets a kernel stack k.                            *)
Starts(k) ==
  \E t \in Slot, s \in Page \ {NULL}, n \in Nat :
    LET r == IF k = NULL THEN s ELSE k
    IN  /\ t = total_tasks /\ t \notin ActiveSlots /\ t # 0 /\ kstack[t] = NULL
        /\ r \notin bitmap
        /\ tasks' = [tasks EXCEPT ![t] =
             [rsp |-> r, active |-> TRUE, stack_base |-> s, stack_pages |-> n]]
        /\ kstack' = [kstack EXCEPT ![t] = k]

Drops == UNCHANGED <<tasks, kstack>> /\ (total_tasks \in Slot => ~tasks[total_tasks].active)

(* Going over to another task, which the current one may have ended for.   *)
Moves ==
  LET c == current_task_index
  IN  /\ kstack' = kstack
      /\ current_task_index' \in ActiveSlots \ {c}
      /\ \A i \in Slot : i # c => tasks'[i] = tasks[i]
      /\ tasks'[c].active => tasks'[c].stack_base = tasks[c].stack_base

LEMMA ClaimedSlot ==
  ASSUME Inv
  PROVE  /\ total_tasks \in Slot => ~tasks[total_tasks].active
         /\ ~TableFull => /\ total_tasks \in Slot /\ total_tasks # 0
                          /\ total_tasks \notin ActiveSlots /\ kstack[total_tasks] = NULL
<1>1. total_tasks \notin ActiveSlots
  BY SchedulerAssumption DEF Inv, Resumable, TypeOK
<1>2. ~TableFull => total_tasks \in Slot /\ total_tasks # 0
  BY SchedulerAssumption DEF TableFull, Inv, TypeOK, Slot
<1>3. total_tasks \in Slot => kstack[total_tasks] = NULL
  BY SchedulerAssumption DEF Inv, TaskFields, TypeOK
<1>4. QED
  BY <1>1, <1>2, <1>3 DEF ActiveSlots

LEMMA AddTaskStarts ==
  ASSUME Inv, Scheduler_AddTask
  PROVE  current_task_index' = current_task_index /\ (Drops \/ Starts(NULL))
<1> PICK s \in Page \ {NULL} :
       /\ AllocReturns(bitmap, TotalPages, 1, s)
       /\ IF TableFull
            THEN UNCHANGED tableVars
            ELSE /\ tasks' = [tasks EXCEPT ![total_tasks] =
                      [rsp |-> s, active |-> TRUE, stack_base |-> s, stack_pages |-> 1]]
                 /\ UNCHANGED current_task_index
       /\ UNCHANGED kstack
  BY DEF Scheduler_AddTask
<1>1. CASE TableFull
  BY <1>1, ClaimedSlot DEF tableVars, Drops
<1>2. CASE ~TableFull
  <2>1. s \notin bitmap
    <3>1. Run(s, 1) = {s}
      BY MaxPagesAssumption DEF Run, Page
    <3>2. TotalPages \in 0 .. (MAX_PAGES - 1)
      BY SchedulerAssumption
    <3>3. QED
      BY <3>1, <3>2, AllocGrants
  <2>2. kstack' = [kstack EXCEPT ![total_tasks] = NULL]
    BY <1>2, ClaimedSlot DEF Inv, TypeOK
  <2>3. QED
    BY <1>2, <2>1, <2>2, ClaimedSlot DEF Starts
<1>3. QED
  BY <1>1, <1>2

LEMMA ExecStarts ==
  ASSUME Inv, NEW n \in StackSizes, Syscall_Exec(n)
  PROVE  /\ current_task_index' = current_task_index
         /\ Drops \/ \E k \in Page \ {NULL} : Starts(k)
<1>1. CASE UNCHANGED schedVars
  BY <1>1, ClaimedSlot DEF schedVars, tableVars, Drops
<1>2. CASE ~UNCHANGED schedVars
  <2> PICK s \in Page \ {NULL} : Scheduler_AddUserTask(AllocMarks(bitmap, s, n), s, n)
    BY <1>2 DEF Syscall_Exec
  <2> DEFINE used == AllocMarks(bitmap, s, n)
  <2>1. CASE UNCHANGED <<tasks, current_task_index, kstack>>
    BY <2>1, ClaimedSlot DEF Drops
  <2>2. CASE ~UNCHANGED <<tasks, current_task_index, kstack>>
    <3> PICK k \in Page \ {NULL} :
           /\ ~TableFull
           /\ AllocReturns(used, TotalPages, 1, k)
           /\ tasks' = [tasks EXCEPT ![total_tasks] =
                [rsp |-> k, active |-> TRUE, stack_base |-> s, stack_pages |-> n]]
           /\ kstack' = [kstack EXCEPT ![total_tasks] = k]
           /\ UNCHANGED current_task_index
      BY <2>2 DEF Scheduler_AddUserTask, tableVars
    <3>1. k \notin bitmap
      <4>1. Run(k, 1) = {k}
        BY MaxPagesAssumption DEF Run, Page
      <4>2. TotalPages \in 0 .. (MAX_PAGES - 1)
        BY SchedulerAssumption
      <4>3. QED
        BY <4>1, <4>2, AllocGrants DEF AllocMarks
    <3>2. n \in Nat
      BY SchedulerAssumption
    <3>3. Starts(k)
      BY <3>1, <3>2, ClaimedSlot DEF Starts
    <3>4. QED
      BY <3>3
  <2>3. QED
    BY <2>1, <2>2
<1>3. QED
  BY <1>1, <1>2

LEMMA SwitchMoves ==
  ASSUME Inv, NEW f, Scheduler_Switch(f)
  PROVE  UNCHANGED schedVars \/ Moves
<1>1. CASE UNCHANGED schedVars
  BY <1>1
<1>2. CASE ~UNCHANGED schedVars
  <2>1. /\ current_task_index' \in ActiveSlots \ {current_task_index}
        /\ tasks' = [tasks EXCEPT ![current_task_index].rsp = f]
        /\ kstack' = kstack
    BY <1>2 DEF Scheduler_Switch, NextIn, SaveRsp
  <2>2. QED
    BY <2>1 DEF Moves, Inv, TypeOK, TCB
<1>3. QED
  BY <1>1, <1>2

LEMMA TerminateMoves ==
  ASSUME Inv, Scheduler_TerminateCurrentTask
  PROVE  UNCHANGED schedVars \/ (Moves /\ ~tasks'[current_task_index].active)
<1>1. CASE UNCHANGED schedVars
  BY <1>1
<1>2. CASE ~UNCHANGED schedVars
  <2> DEFINE c == current_task_index
  <2>1. c # 0 /\ 0 \in ActiveSlots
    BY <1>2 DEF Scheduler_TerminateCurrentTask, Inv, Resumable
  <2>2. /\ current_task_index' \in ActiveSlots \ {c}
        /\ kstack' = kstack
        /\ \E b : tasks' = [tasks EXCEPT ![c] = [@ EXCEPT !.active = FALSE, !.stack_base = b]]
    BY <1>2, <2>1 DEF Scheduler_TerminateCurrentTask, NextIn
  <2>3. QED
    BY <2>2 DEF Moves, Inv, TypeOK, TCB
<1>3. QED
  BY <1>1, <1>2

-----------------------------------------------------------------------------
(* Saving the current context where FrameOf says leaves every other frame  *)
(* alone (interrupt.c:188-207, syscall_entry.S:27-40).                     *)
LEMMA SaveKeepsFrames ==
  ASSUME KInv, UNCHANGED schedVars, NEW r \in Saved, r.regs = r.stack,
         ~IsKernelTask(current_task_index) => r.pc = "user",
         mem' = [mem EXCEPT ![FrameOf(current_task_index)] = r]
  PROVE  FramesOnStacks' /\ mem' \in [Page -> Saved]
<1> DEFINE c == current_task_index
           w == FrameOf(c)
<1> USE DEF KInv
<1>1. c \in ActiveSlots /\ w \in Page
  BY FramePage DEF Inv, Resumable
<1>2. mem \in [Page -> Saved]
  BY DEF KernelTypeOK
<1>3. mem' \in [Page -> Saved] /\ \A p \in Page : mem'[p] = IF p = w THEN r ELSE mem[p]
  BY <1>1, <1>2
<1>4. /\ kstack' = kstack /\ tasks' = tasks /\ ActiveSlots' = ActiveSlots
      /\ current_task_index' = c /\ \A i \in ActiveSlots : IsKernelTask(i)' = IsKernelTask(i)
  BY DEF schedVars, tableVars, ActiveSlots, IsKernelTask
<1>5. \A p \in Page : mem'[p].regs = mem'[p].stack
  BY <1>3 DEF FramesOnStacks
<1>6. mem'[Rsp0].kind = "empty" \/ mem'[Rsp0].pc = "user"
  <2>1. Rsp0 \in Page /\ (IsKernelTask(c) => w # Rsp0)
    BY <1>1, FramePages DEF FrameOf
  <2>2. CASE Rsp0 = w
    BY <1>3, <2>1, <2>2
  <2>3. CASE Rsp0 # w
    BY <1>3, <2>1, <2>3 DEF FramesOnStacks
  <2>4. QED
    BY <2>2, <2>3
<1>7. \A i \in Slot : kstack[i] # NULL => mem'[kstack[i]] = Frame(i, "user")
  <2> SUFFICES ASSUME NEW i \in Slot, kstack[i] # NULL
               PROVE  mem'[kstack[i]] = Frame(i, "user")
    OBVIOUS
  <2>1. kstack[i] # w
    <3>1. CASE IsKernelTask(c)
      BY <1>1, <3>1, FramePages DEF FrameOf
    <3>2. CASE ~IsKernelTask(c)
      BY <3>2, FramePages DEF FrameOf
    <3>3. QED
      BY <3>1, <3>2
  <2>2. QED
    BY <1>3, <2>1, FramePages DEF FramesOnStacks
<1>8. \A i \in ActiveSlots \ {c} : IsKernelTask(i) => mem'[tasks[i].stack_base] = Frame(i, "ring0")
  BY <1>1, <1>3, FramePages DEF FramesOnStacks
<1>9. QED
  BY <1>3, <1>4, <1>5, <1>6, <1>7, <1>8 DEF FramesOnStacks

(* The first frame of a task that is started is written on a page that     *)
(* held nobody's frame (schedule.c:26-51, 84-104).                         *)
LEMMA FirstFrameKeeps ==
  ASSUME KInv, NEW k \in Page, Drops \/ Starts(k), current_task_index' = current_task_index,
         NEW at \in Thread, at = IF k = NULL THEN "ring0" ELSE "user",
         FirstFrame(at)
  PROVE  /\ FramesOnStacks' /\ mem' \in [Page -> Saved]
         /\ IsKernelTask(current_task_index)' = IsKernelTask(current_task_index)
         /\ mem'[Rsp0] = mem[Rsp0]
<1> DEFINE c == current_task_index
<1> USE DEF KInv
<1>0. c \in ActiveSlots /\ c \in Slot /\ mem \in [Page -> Saved] /\ Rsp0 \in Page /\ Rsp0 \in bitmap
  BY FramePages DEF KernelTypeOK, Inv, Resumable, ActiveSlots
<1>1. CASE Drops
  <2>1. mem' = mem
    BY <1>1 DEF Drops, FirstFrame
  <2>2. /\ ActiveSlots' = ActiveSlots /\ \A i \in Slot : IsKernelTask(i)' = IsKernelTask(i)
        /\ kstack' = kstack /\ tasks' = tasks
    BY <1>1 DEF Drops, ActiveSlots, IsKernelTask
  <2>3. QED
    BY <1>0, <2>1, <2>2 DEF FramesOnStacks, ActiveSlots
<1>2. CASE Starts(k)
  <2> PICK t \in Slot, s \in Page \ {NULL}, n \in Nat :
        LET r == IF k = NULL THEN s ELSE k
        IN  /\ t = total_tasks /\ t \notin ActiveSlots /\ t # 0 /\ kstack[t] = NULL
            /\ r \notin bitmap
            /\ tasks' = [tasks EXCEPT ![t] =
                 [rsp |-> r, active |-> TRUE, stack_base |-> s, stack_pages |-> n]]
            /\ kstack' = [kstack EXCEPT ![t] = k]
    BY <1>2 DEF Starts
  <2> DEFINE r == IF k = NULL THEN s ELSE k
  <2>1. /\ r \in Page \ {NULL} /\ r \notin bitmap
        /\ \A i \in Slot : i # t => tasks'[i] = tasks[i] /\ kstack'[i] = kstack[i]
        /\ tasks'[t].rsp = r /\ tasks'[t].active /\ tasks'[t].stack_base = s /\ kstack'[t] = k
    BY DEF Inv, TypeOK
  <2>2. /\ ActiveSlots' = ActiveSlots \cup {t} /\ c # t
        /\ \A i \in Slot : i # t => IsKernelTask(i)' = IsKernelTask(i)
        /\ \A i \in {t} : IsKernelTask(i)' <=> k = NULL
    BY <1>0, <2>1 DEF ActiveSlots, IsKernelTask
  <2>3. Frame(t, at) \in Saved
    BY DEF Frame, Saved, Thread, Point
  <2>4. /\ mem' \in [Page -> Saved]
        /\ \A p \in Page : mem'[p] = IF p = r THEN Frame(t, at) ELSE mem[p]
    BY <1>0, <2>1, <2>3 DEF FirstFrame
  <2>5. \A p \in Page : mem'[p].regs = mem'[p].stack
    BY <2>4 DEF FramesOnStacks, Frame
  <2>6. mem'[Rsp0] = mem[Rsp0]
    BY <1>0, <2>1, <2>4
  <2>7. \A i \in Slot : kstack'[i] # NULL => mem'[kstack'[i]] = Frame(i, "user")
    <3>1. ASSUME NEW i \in Slot, i # t, kstack[i] # NULL
          PROVE  mem'[kstack[i]] = Frame(i, "user")
      BY <2>1, <2>4, <3>1, FramePages DEF FramesOnStacks
    <3>2. k # NULL => mem'[k] = Frame(t, "user")
      BY <2>1, <2>4
    <3>3. QED
      BY <2>1, <3>1, <3>2
  <2>8. \A i \in ActiveSlots' \ {c} :
          IsKernelTask(i)' => mem'[tasks'[i].stack_base] = Frame(i, "ring0")
    <3>1. ASSUME NEW i \in ActiveSlots \ {c}, IsKernelTask(i)'
          PROVE  mem'[tasks'[i].stack_base] = Frame(i, "ring0")
      <4>1. i \in Slot /\ i # t /\ IsKernelTask(i)
        BY <2>2, <3>1 DEF ActiveSlots
      <4>2. QED
        BY <2>1, <2>4, <3>1, <4>1, FramePages DEF FramesOnStacks
    <3>2. k = NULL => mem'[s] = Frame(t, "ring0")
      BY <2>1, <2>4
    <3>3. QED
      BY <2>1, <2>2, <3>1, <3>2
  <2>9. QED
    BY <1>0, <2>2, <2>4, <2>5, <2>6, <2>7, <2>8 DEF FramesOnStacks
<1>3. QED
  BY <1>1, <1>2

(* Going over to another task loses no frame: the ring-0 task that waits   *)
(* from now on has the one its handler was entered with.                   *)
LEMMA MoveKeepsFrames ==
  ASSUME KInv, mem' = mem, Moves,
         tasks'[current_task_index].active => cpu.pc = "isr"
  PROVE  FramesOnStacks'
<1> DEFINE c == current_task_index
<1> USE DEF KInv
<1>0. c \in ActiveSlots /\ c \in Slot
  BY DEF Inv, Resumable, ActiveSlots
<1>1. kstack' = kstack /\ current_task_index' # c
  BY DEF Moves
<1>2. ASSUME NEW i \in ActiveSlots', i # current_task_index', IsKernelTask(i)'
      PROVE  mem'[tasks'[i].stack_base] = Frame(i, "ring0")
  <2>1. i \in Slot /\ IsKernelTask(i) /\ tasks'[i].active
    BY <1>1, <1>2 DEF IsKernelTask, ActiveSlots
  <2>2. CASE i = c
    <3>1. cpu.pc = "isr" /\ tasks'[c].stack_base = tasks[c].stack_base
      BY <2>1, <2>2 DEF Moves
    <3>2. QED
      BY <2>1, <2>2, <3>1 DEF Handling
  <2>3. CASE i # c
    <3>1. tasks'[i] = tasks[i] /\ i \in ActiveSlots \ {c}
      BY <2>1, <2>3 DEF Moves, ActiveSlots
    <3>2. QED
      BY <2>1, <3>1 DEF FramesOnStacks
  <2>4. QED
    BY <2>2, <2>3
<1>3. QED
  BY <1>1, <1>2 DEF FramesOnStacks

(* The frame of the task that the scheduler moved on to.                   *)
LEMMA MovedTo ==
  ASSUME KInv, mem' = mem, Moves,
         cpu'.pc = "iret", cpu'.sp = tasks'[current_task_index'].rsp
  PROVE  Handling'
<1> DEFINE j == current_task_index'
<1> USE DEF KInv
<1>1. j \in ActiveSlots \ {current_task_index} /\ j \in Slot /\ kstack' = kstack
  BY DEF Moves, ActiveSlots
<1>2. tasks'[j] = tasks[j]
  BY <1>1 DEF Moves
<1>3. tasks[j].rsp # NULL /\ tasks[j].rsp \in {FrameOf(j), kstack[j]}
  BY <1>1 DEF Inv, Resumable
<1>4. IsKernelTask(j) => /\ tasks[j].rsp = tasks[j].stack_base
                         /\ mem[tasks[j].rsp] = Frame(j, "ring0")
  BY <1>1, <1>3 DEF FrameOf, IsKernelTask, FramesOnStacks
<1>5. ~IsKernelTask(j) => tasks[j].rsp \in {Rsp0, kstack[j]} \ {NULL}
  BY <1>3 DEF FrameOf
<1>6. IsKernelTask(current_task_index)' <=> j # 0 /\ kstack[j] = NULL
  BY <1>1 DEF IsKernelTask
<1>7. IsKernelTask(j) <=> j # 0 /\ kstack[j] = NULL
  BY DEF IsKernelTask
<1>8. QED
  BY <1>1, <1>2, <1>4, <1>5, <1>6, <1>7 DEF Handling

-----------------------------------------------------------------------------
(* Every step of the machine is one of the scheduler's or leaves it alone. *)
LEMMA SchedulerStep ==
  ASSUME KInv, [KernelNext]_kernelVars
  PROVE  [SchedNext]_schedVars
<1> USE DEF KInv
<1>1. CASE BootAddTask
  BY <1>1 DEF BootAddTask, SchedNext
<1>2. CASE Keyboard_Handler
  <2>1. cpu.sp = FrameOf(current_task_index)
    BY <1>2 DEF Keyboard_Handler, Handling
  <2>2. QED
    BY <1>2, <2>1 DEF Keyboard_Handler, SchedNext, CapsLock
<1>3. CASE SyscallExec
  <2>1. ~IsKernelTask(current_task_index)
    BY <1>3 DEF SyscallExec, Serve, Running, InSyscall
  <2>2. QED
    BY <1>3, <2>1 DEF SyscallExec, SchedNext
<1>4. CASE SyscallTerminate
  BY <1>4 DEF SyscallTerminate, SchedNext
<1>5. CASE UNCHANGED schedVars
  BY <1>5
<1>6. (\E v \in Vector : Interrupt(v)) \/ Exception => UNCHANGED schedVars
  BY DEF Interrupt, Exception, Enter
<1>7. Timer_Handler \/ ExceptionHandler \/ isr_restore => UNCHANGED schedVars
  BY DEF Timer_Handler, ExceptionHandler, isr_restore
<1>8. (\E c \in Calls : Syscall(c)) \/ EntrySwapGs \/ EntrySaveRsp \/ EntryStack => UNCHANGED schedVars
  BY DEF Syscall, EntrySwapGs, EntrySaveRsp, EntryStack
<1>9. SyscallPrint \/ SyscallHalt \/ SyscallNvme \/ NvmeCompletes \/ SysRet => UNCHANGED schedVars
  BY DEF SyscallPrint, SyscallHalt, SyscallNvme, NvmeCompletes, SysRet
<1>10. SwitchToUserMode \/ Tick \/ (\E k \in Keys : KeyPress(k)) \/ UNCHANGED kernelVars
         => UNCHANGED schedVars
  BY DEF SwitchToUserMode, Tick, KeyPress, kernelVars
<1>11. QED
  BY <1>1, <1>2, <1>3, <1>4, <1>5, <1>6, <1>7, <1>8, <1>9, <1>10 DEF KernelNext, KernelStep

LEMMA KernelInitInv == KernelInit => KInv
<1> SUFFICES ASSUME KernelInit PROVE KInv
  OBVIOUS
<1> USE DEF KernelInit
<1>1. Inv
  BY InitInv
<1>2. 0 \in Slot /\ NULL \in Page
  BY SchedulerAssumption, MaxPagesAssumption DEF Slot, NULL, Page
<1>3. KernelTypeOK
  <2>1. cpu \in CPU
    BY <1>2 DEF CPU, Point, Thread
  <2>2. [Frame(0, "boot") EXCEPT !.kind = "empty"] \in Saved
    BY <1>2 DEF Frame, Saved, Point
  <2>3. mem \in [Page -> Saved]
    BY <2>2
  <2>4. scratch \in [{"user", "cpu_data"} -> Slot]
    BY <1>2
  <2>5. QED
    BY <1>1, <2>1, <2>3, <2>4 DEF KernelTypeOK, Inv
<1>4. FramesOnStacks
  <2>1. \A p \in Page : mem[p].kind = "empty" /\ mem[p].regs = 0 /\ mem[p].stack = 0
    BY DEF Frame
  <2>2. \A i \in Slot : kstack[i] = NULL
    BY DEF SchedInit
  <2>3. ActiveSlots \subseteq {0} /\ current_task_index = 0
    BY DEF SchedInit, ActiveSlots, NoTask
  <2>4. QED
    BY <2>1, <2>2, <2>3, SchedulerAssumption DEF FramesOnStacks
<1>5. Handling /\ Running /\ InService
  BY DEF Handling, Running, InService, Thread, Entry, InSyscall, IsKernelTask, SchedInit
<1>6. QED
  BY <1>1, <1>3, <1>4, <1>5 DEF KInv

(* A step that leaves the tasks and the stacks alone only has to keep the  *)
(* CPU and the devices in order.                                           *)
LEMMA QuietStep ==
  ASSUME KInv, UNCHANGED <<schedVars, mem>>,
         cpu' \in CPU, scratch' \in [{"user", "cpu_data"} -> Slot],
         irr' \subseteq Vector, key' \in Keys \cup {None},
         Handling', Running', InService'
  PROVE  KInv'
<1>1. Inv'
  BY StepInv DEF KInv
<1>2. FramesOnStacks'
  <2>1. /\ kstack' = kstack /\ tasks' = tasks /\ ActiveSlots' = ActiveSlots /\ mem' = mem
        /\ current_task_index' = current_task_index
        /\ \A i \in ActiveSlots : IsKernelTask(i)' = IsKernelTask(i)
    BY DEF schedVars, tableVars, ActiveSlots, IsKernelTask
  <2>2. QED
    BY <2>1 DEF KInv, FramesOnStacks
<1>3. isr' \subseteq Vector
  BY DEF InService
<1>4. KernelTypeOK'
  BY <1>1, <1>3 DEF KInv, KernelTypeOK, Inv
<1>5. QED
  BY <1>1, <1>2, <1>4 DEF KInv

(* Such a step that also leaves the current context in the CPU.            *)
LEMMA SameTask ==
  ASSUME UNCHANGED schedVars
  PROVE  /\ current_task_index' = current_task_index
         /\ kstack' = kstack /\ tasks' = tasks
         /\ FrameOf(current_task_index)' = FrameOf(current_task_index)
         /\ IsKernelTask(current_task_index)' = IsKernelTask(current_task_index)
  BY DEF schedVars, tableVars, FrameOf, IsKernelTask

(* Entering a handler: the frame goes to the current task's own page, as   *)
(* the CPU runs a ring-0 task on its own stack only (interrupt.c:188).     *)
LEMMA EnterStep ==
  ASSUME KInv, NEW v \in {"fault", "spurious"} \cup Vector, cpu.pc \in Thread, Enter(v),
         irr' \subseteq Vector, isr' = IF v \in Vector THEN {v} ELSE {}
  PROVE  KInv'
<1> DEFINE c == current_task_index
           r == [kind |-> "frame", regs |-> cpu.regs, stack |-> cpu.stack, pc |-> cpu.pc]
<1> USE DEF KInv
<1>0. UNCHANGED <<schedVars, scratch, key>>
  BY DEF Enter
<1>1. cpu \in CPU /\ c \in Slot /\ c \in ActiveSlots
  BY DEF KernelTypeOK, Inv, Resumable, ActiveSlots
<1>2. PushAt = FrameOf(c) /\ FrameOf(c) \in Page
  <2>1. CASE cpu.pc = "ring0"
    <3>1. IsKernelTask(c) /\ cpu.stack = c
      BY <2>1 DEF Running
    <3>2. QED
      BY <1>1, <2>1, <3>1, FramePage DEF PushAt, FrameOf
  <2>2. CASE cpu.pc = "user"
    <3>1. ~IsKernelTask(c)
      BY <2>2 DEF Running
    <3>2. QED
      BY <1>1, <2>2, <3>1, FramePage DEF PushAt, FrameOf, Entry
  <2>3. QED
    BY <2>1, <2>2 DEF Thread
<1>3. r \in Saved /\ r.regs = r.stack /\ (~IsKernelTask(c) => r.pc = "user")
  BY <1>1 DEF Saved, CPU, Running, Thread, Point
<1>4. mem' = [mem EXCEPT ![FrameOf(c)] = r]
  BY <1>2 DEF Enter
<1>5. FramesOnStacks' /\ mem' \in [Page -> Saved]
  BY <1>0, <1>3, <1>4, SaveKeepsFrames
<1>6. /\ cpu' \in CPU /\ cpu'.pc = "isr" /\ cpu'.if = FALSE /\ cpu'.sp = FrameOf(c) /\ cpu'.vec = v
      /\ cpu'.regs = cpu.regs /\ cpu'.stack = cpu.stack
  BY <1>1, <1>2 DEF Enter, CPU, Point
<1>7. Handling'
  <2>1. mem'[FrameOf(c)] = r
    BY <1>2, <1>4 DEF KernelTypeOK
  <2>2. IsKernelTask(c) => r = Frame(c, "ring0") /\ FrameOf(c) = tasks[c].stack_base
    BY DEF Running, Thread, Frame, FrameOf
  <2>3. ~IsKernelTask(c) => FrameOf(c) = Rsp0 /\ Rsp0 # NULL
    BY FramePages DEF FrameOf
  <2>4. QED
    BY <1>0, <1>6, <2>1, <2>2, <2>3, SameTask DEF Handling
<1>8. Running'
  BY <1>6 DEF Running, Thread, Entry, InSyscall
<1>9. InService'
  BY <1>6 DEF InService
<1>10. Inv'
  BY <1>0, StepInv
<1>11. KernelTypeOK'
  BY <1>0, <1>5, <1>6, <1>10 DEF KernelTypeOK, Inv, Vector
<1>12. QED
  BY <1>5, <1>7, <1>8, <1>9, <1>10, <1>11

(* Starting a task, at boot or from a system call.                         *)
LEMMA StartStep ==
  ASSUME KInv, BootAddTask \/ SyscallExec
  PROVE  KInv'
<1> USE DEF KInv
<1>1. Inv'
  <2>1. [SchedNext]_schedVars
    BY SchedulerStep DEF KernelNext, KernelStep
  <2>2. QED
    BY <2>1, StepInv
<1>2. /\ FramesOnStacks' /\ mem' \in [Page -> Saved]
      /\ IsKernelTask(current_task_index)' = IsKernelTask(current_task_index)
      /\ mem'[Rsp0] = mem[Rsp0]
  <2>1. CASE BootAddTask
    <3>1. NULL \in Page /\ "ring0" \in Thread
      BY MaxPagesAssumption DEF NULL, Page, Thread
    <3>2. QED
      BY <2>1, <3>1, AddTaskStarts, FirstFrameKeeps DEF BootAddTask
  <2>2. CASE SyscallExec
    <3> PICK n \in StackSizes : Syscall_Exec(n)
      BY <2>2 DEF SyscallExec
    <3>1. PICK k \in Page \ {NULL} : Drops \/ Starts(k)
      <4>1. Rsp0 \in Page \ {NULL}
        BY FramePages
      <4>2. QED
        BY <4>1, ExecStarts
    <3>2. current_task_index' = current_task_index /\ "user" \in Thread
      BY ExecStarts DEF Thread
    <3>3. FirstFrame("user")
      BY <2>2 DEF SyscallExec
    <3>4. QED
      BY <3>1, <3>2, <3>3, FirstFrameKeeps
  <2>3. QED
    BY <2>1, <2>2
<1>3. cpu.pc \in {"boot", "handler"} /\ cpu \in CPU
  BY DEF BootAddTask, SyscallExec, Serve, KernelTypeOK
<1>4. cpu' = cpu \/ (cpu.pc = "handler" /\ cpu' = [cpu EXCEPT !.pc = "sysret"])
  BY DEF BootAddTask, SyscallExec, Serve
<1>5. /\ cpu' \in CPU /\ cpu'.pc \in {"boot", "sysret", "handler"}
      /\ cpu'.pc = "boot" <=> cpu.pc = "boot"
      /\ cpu'.if = cpu.if /\ cpu'.gs = cpu.gs /\ cpu'.regs = cpu.regs /\ cpu'.stack = cpu.stack
  BY <1>3, <1>4 DEF CPU, Point
<1>6. UNCHANGED <<scratch, irr, isr, key>>
  BY DEF BootAddTask, SyscallExec
<1>7. Handling'
  BY <1>5 DEF Handling
<1>8. Running'
  BY <1>2, <1>3, <1>5, <1>6 DEF Running, Thread, Entry, InSyscall
<1>9. InService'
  BY <1>3, <1>5, <1>6 DEF InService
<1>10. KernelTypeOK'
  BY <1>1, <1>2, <1>5, <1>6 DEF KernelTypeOK, Inv
<1>11. QED
  BY <1>1, <1>2, <1>7, <1>8, <1>9, <1>10

(* The scheduler goes over to another task, or has none to go to.          *)
LEMMA HandOverStep ==
  ASSUME KInv, Keyboard_Handler \/ SyscallTerminate
  PROVE  KInv'
<1> DEFINE c == current_task_index
<1> USE DEF KInv
<1>1. Inv'
  <2>1. [SchedNext]_schedVars
    BY SchedulerStep DEF KernelNext, KernelStep
  <2>2. QED
    BY <2>1, StepInv
<1>2. /\ cpu \in CPU /\ mem' = mem /\ UNCHANGED <<scratch, irr>> /\ key' \in Keys \cup {None}
  BY DEF Keyboard_Handler, SyscallTerminate, KernelTypeOK
<1>3. tasks' \in [Slot -> TCB] /\ current_task_index' \in Slot /\ cpu.sp \in Page
  BY <1>1, <1>2 DEF Inv, TypeOK, CPU
<1>4. ToRestore \in Page
  BY <1>3 DEF ToRestore, TCB
<1>5. /\ cpu' \in CPU /\ cpu'.pc \in {"iret", "sysret"} /\ cpu'.if = cpu.if /\ cpu'.gs = cpu.gs
      /\ cpu'.regs = cpu.regs /\ cpu'.stack = cpu.stack /\ ~cpu.if
      /\ cpu'.pc = "sysret" => cpu.pc = "handler" /\ current_task_index' = c
  <2>1. CASE Keyboard_Handler
    BY <1>2, <1>4, <2>1 DEF Keyboard_Handler, CPU, Point, Running, Thread
  <2>2. CASE SyscallTerminate
    BY <1>2, <1>4, <2>2 DEF SyscallTerminate, Serve, CPU, Point, Running, Thread
  <2>3. QED
    BY <2>1, <2>2
<1>6. isr' = {}
  <2>1. CASE Keyboard_Handler
    <3>1. isr = {"keyboard"}
      BY <2>1 DEF Keyboard_Handler, InService, Vector
    <3>2. isr' = {v \in isr : \E w \in isr : Priority(v) < Priority(w)}
      BY <2>1 DEF Keyboard_Handler, EOI
    <3>3. Priority("keyboard") = 2
      BY DEF Priority
    <3>4. QED
      BY <3>1, <3>2, <3>3
  <2>2. CASE SyscallTerminate
    BY <2>2 DEF SyscallTerminate, Serve, InService
  <2>3. QED
    BY <2>1, <2>2
<1>7. InService'
  BY <1>5, <1>6 DEF InService
<1>8. \/ /\ UNCHANGED schedVars
         /\ (cpu'.pc = "iret" => cpu.pc = "isr" /\ cpu'.sp = cpu.sp)
      \/ /\ Moves
         /\ tasks'[c].active => cpu.pc = "isr"
         /\ cpu'.pc = "iret" /\ cpu'.sp = tasks'[current_task_index'].rsp
  <2>1. Moves => current_task_index' # c
    BY DEF Moves
  <2>2. UNCHANGED schedVars => current_task_index' = c
    BY DEF schedVars, tableVars
  <2>3. CASE Keyboard_Handler
    <3>1. /\ UNCHANGED schedVars \/ Moves
      BY <2>3, SwitchMoves, TerminateMoves DEF Keyboard_Handler
    <3>2. cpu.pc = "isr" /\ cpu'.pc = "iret" /\ cpu'.sp = ToRestore
      BY <1>2, <2>3 DEF Keyboard_Handler, CPU
    <3>3. QED
      BY <2>1, <2>2, <3>1, <3>2 DEF ToRestore
  <2>4. CASE SyscallTerminate
    <3>1. UNCHANGED schedVars \/ (Moves /\ ~tasks'[c].active)
      BY <2>4, TerminateMoves DEF SyscallTerminate
    <3>2. current_task_index' = c => cpu'.pc = "sysret"
      BY <1>2, <2>4 DEF SyscallTerminate, CPU
    <3>3. current_task_index' # c => cpu'.pc = "iret" /\ cpu'.sp = ToRestore
      BY <1>2, <2>4 DEF SyscallTerminate, CPU
    <3>4. QED
      BY <2>1, <2>2, <3>1, <3>2, <3>3 DEF ToRestore
  <2>5. QED
    BY <2>3, <2>4
<1>9. FramesOnStacks' /\ Handling'
  <2>1. CASE Moves /\ cpu'.pc = "iret"
    BY <1>2, <1>8, <2>1, MoveKeepsFrames, MovedTo, SameTask DEF Moves
  <2>2. CASE UNCHANGED schedVars /\ (cpu'.pc = "iret" => cpu.pc = "isr" /\ cpu'.sp = cpu.sp)
    <3>1. FramesOnStacks'
      <4>1. ActiveSlots' = ActiveSlots /\ \A i \in ActiveSlots : IsKernelTask(i)' = IsKernelTask(i)
        BY <2>2, SameTask DEF ActiveSlots, IsKernelTask
      <4>2. QED
        BY <1>2, <2>2, <4>1, SameTask DEF FramesOnStacks
    <3>2. Handling'
      BY <1>2, <1>5, <2>2, SameTask DEF Handling
    <3>3. QED
      BY <3>1, <3>2
  <2>3. QED
    BY <1>8, <2>1, <2>2
<1>10. Running'
  <2>1. CASE cpu'.pc = "iret"
    BY <1>5, <2>1 DEF Running, Thread, Entry, InSyscall
  <2>2. CASE cpu'.pc = "sysret"
    <3>1. UNCHANGED schedVars
      BY <1>5, <1>8, <2>2 DEF Moves
    <3>2. QED
      BY <1>2, <1>5, <2>2, <3>1, SameTask DEF Running, Thread, Entry, InSyscall
  <2>3. QED
    BY <1>5, <2>1, <2>2
<1>11. KernelTypeOK'
  BY <1>1, <1>2, <1>5, <1>6 DEF KernelTypeOK, Inv
<1>12. QED
  BY <1>1, <1>7, <1>9, <1>10, <1>11

(* A context is reloaded: the current task's, or that of some user task if *)
(* the current one is a user task (interrupt.c:206-228).                   *)
LEMMA RestoreStep ==
  ASSUME KInv, isr_restore
  PROVE  KInv'
<1> DEFINE c == current_task_index
           saved == mem[cpu.sp]
<1> USE DEF KInv
<1>1. UNCHANGED <<schedVars, mem, scratch, irr, isr, key>> /\ cpu.pc = "iret"
  BY DEF isr_restore
<1>2. cpu \in CPU /\ saved \in Saved /\ c \in Slot /\ cpu.sp \in Page
  BY DEF KernelTypeOK, CPU, Inv, TypeOK
<1>3. /\ saved.regs = saved.stack
      /\ saved.kind = "frame" => IF IsKernelTask(c) THEN saved = Frame(c, "ring0")
                                                    ELSE saved.pc = "user"
  <2>1. CASE IsKernelTask(c)
    BY <1>1, <1>2, <2>1 DEF Handling, FramesOnStacks
  <2>2. CASE ~IsKernelTask(c)
    <3>1. cpu.sp = Rsp0 \/ (kstack[c] # NULL /\ saved = Frame(c, "user"))
      BY <1>1, <1>2, <2>2 DEF Handling, FramesOnStacks
    <3>2. QED
      BY <1>2, <2>2, <3>1 DEF FramesOnStacks, Frame
  <2>3. QED
    BY <2>1, <2>2
<1>4. ~cpu.if /\ isr = {}
  BY <1>1 DEF Running, InService, Thread
<1>5. CASE saved.kind = "frame"
  <2>1. cpu' = [cpu EXCEPT !.pc = saved.pc, !.regs = saved.regs, !.stack = saved.stack, !.if = TRUE]
    BY <1>5 DEF isr_restore
  <2>2. /\ cpu' \in CPU /\ cpu'.pc = saved.pc /\ cpu'.if /\ cpu'.regs = saved.regs
        /\ cpu'.stack = saved.stack
    BY <1>2, <2>1 DEF CPU, Saved
  <2>3. cpu'.pc = IF IsKernelTask(c) THEN "ring0" ELSE "user"
    BY <1>3, <1>5, <2>2 DEF Frame
  <2>4. Handling'
    BY <2>3 DEF Handling
  <2>5. Running'
    <3>1. IsKernelTask(c) => cpu'.regs = c
      BY <1>3, <1>5, <2>2 DEF Frame
    <3>2. QED
      BY <1>1, <1>3, <2>2, <2>3, <3>1, SameTask DEF Running, Thread, Entry, InSyscall
  <2>6. InService'
    BY <1>1, <1>4, <2>3 DEF InService
  <2>7. QED
    BY <1>1, <2>2, <2>4, <2>5, <2>6, QuietStep DEF KernelTypeOK
<1>6. CASE saved.kind # "frame"
  <2>1. cpu' = [cpu EXCEPT !.pc = "dead"]
    BY <1>6 DEF isr_restore
  <2>2. cpu' \in CPU /\ cpu'.pc = "dead" /\ ~cpu'.if /\ cpu'.regs = cpu'.stack
    BY <1>2, <1>4, <2>1 DEF CPU, Point, Running
  <2>3. Handling' /\ Running' /\ InService'
    BY <1>1, <1>4, <2>2 DEF Handling, Running, InService, Thread, Entry, InSyscall
  <2>4. QED
    BY <1>1, <2>2, <2>3, QuietStep DEF KernelTypeOK
<1>7. QED
  BY <1>5, <1>6

(* The steps of a system call up to its handler, and back.  user_rsp_scratch *)
(* is read with the GS base it was written with, right or wrong.           *)
LEMMA SyscallPathStep ==
  ASSUME KInv,
         \/ \E c \in Calls : Syscall(c)
         \/ EntrySwapGs \/ EntrySaveRsp \/ EntryStack \/ SysRet
         \/ SyscallPrint \/ SyscallHalt \/ SyscallNvme \/ NvmeCompletes
  PROVE  KInv'
<1> DEFINE c == current_task_index
<1> USE DEF KInv
<1>0. /\ cpu \in CPU /\ scratch \in [{"user", "cpu_data"} -> Slot] /\ mem \in [Page -> Saved]
      /\ Rsp0 \in Page
  BY FramePages DEF KernelTypeOK
<1>1. ASSUME NEW call \in Calls, Syscall(call)
      PROVE  KInv'
  <2>1. UNCHANGED <<schedVars, mem, scratch, irr, isr, key>> /\ cpu.pc = "user"
    BY <1>1 DEF Syscall
  <2>2. /\ cpu' \in CPU /\ cpu'.pc = "swapgs" /\ ~cpu'.if
        /\ cpu'.regs = cpu.regs /\ cpu'.stack = cpu.stack
    BY <1>0, <1>1 DEF Syscall, SyscallMask, CPU, Point, Entry
  <2>3. Handling' /\ Running' /\ InService'
    BY <2>1, <2>2, SameTask DEF Handling, Running, InService, Thread, Entry, InSyscall
  <2>4. QED
    BY <2>1, <2>2, <2>3, QuietStep DEF KernelTypeOK
<1>2. CASE EntrySwapGs
  <2>1. UNCHANGED <<schedVars, mem, scratch, irr, isr, key>> /\ cpu.pc = "swapgs"
    BY <1>2 DEF EntrySwapGs
  <2>2. /\ cpu' \in CPU /\ cpu'.pc = "save_rsp" /\ cpu'.if = cpu.if
        /\ cpu'.regs = cpu.regs /\ cpu'.stack = cpu.stack
    BY <1>0, <1>2 DEF EntrySwapGs, SwapGs, CPU, Point, Entry
  <2>3. Handling' /\ Running' /\ InService'
    BY <2>1, <2>2, SameTask DEF Handling, Running, InService, Thread, Entry, InSyscall
  <2>4. QED
    BY <2>1, <2>2, <2>3, QuietStep DEF KernelTypeOK
<1>3. CASE EntrySaveRsp
  <2>1. UNCHANGED <<schedVars, mem, irr, isr, key>> /\ cpu.pc = "save_rsp"
    BY <1>3 DEF EntrySaveRsp
  <2>2. /\ cpu' \in CPU /\ cpu'.pc = "stack" /\ cpu'.if = cpu.if /\ cpu'.gs = cpu.gs
        /\ cpu'.regs = cpu.regs /\ cpu'.stack = cpu.stack
    BY <1>0, <1>3 DEF EntrySaveRsp, CPU, Point, Entry
  <2>3. scratch' \in [{"user", "cpu_data"} -> Slot] /\ scratch'[cpu.gs] = cpu.stack
    BY <1>0, <1>3 DEF EntrySaveRsp, CPU
  <2>4. Handling' /\ Running' /\ InService'
    BY <2>1, <2>2, <2>3, SameTask DEF Handling, Running, InService, Thread, Entry, InSyscall
  <2>5. QED
    BY <2>1, <2>2, <2>3, <2>4, QuietStep DEF KernelTypeOK
<1>4. CASE EntryStack
  <2> DEFINE r == [kind |-> "syscall", regs |-> cpu.regs, stack |-> cpu.stack, pc |-> "user"]
  <2>1. UNCHANGED <<schedVars, scratch, irr, isr, key>> /\ cpu.pc = "stack"
    BY <1>4 DEF EntryStack
  <2>2. /\ cpu' \in CPU /\ cpu'.pc = "handler" /\ cpu'.if = cpu.if /\ cpu'.gs = cpu.gs
        /\ cpu'.regs = cpu.regs /\ cpu'.stack = cpu.stack
    BY <1>0, <1>4 DEF EntryStack, CPU, Point
  <2>3. ~IsKernelTask(c) /\ FrameOf(c) = Rsp0
    BY <2>1 DEF Running, Entry, FrameOf
  <2>4. r \in Saved /\ r.regs = r.stack
    BY <1>0 DEF Saved, CPU, Point, Thread, Running
  <2>5. mem' = [mem EXCEPT ![FrameOf(c)] = r] /\ mem'[Rsp0].regs = cpu.regs
    BY <1>0, <1>4, <2>3 DEF EntryStack
  <2>6. FramesOnStacks' /\ mem' \in [Page -> Saved]
    BY <2>1, <2>3, <2>4, <2>5, SaveKeepsFrames
  <2>7. Handling' /\ Running' /\ InService'
    BY <2>1, <2>2, <2>3, <2>5, SameTask DEF Handling, Running, InService, Thread, Entry, InSyscall
  <2>8. Inv'
    BY <2>1, StepInv
  <2>9. KernelTypeOK'
    BY <2>1, <2>2, <2>6, <2>8 DEF KernelTypeOK, Inv
  <2>10. QED
    BY <2>6, <2>7, <2>8, <2>9
<1>5. CASE SysRet
  <2>1. UNCHANGED <<schedVars, mem, scratch, irr, isr, key>> /\ cpu.pc = "sysret"
    BY <1>5 DEF SysRet
  <2>2. mem[Rsp0].regs \in Slot /\ scratch[cpu.gs] \in Slot /\ SwapGs(cpu.gs) \in {"user", "cpu_data"}
    BY <1>0 DEF Saved, CPU, SwapGs
  <2>3. /\ cpu' \in CPU /\ cpu'.pc = "user"
        /\ cpu'.regs = mem[Rsp0].regs /\ cpu'.stack = scratch[cpu.gs]
    BY <1>0, <1>5, <2>2 DEF SysRet, CPU, Point, Thread
  <2>4. cpu'.regs = cpu'.stack /\ ~IsKernelTask(c)
    BY <2>1, <2>3 DEF Running, InSyscall
  <2>5. Handling' /\ Running' /\ InService'
    BY <2>1, <2>3, <2>4, SameTask DEF Handling, Running, InService, Thread, Entry, InSyscall
  <2>6. QED
    BY <2>1, <2>3, <2>5, QuietStep DEF KernelTypeOK
<1>6. CASE SyscallPrint \/ SyscallHalt \/ SyscallNvme \/ NvmeCompletes
  <2>1. UNCHANGED <<schedVars, mem, scratch, irr, isr, key>> /\ cpu.pc \in InSyscall
    BY <1>6 DEF SyscallPrint, SyscallHalt, SyscallNvme, NvmeCompletes, Serve, InSyscall
  <2>2. PICK p \in {"sysret", "hlt", "poll"} : cpu' = [cpu EXCEPT !.pc = p]
    BY <1>6 DEF SyscallPrint, SyscallHalt, SyscallNvme, NvmeCompletes
  <2>3. /\ cpu' \in CPU /\ cpu'.pc = p /\ cpu'.if = cpu.if /\ cpu'.gs = cpu.gs
        /\ cpu'.regs = cpu.regs /\ cpu'.stack = cpu.stack
    BY <1>0, <2>2 DEF CPU, Point
  <2>4. Handling' /\ Running' /\ InService'
    BY <2>1, <2>3, SameTask DEF Handling, Running, InService, Thread, Entry, InSyscall
  <2>5. QED
    BY <2>1, <2>3, <2>4, QuietStep DEF KernelTypeOK
<1>7. QED
  BY <1>1, <1>2, <1>3, <1>4, <1>5, <1>6

(* The handlers that switch nothing, the devices, and the jump to ring 3.  *)
LEMMA OtherStep ==
  ASSUME KInv,
         \/ SwitchToUserMode \/ Timer_Handler \/ ExceptionHandler
         \/ Tick \/ (\E k \in Keys : KeyPress(k)) \/ UNCHANGED kernelVars
  PROVE  KInv'
<1> USE DEF KInv
<1>0. cpu \in CPU /\ irr \subseteq Vector /\ {"timer", "keyboard"} = Vector
  BY DEF KernelTypeOK, Vector
<1>1. CASE SwitchToUserMode
  <2>1. UNCHANGED <<schedVars, mem, scratch, irr, isr, key>> /\ cpu.pc = "boot"
    BY <1>1 DEF SwitchToUserMode
  <2>2. /\ cpu' \in CPU /\ cpu'.pc = "user"
        /\ cpu'.regs = cpu.regs /\ cpu'.stack = cpu.stack
    BY <1>0, <1>1 DEF SwitchToUserMode, CPU, Point, Thread
  <2>3. Handling' /\ Running' /\ InService'
    BY <2>1, <2>2, SameTask DEF Handling, Running, InService, Thread, Entry, InSyscall
  <2>4. QED
    BY <2>1, <2>2, <2>3, QuietStep DEF KernelTypeOK
<1>2. CASE Timer_Handler
  <2>1. UNCHANGED <<schedVars, mem, scratch, irr, key>> /\ cpu.pc = "isr" /\ cpu.vec = "timer"
    BY <1>2 DEF Timer_Handler
  <2>2. /\ cpu' \in CPU /\ cpu'.pc = "iret" /\ cpu'.if = cpu.if /\ cpu'.sp = cpu.sp
        /\ cpu'.regs = cpu.regs /\ cpu'.stack = cpu.stack
    BY <1>0, <1>2 DEF Timer_Handler, CPU, Point
  <2>3. isr' = {}
    <3>1. isr = {"timer"}
      BY <2>1 DEF InService, Vector
    <3>2. isr' = {v \in isr : \E w \in isr : Priority(v) < Priority(w)}
      BY <1>2 DEF Timer_Handler, EOI
    <3>3. Priority("timer") = 4
      BY DEF Priority
    <3>4. QED
      BY <3>1, <3>2, <3>3
  <2>4. Handling' /\ Running' /\ InService'
    BY <2>1, <2>2, <2>3, SameTask DEF Handling, Running, InService, Thread, Entry, InSyscall
  <2>5. QED
    BY <2>1, <2>2, <2>4, QuietStep DEF KernelTypeOK
<1>3. CASE ExceptionHandler
  <2>1. /\ UNCHANGED <<schedVars, mem, scratch, irr, isr, key>>
        /\ cpu.pc = "isr" /\ cpu.vec \notin Vector
    BY <1>3 DEF ExceptionHandler
  <2>2. /\ cpu' \in CPU /\ cpu'.pc = "dead" /\ cpu'.if = cpu.if
        /\ cpu'.regs = cpu.regs /\ cpu'.stack = cpu.stack
    BY <1>0, <1>3 DEF ExceptionHandler, CPU, Point
  <2>3. Handling' /\ Running' /\ InService'
    BY <2>1, <2>2 DEF Handling, Running, InService, Thread, Entry, InSyscall
  <2>4. QED
    BY <2>1, <2>2, <2>3, QuietStep DEF KernelTypeOK
<1>4. CASE Tick \/ (\E k \in Keys : KeyPress(k)) \/ UNCHANGED kernelVars
  <2>1. /\ UNCHANGED <<schedVars, cpu, mem, scratch, isr>>
        /\ irr' \subseteq Vector /\ key' \in Keys \cup {None}
    BY <1>0, <1>4 DEF Tick, KeyPress, kernelVars, KernelTypeOK
  <2>2. Handling' /\ Running' /\ InService'
    BY <2>1, SameTask DEF Handling, Running, InService
  <2>3. QED
    BY <1>0, <2>1, <2>2, QuietStep DEF KernelTypeOK
<1>5. QED
  BY <1>1, <1>2, <1>3, <1>4

LEMMA KernelStepInv == KInv /\ [KernelNext]_kernelVars => KInv'
<1> SUFFICES ASSUME KInv, [KernelNext]_kernelVars PROVE KInv'
  OBVIOUS
<1>1. CASE \E v \in Vector : Interrupt(v)
  <2> PICK v \in Vector : Interrupt(v)
    BY <1>1
  <2>1. cpu.if /\ Enter(v) /\ irr' = irr \ {v} /\ isr' = isr \cup {v}
    BY DEF Interrupt
  <2>2. cpu.pc \in Thread /\ isr = {}
    BY <2>1 DEF KInv, Running, InService, Thread
  <2>3. QED
    BY <2>1, <2>2, EnterStep DEF KInv, KernelTypeOK
<1>2. CASE Exception
  <2>1. PICK v \in {"fault", "spurious"} : cpu.pc \in Thread /\ Enter(v)
    BY <1>2 DEF Exception, KInv, Running
  <2>2. UNCHANGED <<irr, isr>> /\ isr = {} /\ v \notin Vector
    BY <1>2, <2>1 DEF Exception, KInv, InService, Thread, Vector
  <2>3. QED
    BY <2>1, <2>2, EnterStep DEF KInv, KernelTypeOK
<1>3. CASE isr_restore
  BY <1>3, RestoreStep
<1>4. CASE BootAddTask \/ SyscallExec
  BY <1>4, StartStep
<1>5. CASE Keyboard_Handler \/ SyscallTerminate
  BY <1>5, HandOverStep
<1>6. CASE \/ \E c \in Calls : Syscall(c)
           \/ EntrySwapGs \/ EntrySaveRsp \/ EntryStack \/ SysRet
           \/ SyscallPrint \/ SyscallHalt \/ SyscallNvme \/ NvmeCompletes
  BY <1>6, SyscallPathStep
<1>7. CASE \/ SwitchToUserMode \/ Timer_Handler \/ ExceptionHandler
           \/ Tick \/ (\E k \in Keys : KeyPress(k)) \/ UNCHANGED kernelVars
  BY <1>7, OtherStep
<1>8. QED
  BY <1>1, <1>2, <1>3, <1>4, <1>5, <1>6, <1>7 DEF KernelNext, KernelStep

-----------------------------------------------------------------------------
(* The CPU, the stacks and the devices keep their types.                   *)
THEOREM KernelTypeCorrect == KernelSpec => []KernelTypeOK
<1>1. KInv => KernelTypeOK
  BY DEF KInv
<1>2. QED
  BY KernelInitInv, KernelStepInv, <1>1, PTL DEF KernelSpec

(* The machine implements the scheduler's specification: handlers and      *)
(* system calls change the task table and the bitmap only through its      *)
(* operations, with the frame they expect (keyboard.c:49, 54;              *)
(* syscall.c:196).                                                         *)
THEOREM SchedulerImplementation == KernelSpec => ImplementsScheduler
<1>1. KernelInit => SchedInit
  BY DEF KernelInit
<1>2. KInv /\ [KernelNext]_kernelVars => [SchedNext]_schedVars
  BY SchedulerStep
<1>3. QED
  BY KernelInitInv, KernelStepInv, <1>1, <1>2, PTL DEF KernelSpec, ImplementsScheduler, SchedSpec

(* The scheduler's promises thus hold under every order of interrupts,     *)
(* system calls and switches (schedule.c:128-196): there is a frame to     *)
(* resume on a page nobody freed, and the tasks take turns round the ring. *)
THEOREM SchedulerOnMachine ==
  KernelSpec => /\ []Resumable /\ []StacksApart /\ []PagesAccounted
                /\ SlotsUsedOnce /\ ImplementsRoundRobin
<1>1. KernelSpec => SchedSpec
  BY SchedulerImplementation DEF ImplementsScheduler
<1>2. QED
  BY <1>1, AlwaysResumable, StackSeparation, PageAccounting, NoSlotReuse, RoundRobinOrder

(* A ring-0 task never loses its context: its frame is intact while it     *)
(* waits, and the CPU has its registers while it runs (interrupt.c:188-228).*)
THEOREM RingZeroContexts == KernelSpec => []KernelTaskContexts
<1>1. KInv => KernelTaskContexts
  <2> SUFFICES ASSUME KInv, NEW i \in ActiveSlots, IsKernelTask(i)
               PROVE  IF i # current_task_index
                        THEN mem[tasks[i].rsp] = Frame(i, "ring0")
                        ELSE cpu.pc \in Thread => cpu.pc = "ring0" /\ cpu.regs = i /\ cpu.stack = i
    BY DEF KernelTaskContexts
  <2>1. CASE i # current_task_index
    <3>1. tasks[i].rsp # NULL /\ tasks[i].rsp \in {FrameOf(i), kstack[i]}
      BY <2>1 DEF KInv, Inv, Resumable
    <3>2. tasks[i].rsp = tasks[i].stack_base
      BY <3>1 DEF FrameOf, IsKernelTask
    <3>3. QED
      BY <2>1, <3>2 DEF KInv, FramesOnStacks
  <2>2. CASE i = current_task_index
    BY <2>2 DEF KInv, Running, Thread
  <2>3. QED
    BY <2>1, <2>2
<1>2. QED
  BY KernelInitInv, KernelStepInv, <1>1, PTL DEF KernelSpec

(* A user task starts from the frame that was built for it, however late   *)
(* its first turn comes (schedule.c:84-107).                               *)
THEOREM FirstFramesKept == KernelSpec => []FirstFrameIntact
<1>1. KInv => FirstFrameIntact
  BY DEF KInv, FramesOnStacks, FirstFrameIntact, ActiveSlots
<1>2. QED
  BY KernelInitInv, KernelStepInv, <1>1, PTL DEF KernelSpec

(* Registers and stack always belong to one thread, although all system    *)
(* calls keep the user's stack pointer in one word (syscall_entry.S:24,    *)
(* 92).                                                                    *)
THEOREM OneThreadsContext == KernelSpec => []StackMatchesRegisters
<1>1. KInv => StackMatchesRegisters
  BY DEF KInv, Running, StackMatchesRegisters
<1>2. QED
  BY KernelInitInv, KernelStepInv, <1>1, PTL DEF KernelSpec

(* Every interrupt is acknowledged once before its handler returns         *)
(* (keyboard.c:46, timer.c:10), whatever the handler switched to.          *)
THEOREM InterruptsAcknowledged == KernelSpec => []Acknowledged
<1>1. KInv => Acknowledged
  BY DEF KInv, Running, InService, Acknowledged, Thread
<1>2. QED
  BY KernelInitInv, KernelStepInv, <1>1, PTL DEF KernelSpec
=============================================================================
