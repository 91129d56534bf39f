----------------------------- MODULE NvmeQueue -----------------------------
(***************************************************************************)
(* The NVMe driver (src/nvme.c).  NVMe_Init resets a controller that       *)
(* firmware may have left running, gives it an admin queue and creates the *)
(* I/O queues through it.  On either queue the driver submits one command  *)
(* at a time through the submission ring and polls the completion ring,    *)
(* telling new entries from old by the phase bit; the controller fetches   *)
(* commands and posts completions.  The controller is external: it does    *)
(* what the driver relies on.  The driver ignores the status code of a     *)
(* completion, so an entry carries only its phase, and a command that      *)
(* failed looks like one that did not.                                     *)
(*                                                                         *)
(* One set of variables stands for the queue in use: once the I/O queue is *)
(* set up the admin queue is not used again.                               *)
(***************************************************************************)
EXTENDS Naturals

CONSTANTS
  Size,        \* entries in each ring (q_size, 64 in the code)
  Ops          \* CommandIDs of NVMe_Read and NVMe_Write, 100 and 101

ASSUME QueueAssumption == Size \in Nat /\ Size > 1 /\ Ops # {} /\ Ops \cap {0, 1, 2, 3} = {}

VARIABLES
  pc,                   \* where the driver is, see Waits and TypeOK
  queue,                \* "admin" or "io": which NVMe_Queue is in use
  last,                 \* the last admin command submitted, 0 if none
  en, rdy,              \* CC.EN and CSTS.RDY
  serves,               \* what the controller serves: "firmware", "admin", "iocq", "iosq"
  cid,                  \* CommandID of the command being waited for
  Tail, Head, Phase,    \* the fields of NVMe_Queue
  sq, cq,               \* the rings, as the memory both sides see
  DoorbellTail, DoorbellHead,
  sqHead, cqTail, cqPhase,   \* the controller's side
  doing,                \* the command the controller executes, or NoCmd
  order                 \* history: number of the last command submitted, mod Wrap

setup      == <<queue, last, en>>
driver     == <<pc, cid, Tail, Head, Phase, order>>
controller == <<sqHead, cqTail, cqPhase, doing, rdy, serves>>
vars == <<setup, driver, controller, sq, cq, DoorbellTail, DoorbellHead>>

Slot == 0 .. (Size - 1)

(* Submissions are numbered so that a completion can be told from that of  *)
(* an earlier command with the same CommandID. Wrap bounds the numbers: it *)
(* is larger than the number of entries in both rings.                     *)
Wrap == 2 * Size + 1

NoCmd == [cid |-> 0, number |-> Wrap]
Admin == 1 .. 3   \* CommandIDs: Identify, Create I/O CQ, Create I/O SQ
Cmd == [cid : Admin \cup Ops, number : 0 .. (Wrap - 1)] \cup {NoCmd}

Entry == [cmd : Cmd, phase : {0, 1}]

(* The rings are static buffers, zero before their first use. *)
ZeroSq == [i \in Slot |-> NoCmd]
ZeroCq == [i \in Slot |-> [cmd |-> NoCmd, phase |-> 0]]

(* Firmware may have used the controller to load the kernel: it is enabled *)
(* and serves firmware's queues, or is on its way down.                    *)
Init ==
  /\ pc = "start" /\ cid = 0
  /\ queue = "admin" /\ last = 0
  /\ en \in BOOLEAN /\ rdy \in BOOLEAN /\ (en => rdy)
  /\ serves = IF rdy THEN {"firmware"} ELSE {}
  /\ Tail = 0 /\ Head = 0 /\ Phase = 1
  /\ sq = ZeroSq /\ cq = ZeroCq
  /\ DoorbellTail = 0 /\ DoorbellHead = 0
  /\ sqHead = 0 /\ cqTail = 0 /\ cqPhase = 1
  /\ doing = NoCmd
  /\ order = 0

After_OffByOne(i) == IF i + 1 > Size THEN 0 ELSE i + 1   \* variant

After(i) == IF i + 1 >= Size THEN 0 ELSE i + 1

-----------------------------------------------------------------------------
(* NVMe_SubmitCommand: copy the command, advance the tail, ring the bell.  *)
Submit(c) ==
  /\ pc = "idle"
  /\ sq' = [sq EXCEPT ![Tail] = [cid |-> c, number |-> (order + 1) % Wrap]]
  /\ order' = (order + 1) % Wrap
  /\ Tail' = After(Tail)
  /\ cid' = c
  /\ pc' = "ring"
  /\ UNCHANGED <<Head, Phase, controller, cq, DoorbellTail, DoorbellHead>>

RingTail ==
  /\ pc = "ring"
  /\ DoorbellTail' = Tail
  /\ pc' = "poll"
  /\ UNCHANGED <<setup, cid, Tail, Head, Phase, order, controller, sq, cq, DoorbellHead>>

(* NVMe_WaitForCompletion: one pass of the loop that finds a new entry. An *)
(* entry with another CommandID is consumed and the loop goes on.          *)
(* Variants: any entry counts as new; the phase never flips. *)
IsNew_Always == TRUE
NextPhase_Kept == Phase

IsNew == cq[Head].phase = Phase

NextPhase == IF Head + 1 >= Size THEN 1 - Phase ELSE Phase

Consume ==
  /\ pc = "poll"
  /\ IsNew
  /\ Head' = After(Head)
  /\ Phase' = NextPhase
  /\ DoorbellHead' = After(Head)
  /\ IF cq[Head].cmd.cid = cid
       THEN pc' = "done"
       ELSE UNCHANGED pc
  /\ UNCHANGED <<setup, cid, Tail, order, controller, sq, cq, DoorbellTail>>

(* The wait returns, whatever the entry's status; NVMe_Read and NVMe_Write *)
(* return 0.                                                               *)
Return ==
  /\ pc = "done"
  /\ pc' = "idle"
  /\ UNCHANGED <<setup, cid, Tail, Head, Phase, order, controller, sq, cq, DoorbellTail, DoorbellHead>>

-----------------------------------------------------------------------------
(* NVMe_Init: disable the controller and wait until it says so; the        *)
(* variant does not wait.                                                  *)
Disable ==
  /\ pc = "start"
  /\ en' = FALSE
  /\ pc' = "wait_disabled"
  /\ UNCHANGED <<queue, last, cid, Tail, Head, Phase, order, controller, sq, cq,
                 DoorbellTail, DoorbellHead>>

IsDisabled_Assumed == TRUE

IsDisabled == ~rdy

(* ASQ, ACQ and the admin queue's fields (which are as they were, since    *)
(* this runs once), then CC.EN.                                            *)
Enable ==
  /\ pc = "wait_disabled" /\ IsDisabled
  /\ en' = TRUE
  /\ pc' = "wait_enabled"
  /\ UNCHANGED <<queue, last, cid, Tail, Head, Phase, order, controller, sq, cq,
                 DoorbellTail, DoorbellHead>>

IsEnabled ==
  /\ pc = "wait_enabled" /\ rdy
  /\ pc' = "idle"
  /\ UNCHANGED <<setup, cid, Tail, Head, Phase, order, controller, sq, cq,
                 DoorbellTail, DoorbellHead>>

(* NVMe_IdentifyController and NVMe_SetupIOQueues. *)
AdminCommand ==
  /\ queue = "admin" /\ last < 3
  /\ last' = last + 1
  /\ Submit(last + 1)
  /\ UNCHANGED <<queue, en>>

(* The end of NVMe_SetupIOQueues: from here on the variables are those of  *)
(* the I/O queue, the controller's as it created them.                     *)
SetupIOQueue ==
  /\ pc = "idle" /\ queue = "admin" /\ last = 3
  /\ queue' = "io"
  /\ Tail' = 0 /\ Head' = 0 /\ Phase' = 1
  /\ sq' = ZeroSq /\ cq' = ZeroCq
  /\ DoorbellTail' = 0 /\ DoorbellHead' = 0
  /\ sqHead' = 0 /\ cqTail' = 0 /\ cqPhase' = 1
  /\ UNCHANGED <<pc, cid, order, last, en, rdy, serves, doing>>

ReadWrite(c) ==
  /\ queue = "io"
  /\ Submit(c)
  /\ UNCHANGED setup

-----------------------------------------------------------------------------
(* The controller.  Disabled, it forgets its queues; enabled again, it     *)
(* takes the admin queue from ASQ and ACQ.                                 *)
GoDown ==
  /\ ~en /\ rdy
  /\ rdy' = FALSE /\ serves' = {} /\ doing' = NoCmd
  /\ UNCHANGED <<setup, driver, sqHead, cqTail, cqPhase, sq, cq, DoorbellTail, DoorbellHead>>

ComeUp ==
  /\ en /\ ~rdy
  /\ rdy' = TRUE /\ serves' = {"admin"}
  /\ UNCHANGED <<setup, driver, sqHead, cqTail, cqPhase, doing, sq, cq, DoorbellTail, DoorbellHead>>

(* It looks at the ring of a queue it serves.  The queue that it creates   *)
(* when it executes a command: a submission queue only on a completion     *)
(* queue that exists.                                                      *)
Serving == IF queue = "io" THEN "iosq" \in serves ELSE "admin" \in serves

Creates(c) ==
  IF c = 2 THEN {"iocq"} ELSE IF c = 3 /\ "iocq" \in serves THEN {"iosq"} ELSE {}

Fetch ==
  /\ doing = NoCmd /\ Serving
  /\ sqHead # DoorbellTail
  /\ doing' = sq[sqHead]
  /\ sqHead' = After(sqHead)
  /\ UNCHANGED <<setup, driver, cqTail, cqPhase, rdy, serves, sq, cq, DoorbellTail, DoorbellHead>>

(* The completion ring is full when one more entry would reach its head.   *)
Post ==
  /\ doing # NoCmd
  /\ After(cqTail) # DoorbellHead
  /\ cq' = [cq EXCEPT ![cqTail] = [cmd |-> doing, phase |-> cqPhase]]
  /\ cqTail' = After(cqTail)
  /\ cqPhase' = IF cqTail + 1 >= Size THEN 1 - cqPhase ELSE cqPhase
  /\ serves' = serves \cup Creates(doing.cid)
  /\ doing' = NoCmd
  /\ UNCHANGED <<setup, driver, sqHead, rdy, sq, DoorbellTail, DoorbellHead>>

(* A pass of one of the three polling loops that finds nothing. *)
Poll ==
  /\ \/ pc = "wait_disabled" /\ ~IsDisabled
     \/ pc = "wait_enabled" /\ ~rdy
     \/ pc = "poll" /\ ~IsNew
  /\ UNCHANGED vars

DriverStep ==
  \/ Poll \/ Disable \/ Enable \/ IsEnabled \/ AdminCommand \/ SetupIOQueue
  \/ RingTail \/ Consume \/ Return
ControllerStep == GoDown \/ ComeUp \/ Fetch \/ Post

Next == (\E c \in Ops : ReadWrite(c)) \/ DriverStep \/ ControllerStep

Spec == Init /\ [][Next]_vars

(* The CPU runs the polling loops; the controller works. *)
FairSpec == Spec /\ WF_vars(DriverStep) /\ WF_vars(ControllerStep)

-----------------------------------------------------------------------------
Waits == {"wait_disabled", "wait_enabled", "poll"}

TypeOK ==
  /\ pc \in Waits \cup {"start", "idle", "ring", "done"}
  /\ queue \in {"admin", "io"} /\ last \in 0 .. 3
  /\ en \in BOOLEAN /\ rdy \in BOOLEAN
  /\ serves \subseteq {"firmware", "admin", "iocq", "iosq"}
  /\ cid \in Admin \cup Ops \cup {0}
  /\ {Tail, Head, DoorbellTail, DoorbellHead, sqHead, cqTail} \subseteq Slot
  /\ {Phase, cqPhase} \subseteq {0, 1}
  /\ sq \in [Slot -> Cmd] /\ cq \in [Slot -> Entry] /\ doing \in Cmd
  /\ order \in 0 .. (Wrap - 1)

LastConsumed == cq[(Head + Size - 1) % Size]

(* The wait ends with the completion of the command just submitted, never  *)
(* with a leftover entry of an earlier command or an earlier pass of the   *)
(* ring (nvme.c:44-61), although command IDs repeat.                       *)
OwnCompletion == pc = "done" => LastConsumed.cmd = [cid |-> cid, number |-> order]

(* Nothing is left over between two commands: both rings are drained, so   *)
(* no command slot is overwritten before the controller fetched it.        *)
Drained ==
  pc = "idle" => /\ sqHead = Tail /\ cqTail = Head /\ cqPhase = Phase
                 /\ doing = NoCmd /\ DoorbellHead = Head

(* Every busy wait ends: for the controller to go down and to come up      *)
(* (nvme.c:197, 234), whatever firmware left behind, and for a completion, *)
(* which a read polls for with interrupts off.                             *)
WaitEnds == \A p \in Waits : pc = p ~> pc # p
=============================================================================
