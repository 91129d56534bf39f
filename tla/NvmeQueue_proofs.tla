-------------------------- MODULE NvmeQueue_proofs --------------------------
(***************************************************************************)
(* Proofs about NvmeQueue for rings of every size: any number of commands, *)
(* so any number of passes round the two rings.                            *)
(***************************************************************************)
EXTENDS NvmeQueue, TLAPS

Current == [cid |-> cid, number |-> order]

(* The completion ring: entries the controller wrote on this pass have its *)
(* phase, those left from the pass before have the other one.              *)
PhasesSplit == \A i \in Slot : cq[i].phase = IF i < cqTail THEN cqPhase ELSE 1 - cqPhase

(* Nothing was posted that the driver has not consumed. *)
NothingPosted == cqTail = Head /\ cqPhase = Phase

(* How far the one outstanding command is: still in the submission ring,   *)
(* being executed, or answered by the one entry the driver has not seen.   *)
NotFetched == /\ sqHead \in Slot /\ Tail = After(sqHead) /\ sq[sqHead] = Current
              /\ doing = NoCmd /\ NothingPosted
Executing  == sqHead = Tail /\ doing = Current /\ NothingPosted
Answered   == /\ sqHead = Tail /\ doing = NoCmd
              /\ cqTail = After(Head) /\ cqPhase = NextPhase
              /\ cq[Head] = [cmd |-> Current, phase |-> Phase]
Quiet      == sqHead = Tail /\ doing = NoCmd /\ NothingPosted

(* One command at a time (nvme.c:23-61): where the driver is says which of *)
(* these can be.                                                           *)
OneCommand ==
  /\ DoorbellHead = Head
  /\ DoorbellTail = IF pc = "ring" THEN sqHead ELSE Tail
  /\ pc = "ring" => NotFetched
  /\ pc = "poll" => NotFetched \/ Executing \/ Answered
  /\ pc \notin {"ring", "poll"} => Quiet
  /\ pc = "done" => \E h \in Slot : Head = After(h) /\ cq[h].cmd = Current

(* The controller is not reset once the driver uses the rings. *)
StaysEnabled == pc \notin {"start", "wait_disabled"} => en

QInv == TypeOK /\ PhasesSplit /\ OneCommand /\ StaysEnabled

-----------------------------------------------------------------------------
(* The rings wrap. *)
LEMMA AfterInRing ==
  ASSUME NEW i \in Slot
  PROVE  After(i) \in Slot /\ After(i) # i
  BY QueueAssumption DEF Slot, After

(* The entry before the one that After leads to. *)
LEMMA BeforeAfter ==
  ASSUME NEW h \in Slot
  PROVE  (After(h) + Size - 1) % Size = h
<1>1. Size \in Nat /\ Size > 1 /\ h \in 0 .. (Size - 1)
  BY QueueAssumption DEF Slot
<1>2. CASE h + 1 >= Size
  <2>1. After(h) = 0 /\ h = Size - 1
    BY <1>1, <1>2 DEF After
  <2>2. (Size - 1) % Size = Size - 1
    BY <1>1
  <2>3. QED
    BY <1>1, <2>1, <2>2
<1>3. CASE h + 1 < Size
  <2>1. After(h) = h + 1
    BY <1>1, <1>3 DEF After
  <2>2. (h + Size) % Size = h
    BY <1>1
  <2>3. QED
    BY <1>1, <2>1, <2>2
<1>4. QED
  BY <1>1, <1>2, <1>3

LEMMA NextNumber ==
  ASSUME NEW n \in 0 .. (Wrap - 1)
  PROVE  (n + 1) % Wrap \in 0 .. (Wrap - 1)
  BY QueueAssumption DEF Wrap

LEMMA QInitInv == Init => QInv
<1> SUFFICES ASSUME Init PROVE QInv
  OBVIOUS
<1> USE DEF Init
<1>1. 0 \in Slot /\ Wrap \in Nat \ {0}
  BY QueueAssumption DEF Slot, Wrap
<1>2. NoCmd \in Cmd
  BY DEF Cmd
<1>3. TypeOK
  BY <1>1, <1>2 DEF TypeOK, Waits, ZeroSq, ZeroCq, Entry
<1>4. PhasesSplit
  BY DEF PhasesSplit, ZeroCq, Slot
<1>5. OneCommand /\ StaysEnabled
  BY DEF OneCommand, Quiet, NothingPosted, StaysEnabled
<1>6. QED
  BY <1>3, <1>4, <1>5 DEF QInv

(* A command is written where the controller has fetched the last one      *)
(* (nvme.c:23-42), so both rings hold nothing the driver still waits for.  *)
LEMMA SubmitStep ==
  ASSUME QInv, NEW c \in Admin \cup Ops, Submit(c),
         queue' = queue, last' \in 0 .. 3, en' = en
  PROVE  QInv'
<1> USE DEF QInv
<1>1. /\ Tail \in Slot /\ order \in 0 .. (Wrap - 1) /\ sq \in [Slot -> Cmd]
  BY DEF TypeOK
<1>2. order' \in 0 .. (Wrap - 1) /\ order' = (order + 1) % Wrap
  BY <1>1, NextNumber DEF Submit
<1>3. Current' = [cid |-> c, number |-> order'] /\ Current' \in Cmd
  BY <1>2 DEF Submit, Current, Cmd
<1>4. sq' = [sq EXCEPT ![Tail] = Current'] /\ Tail' = After(Tail) /\ Tail' \in Slot
  BY <1>1, <1>2, <1>3, AfterInRing DEF Submit
<1>5. sq' \in [Slot -> Cmd] /\ sq'[Tail] = Current'
  BY <1>1, <1>3, <1>4
<1>6. UNCHANGED <<Head, Phase, sqHead, cqTail, cqPhase, doing, rdy, serves, cq,
                  DoorbellTail, DoorbellHead>>
      /\ pc = "idle" /\ pc' = "ring" /\ cid' = c
  BY DEF Submit, controller
<1>7. TypeOK'
  BY <1>2, <1>4, <1>5, <1>6 DEF TypeOK
<1>8. PhasesSplit'
  BY <1>6 DEF PhasesSplit
<1>9. OneCommand'
  <2>1. Quiet /\ DoorbellTail = Tail /\ DoorbellHead = Head
    BY <1>6 DEF OneCommand
  <2>2. NotFetched'
    BY <1>1, <1>4, <1>5, <1>6, <2>1 DEF NotFetched, Quiet, NothingPosted, After
  <2>3. QED
    BY <1>6, <2>1, <2>2 DEF OneCommand, Quiet
<1>10. StaysEnabled'
  BY <1>6 DEF StaysEnabled
<1>11. QED
  BY <1>7, <1>8, <1>9, <1>10

(* The driver finds the one entry it has not seen, and it answers the      *)
(* command (nvme.c:44-61).                                                 *)
LEMMA ConsumeStep ==
  ASSUME QInv, Consume
  PROVE  QInv'
<1> USE DEF QInv
<1>1. /\ Head \in Slot /\ cq \in [Slot -> Entry] /\ Phase \in {0, 1}
      /\ cqPhase \in {0, 1} /\ cqTail \in Slot
  BY DEF TypeOK
<1>2. /\ UNCHANGED <<queue, last, en, cid, Tail, order, sqHead, cqTail, cqPhase, doing, rdy,
                     serves, sq, cq, DoorbellTail>>
      /\ pc = "poll" /\ cq[Head].phase = Phase
      /\ Head' = After(Head) /\ DoorbellHead' = After(Head) /\ Phase' = NextPhase
  BY DEF Consume, setup, controller, IsNew
<1>3. Answered
  <2>1. NothingPosted => cq[Head].phase = 1 - Phase
    BY <1>1 DEF PhasesSplit, NothingPosted, Slot
  <2>2. ~NothingPosted
    BY <1>1, <1>2, <2>1
  <2>3. QED
    BY <1>2, <2>2 DEF OneCommand, NotFetched, Executing
<1>4. pc' = "done" /\ cq[Head].cmd = Current
  BY <1>3 DEF Consume, Answered, Current
<1>5. After(Head) \in Slot /\ NextPhase \in {0, 1}
  BY <1>1, AfterInRing DEF NextPhase
<1>6. TypeOK'
  BY <1>2, <1>4, <1>5 DEF TypeOK
<1>7. PhasesSplit'
  BY <1>2 DEF PhasesSplit
<1>8. OneCommand'
  <2>1. DoorbellTail = Tail
    BY <1>2 DEF OneCommand
  <2>2. Current' = Current
    BY <1>2 DEF Current
  <2>3. Quiet'
    BY <1>2, <1>3 DEF Quiet, Answered, NothingPosted
  <2>4. QED
    BY <1>1, <1>2, <1>4, <2>1, <2>2, <2>3 DEF OneCommand
<1>9. StaysEnabled'
  BY <1>2 DEF StaysEnabled
<1>10. QED
  BY <1>6, <1>7, <1>8, <1>9

(* The controller's side of the one command. *)
LEMMA FetchStep ==
  ASSUME QInv, Fetch
  PROVE  QInv'
<1> USE DEF QInv
<1>1. sqHead \in Slot /\ sq \in [Slot -> Cmd]
  BY DEF TypeOK
<1>2. /\ UNCHANGED <<queue, last, en, pc, cid, Tail, Head, Phase, order, cqTail, cqPhase, rdy,
                     serves, sq, cq, DoorbellTail, DoorbellHead>>
      /\ doing = NoCmd /\ sqHead # DoorbellTail /\ doing' = sq[sqHead] /\ sqHead' = After(sqHead)
  BY DEF Fetch, setup, driver
<1>3. Current # NoCmd
  BY QueueAssumption DEF Current, NoCmd, TypeOK, Wrap
<1>4. pc = "poll" /\ NotFetched
  BY <1>2, <1>3 DEF OneCommand, Quiet, Executing, Answered
<1>5. Current' = Current /\ Executing'
  BY <1>2, <1>4 DEF Current, Executing, NotFetched, NothingPosted
<1>6. TypeOK'
  BY <1>1, <1>2, AfterInRing DEF TypeOK
<1>7. PhasesSplit' /\ StaysEnabled'
  BY <1>2 DEF PhasesSplit, StaysEnabled
<1>8. OneCommand'
  BY <1>2, <1>4, <1>5 DEF OneCommand
<1>9. QED
  BY <1>6, <1>7, <1>8

LEMMA PostStep ==
  ASSUME QInv, Post
  PROVE  QInv'
<1> USE DEF QInv
<1>1. cqTail \in Slot /\ cq \in [Slot -> Entry] /\ cqPhase \in {0, 1} /\ doing \in Cmd
  BY DEF TypeOK
<1>2. /\ UNCHANGED <<queue, last, en, pc, cid, Tail, Head, Phase, order, sqHead, rdy, sq,
                     DoorbellTail, DoorbellHead>>
      /\ doing # NoCmd /\ doing' = NoCmd /\ cqTail' = After(cqTail)
      /\ cq' = [cq EXCEPT ![cqTail] = [cmd |-> doing, phase |-> cqPhase]]
      /\ cqPhase' = IF cqTail + 1 >= Size THEN 1 - cqPhase ELSE cqPhase
      /\ serves' = serves \cup Creates(doing.cid)
  BY DEF Post, setup, driver
<1>3. pc = "poll" /\ Executing
  BY <1>2 DEF OneCommand, NotFetched, Answered, Quiet
<1>4. Current' = Current /\ NextPhase' = NextPhase
  BY <1>2 DEF Current, NextPhase
<1>5. Answered'
  BY <1>1, <1>2, <1>3, <1>4 DEF Answered, Executing, NothingPosted, NextPhase, After
<1>6. TypeOK'
  <2>1. [cmd |-> doing, phase |-> cqPhase] \in Entry
    BY <1>1 DEF Entry
  <2>2. cq' \in [Slot -> Entry] /\ cqTail' \in Slot /\ cqPhase' \in {0, 1}
    BY <1>1, <1>2, <2>1, AfterInRing
  <2>3. serves' \subseteq {"firmware", "admin", "iocq", "iosq"}
    BY <1>2 DEF Creates, TypeOK
  <2>4. NoCmd \in Cmd
    BY DEF Cmd
  <2>5. QED
    BY <1>2, <2>2, <2>3, <2>4 DEF TypeOK
<1>7. PhasesSplit'
  <2>1. \A i \in Slot : cq'[i].phase = IF i = cqTail THEN cqPhase ELSE cq[i].phase
    BY <1>1, <1>2
  <2>2. \A i \in Slot : cq'[i].phase = IF i <= cqTail THEN cqPhase ELSE 1 - cqPhase
    BY <1>1, <2>1 DEF PhasesSplit, Slot
  <2>3. CASE cqTail + 1 >= Size
    BY QueueAssumption, <1>1, <1>2, <2>2, <2>3 DEF PhasesSplit, Slot, After
  <2>4. CASE cqTail + 1 < Size
    BY QueueAssumption, <1>1, <1>2, <2>2, <2>4 DEF PhasesSplit, Slot, After
  <2>5. QED
    BY QueueAssumption, <1>1, <2>3, <2>4 DEF Slot
<1>8. StaysEnabled'
  BY <1>2 DEF StaysEnabled
<1>9. OneCommand'
  BY <1>2, <1>3, <1>5 DEF OneCommand
<1>10. QED
  BY <1>6, <1>7, <1>8, <1>9

LEMMA QStepInv == QInv /\ [Next]_vars => QInv'
<1> SUFFICES ASSUME QInv, [Next]_vars PROVE QInv'
  OBVIOUS
<1> USE DEF QInv
<1>1. ASSUME NEW c \in Ops, ReadWrite(c) PROVE QInv'
  BY <1>1, SubmitStep DEF ReadWrite, setup, TypeOK
<1>2. CASE AdminCommand
  <2>1. last + 1 \in Admin \cup Ops /\ last' \in 0 .. 3
    BY <1>2 DEF AdminCommand, TypeOK, Admin
  <2>2. QED
    BY <1>2, <2>1, SubmitStep DEF AdminCommand
<1>3. CASE Consume
  BY <1>3, ConsumeStep
<1>4. CASE Fetch
  BY <1>4, FetchStep
<1>5. CASE Post
  BY <1>5, PostStep
<1>6. CASE RingTail
  <2>1. /\ UNCHANGED <<queue, last, en, cid, Tail, Head, Phase, order, sqHead, cqTail, cqPhase,
                       doing, rdy, serves, sq, cq, DoorbellHead>>
        /\ pc = "ring" /\ pc' = "poll" /\ DoorbellTail' = Tail
    BY <1>6 DEF RingTail, setup, controller
  <2>2. TypeOK'
    BY <2>1 DEF TypeOK, Waits
  <2>3. NotFetched'
    BY <2>1 DEF OneCommand, NotFetched, NothingPosted, Current
  <2>4. QED
    BY <2>1, <2>2, <2>3 DEF OneCommand, PhasesSplit, StaysEnabled
<1>7. CASE Disable \/ Enable \/ IsEnabled \/ Return
  <2>1. /\ UNCHANGED <<queue, last, cid, Tail, Head, Phase, order, sqHead, cqTail, cqPhase,
                       doing, rdy, serves, sq, cq, DoorbellTail, DoorbellHead>>
        /\ pc \notin {"ring", "poll"} /\ pc' \in Waits \cup {"idle"} /\ pc' # "poll"
        /\ en' \in BOOLEAN /\ (pc' # "wait_disabled" => en')
    BY <1>7 DEF Disable, Enable, IsEnabled, Return, setup, controller, TypeOK, Waits, StaysEnabled
  <2>2. TypeOK'
    BY <2>1 DEF TypeOK
  <2>3. OneCommand'
    BY <2>1 DEF OneCommand, Quiet, NothingPosted, Waits
  <2>4. QED
    BY <2>1, <2>2, <2>3 DEF PhasesSplit, StaysEnabled
<1>8. CASE SetupIOQueue
  <2>1. 0 \in Slot /\ NoCmd \in Cmd
    BY QueueAssumption DEF Slot, Cmd
  <2>2. /\ UNCHANGED <<pc, cid, order, last, en, rdy, serves, doing>> /\ queue' = "io"
        /\ pc = "idle" /\ Tail' = 0 /\ Head' = 0 /\ Phase' = 1 /\ sq' = ZeroSq /\ cq' = ZeroCq
        /\ DoorbellTail' = 0 /\ DoorbellHead' = 0 /\ sqHead' = 0 /\ cqTail' = 0 /\ cqPhase' = 1
    BY <1>8 DEF SetupIOQueue
  <2>3. TypeOK'
    BY <2>1, <2>2 DEF TypeOK, ZeroSq, ZeroCq, Entry
  <2>4. PhasesSplit'
    BY <2>2 DEF PhasesSplit, ZeroCq, Slot
  <2>5. OneCommand'
    BY <2>2 DEF OneCommand, Quiet, NothingPosted
  <2>6. QED
    BY <2>2, <2>3, <2>4, <2>5 DEF StaysEnabled
<1>9. CASE GoDown \/ ComeUp
  <2>1. /\ UNCHANGED <<queue, last, en, pc, cid, Tail, Head, Phase, order, sqHead, cqTail,
                       cqPhase, sq, cq, DoorbellTail, DoorbellHead>>
        /\ rdy' \in BOOLEAN /\ serves' \subseteq {"admin"}
        /\ doing' = doing \/ (doing' = NoCmd /\ ~en)
    BY <1>9 DEF GoDown, ComeUp, setup, driver
  <2>2. doing' = doing
    BY <2>1 DEF StaysEnabled, OneCommand, Quiet
  <2>3. TypeOK'
    BY <2>1, <2>2 DEF TypeOK
  <2>4. OneCommand'
    BY <2>1, <2>2 DEF OneCommand, NotFetched, Executing, Answered, Quiet, NothingPosted, NextPhase,
       Current
  <2>5. QED
    BY <2>1, <2>3, <2>4 DEF PhasesSplit, StaysEnabled
<1>10. CASE Poll \/ UNCHANGED vars
  <2>1. UNCHANGED vars
    BY <1>10 DEF Poll
  <2>2. QED
    BY <2>1 DEF vars, setup, driver, controller, TypeOK, PhasesSplit, OneCommand, StaysEnabled,
       NotFetched, Executing, Answered, Quiet, NothingPosted, NextPhase, Current
<1>11. QED
  BY <1>1, <1>2, <1>3, <1>4, <1>5, <1>6, <1>7, <1>8, <1>9, <1>10
     DEF Next, DriverStep, ControllerStep

-----------------------------------------------------------------------------
(* Indices stay in the rings and entries are commands, however often the   *)
(* rings wrap (nvme.c:23-61).                                              *)
THEOREM TypeCorrect == Spec => []TypeOK
<1>1. QInv => TypeOK
  BY DEF QInv
<1>2. QED
  BY QInitInv, QStepInv, <1>1, PTL DEF Spec

(* The wait ends with the completion of the command just submitted         *)
(* (nvme.c:44-61): an entry of an earlier pass has the other phase, and no *)
(* other command is outstanding whose answer could come in between.        *)
THEOREM CompletionIsOwn == Spec => []OwnCompletion
<1>1. QInv => OwnCompletion
  <2> SUFFICES ASSUME QInv, pc = "done" PROVE LastConsumed.cmd = Current
    BY DEF OwnCompletion, Current
  <2>1. PICK h \in Slot : Head = After(h) /\ cq[h].cmd = Current
    BY DEF QInv, OneCommand
  <2>2. (Head + Size - 1) % Size = h
    BY <2>1, BeforeAfter
  <2>3. QED
    BY <2>1, <2>2 DEF LastConsumed
<1>2. QED
  BY QInitInv, QStepInv, <1>1, PTL DEF Spec

(* Between two commands both rings are drained (nvme.c:23-42), so that no  *)
(* command is overwritten before the controller fetched it.                *)
THEOREM RingsDrained == Spec => []Drained
<1>1. QInv => Drained
  BY DEF QInv, OneCommand, Quiet, NothingPosted, Drained
<1>2. QED
  BY QInitInv, QStepInv, <1>1, PTL DEF Spec
=============================================================================
