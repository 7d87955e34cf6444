---------------------------- MODULE SchedulerProofs ----------------------------
(* Proofs about Scheduler, for every set of clients, functions and bitstreams. *)
EXTENDS Scheduler, SequenceTheorems, NaturalsInduction, WellFoundedInduction, TLAPS

\* The scan of schedule() breaks off at the first task of a non-empty set.
LEMMA FirstProperties ==
  ASSUME NEW S, S \subseteq Nat, S # {}
  PROVE  First(S) \in S /\ \A j \in S : First(S) <= j
<1> DEFINE R == {ss \in Nat \X Nat : ss[1] < ss[2]}
<1>1. IsWellFoundedOn(R, Nat)
  BY NatLessThanWellFounded DEF OpToRel
<1>2. PICK x \in S : \A y \in S : ~(<<y, x>> \in R)
  BY <1>1, WFMin
<1>3. \A y \in S : x <= y
  <2> SUFFICES ASSUME NEW y \in S PROVE x <= y
    OBVIOUS
  <2>1. x \in Nat /\ y \in Nat
    OBVIOUS
  <2>2. y < x => <<y, x>> \in R
    BY <2>1
  <2>3. QED
    BY <1>2, <2>1, <2>2
<1>4. QED
  BY <1>2, <1>3 DEF First

\* Positions and entries of the vector of tasks.
LEMMA TasksDomain ==
  ASSUME TypeOK
  PROVE  /\ Len(tasks) \in Nat
         /\ DOMAIN tasks = 1 .. Len(tasks)
         /\ \A i \in DOMAIN tasks : tasks[i] \in Task
  BY LenProperties, ElementOfSeq DEF TypeOK

\* What push_back does to the vector.
LEMMA AppendTasks ==
  ASSUME TypeOK, NEW t \in Task, tasks' = Append(tasks, t)
  PROVE  /\ tasks' \in Seq(Task)
         /\ DOMAIN tasks' = 1 .. Len(tasks) + 1
         /\ \A i \in DOMAIN tasks : tasks'[i] = tasks[i]
         /\ tasks'[Len(tasks) + 1] = t
<1>1. tasks \in Seq(Task)
  BY DEF TypeOK
<1>2. QED
  BY <1>1, LenProperties, TasksDomain

\* Completing one task leaves the vector's length and the other tasks alone.
LEMMA UpdateTask ==
  ASSUME TypeOK, NEW i \in DOMAIN tasks, NEW t \in Task,
         tasks' = [tasks EXCEPT ![i] = t]
  PROVE  /\ tasks' \in Seq(Task)
         /\ DOMAIN tasks' = DOMAIN tasks
         /\ tasks'[i] = t
         /\ \A j \in DOMAIN tasks : j # i => tasks'[j] = tasks[j]
<1>1. tasks \in Seq(Task) /\ i \in 1 .. Len(tasks)
  BY TasksDomain DEF TypeOK
<1>2. QED
  BY <1>1, ExceptSeq, TasksDomain

\* A task marked failed is a task.
LEMMA FailIsTask ==
  ASSUME NEW t \in Task
  PROVE  /\ Fail(t) \in Task
         /\ Fail(t).completed
         /\ Fail(t).tid = t.tid
         /\ Fail(t).fid = t.fid
         /\ Fail(t).cthread = t.cthread
         /\ Fail(t).ret_code = 1
  BY DEF Fail, Task

\* The scan only completes tasks that fail the sanity check, and chooses a
\* runnable one if there is one.
LEMMA ScanFacts ==
  ASSUME TypeOK, Scan
  PROVE  /\ tasks' \in Seq(Task)
         /\ DOMAIN tasks' = DOMAIN tasks
         /\ \A i \in DOMAIN tasks :
              \/ tasks'[i] = tasks[i] /\ (tasks[i].completed \/ Valid(tasks[i]) \/ ~Scanned(i))
              \/ /\ tasks'[i] = Fail(tasks[i])
                 /\ ~tasks[i].completed
                 /\ ~Valid(tasks[i])
                 /\ Scanned(i)
         /\ Chosen = 0 \/ (Chosen \in Runnable /\ tasks'[Chosen] = tasks[Chosen])
<1>1. \A i \in DOMAIN tasks :
              \/ tasks'[i] = tasks[i] /\ (tasks[i].completed \/ Valid(tasks[i]) \/ ~Scanned(i))
              \/ /\ tasks'[i] = Fail(tasks[i])
                 /\ ~tasks[i].completed
                 /\ ~Valid(tasks[i])
                 /\ Scanned(i)
  BY DEF Scan
<1>2. DOMAIN tasks' = DOMAIN tasks
  BY DEF Scan
<1>3. tasks' \in [1 .. Len(tasks) -> Task]
  <2>1. \A i \in DOMAIN tasks : tasks[i] \in Task /\ Fail(tasks[i]) \in Task
    BY TasksDomain, FailIsTask
  <2>2. QED
    BY <2>1, TasksDomain DEF Scan
<1>4. tasks' \in Seq(Task)
  BY <1>3, TasksDomain, SeqDef
<1>5. Runnable \subseteq Nat /\ Matching \subseteq Runnable
  BY TasksDomain DEF Runnable, Matching
<1>6. Chosen = 0 \/ Chosen \in Runnable
  <2>1. BreakSet \subseteq Runnable
    BY <1>5 DEF BreakSet
  <2>2. CASE BreakSet # {}
    BY <1>5, <2>1, <2>2, FirstProperties DEF Chosen
  <2>3. CASE BreakSet = {} /\ Runnable # {}
    BY <1>5, <2>3, FirstProperties DEF Chosen
  <2>4. CASE BreakSet = {} /\ Runnable = {}
    BY <2>4 DEF Chosen
  <2>5. QED
    BY <2>2, <2>3, <2>4
<1>7. \A i \in Runnable : i \in DOMAIN tasks /\ tasks'[i] = tasks[i]
  BY <1>1 DEF Runnable
<1>8. QED
  BY <1>1, <1>2, <1>4, <1>6, <1>7

\* The policy's reason for the choice, at the moment the choice is made.
LEMMA ChosenFacts ==
  ASSUME TypeOK, Chosen # 0
  PROVE  /\ reorder /\ BitstreamOf[tasks[Chosen].fid] # current_bitstream => Matching = {}
         /\ ~reorder => \A j \in Runnable : Chosen <= j
<1>1. Runnable \subseteq Nat /\ Matching \subseteq Runnable
  BY TasksDomain DEF Runnable, Matching
<1>2. ASSUME reorder, Matching # {}
      PROVE  BitstreamOf[tasks[Chosen].fid] = current_bitstream
  <2>1. Chosen \in Matching
    BY <1>1, <1>2, FirstProperties DEF Chosen, BreakSet
  <2>2. QED
    BY <2>1 DEF Matching
<1>3. ASSUME ~reorder
      PROVE  \A j \in Runnable : Chosen <= j
  BY <1>1, <1>3, FirstProperties DEF Chosen, BreakSet
<1>4. QED
  BY <1>2, <1>3

--------------------------------------------------------------------------------
\* The initial state satisfies the inductive invariant.
LEMMA InitInv == Init => SchedulerInv
<1> SUFFICES ASSUME Init PROVE SchedulerInv
  OBVIOUS
<1>1. DOMAIN tasks = {} /\ tasks \in Seq(Task)
  BY DEF Init
<1>2. DOMAIN task_id_map = {}
  BY DEF Init
<1>3. TypeOK
  BY <1>1, <1>2, SchedulerAssumption DEF Init, TypeOK
<1>4. QED
  BY <1>1, <1>2, <1>3
     DEF Init, SchedulerInv, ChoiceStands, TaskMapAgrees, CompletesInOrder, TlockFree

\* Steps that do not touch the tasks, the choice or what is loaded.
LEMMA QuietSteps ==
  ASSUME SchedulerInv,
         UNCHANGED <<reorder, tasks, task_id_map, current_bitstream, fpga, next_idx>>,
         (functions' = functions /\ pc' = pc) \/ (pc \in {"off", "idle"} /\ pc' \in {"off", "idle"}),
         functions' \subseteq Fids,
         scheduler_running' \in BOOLEAN,
         vlock' \in {"free", "scheduler", "other"},
         vlock' = "scheduler" <=> pc' = "running",
         adding' \in [Clients -> SUBSET NewTask]
  PROVE  SchedulerInv'
<1>1. TypeOK'
  BY DEF SchedulerInv, TypeOK
<1>2. ChoiceStands'
  BY DEF SchedulerInv, ChoiceStands, TypeOK, TlockFree, Target, Matching, Runnable,
         Valid, isFunctionRegistered
<1>3. TaskMapAgrees' /\ CompletesInOrder'
  BY DEF SchedulerInv, TaskMapAgrees, CompletesInOrder
<1>4. QED
  BY <1>1, <1>2, <1>3 DEF SchedulerInv

\* A task that was checked and not yet inserted is a task that is not completed.
LEMMA NewTaskIsTask ==
  ASSUME NEW t \in NewTask
  PROVE  t \in Task /\ ~t.completed
<1>1. t = [tid |-> t.tid, fid |-> t.fid, cthread |-> t.cthread,
           completed |-> t.completed, ret_code |-> t.ret_code]
  BY DEF NewTask
<1>2. /\ t.tid \in Tids /\ t.fid \in Fids /\ t.cthread \in BOOLEAN
      /\ t.completed = FALSE /\ t.ret_code = -1
  BY DEF NewTask
<1>3. QED
  BY <1>1, <1>2 DEF Task

\* push_back and emplace under tlock.
LEMMA AddTaskInsertInv ==
  ASSUME SchedulerInv, NEW c \in Clients, AddTaskInsert(c)
  PROVE  SchedulerInv'
<1> USE DEF SchedulerInv
<1>1. PICK t \in adding[c] :
         /\ tasks' = Append(tasks, t)
         /\ task_id_map' = Emplace(task_id_map, t.tid, InsertedAt)
  BY DEF AddTaskInsert
<1>2. t \in Task /\ ~t.completed
  BY NewTaskIsTask DEF TypeOK
<1>3. /\ tasks' \in Seq(Task)
      /\ DOMAIN tasks' = 1 .. Len(tasks) + 1
      /\ \A i \in DOMAIN tasks : tasks'[i] = tasks[i]
      /\ tasks'[Len(tasks) + 1] = t
  BY <1>1, <1>2, AppendTasks
<1>4. /\ DOMAIN task_id_map' = DOMAIN task_id_map \cup {t.tid}
      /\ \A x \in DOMAIN task_id_map : task_id_map'[x] = task_id_map[x]
      /\ t.tid \notin DOMAIN task_id_map => task_id_map'[t.tid] = Len(tasks) + 1
      /\ task_id_map' \in [DOMAIN task_id_map' -> Nat]
  <2>1. Len(tasks) + 1 \in Nat /\ task_id_map \in [DOMAIN task_id_map -> Nat]
    BY TasksDomain DEF TypeOK
  <2>2. QED
    BY <1>1, <2>1 DEF Emplace, InsertedAt
<1>5. TypeOK'
  BY <1>2, <1>3, <1>4 DEF TypeOK, AddTaskInsert, Task, NewTask
<1>6. ChoiceStands'
  BY DEF ChoiceStands, AddTaskInsert, TlockFree
<1>7. TaskMapAgrees'
  <2>1. PICK n \in Nat : n = Len(tasks)
    BY TasksDomain
  <2>2. DOMAIN tasks = 1 .. n /\ DOMAIN tasks' = 1 .. n + 1
    BY <1>3, <2>1, TasksDomain
  <2>3. ASSUME NEW x \in DOMAIN task_id_map'
        PROVE  task_id_map'[x] \in DOMAIN tasks' /\ tasks'[task_id_map'[x]].tid = x
    <3>1. CASE x \in DOMAIN task_id_map
      BY <1>3, <1>4, <2>2, <3>1 DEF TaskMapAgrees
    <3>2. CASE x \notin DOMAIN task_id_map
      BY <1>3, <1>4, <2>1, <2>2, <2>3, <3>2
    <3>3. QED
      BY <3>1, <3>2
  <2>4. ASSUME NEW i \in DOMAIN tasks'
        PROVE  tasks'[i].tid \in DOMAIN task_id_map' /\ task_id_map'[tasks'[i].tid] <= i
    <3>1. CASE i \in DOMAIN tasks
      BY <1>3, <1>4, <3>1 DEF TaskMapAgrees
    <3>2. CASE i = n + 1
      <4>1. tasks'[i].tid = t.tid
        BY <1>3, <2>1, <3>2
      <4>2. CASE t.tid \in DOMAIN task_id_map
        <5>1. task_id_map[t.tid] \in 1 .. n
          BY <2>2, <4>2 DEF TaskMapAgrees
        <5>2. QED
          BY <1>4, <3>2, <4>1, <4>2, <5>1
      <4>3. CASE t.tid \notin DOMAIN task_id_map
        BY <1>4, <2>1, <3>2, <4>1, <4>3
      <4>4. QED
        BY <4>2, <4>3
    <3>3. QED
      BY <2>2, <3>1, <3>2
  <2>5. QED
    BY <2>3, <2>4 DEF TaskMapAgrees
<1>8. CompletesInOrder'
  BY <1>2, <1>3, TasksDomain DEF CompletesInOrder, AddTaskInsert
<1>9. QED
  BY <1>5, <1>6, <1>7, <1>8

\* tlock taken, a task chosen.
LEMMA ScanInv ==
  ASSUME SchedulerInv, Scan
  PROVE  SchedulerInv'
<1> USE DEF SchedulerInv
<1> DEFINE Same(i) == tasks'[i] = tasks[i]
           Failed(i) == /\ tasks'[i] = Fail(tasks[i])
                        /\ ~tasks[i].completed
                        /\ ~Valid(tasks[i])
                        /\ Scanned(i)
<1>1. /\ tasks' \in Seq(Task)
      /\ DOMAIN tasks' = DOMAIN tasks
      /\ \A i \in DOMAIN tasks :
           (Same(i) /\ (tasks[i].completed \/ Valid(tasks[i]) \/ ~Scanned(i))) \/ Failed(i)
      /\ Chosen = 0 \/ (Chosen \in Runnable /\ Same(Chosen))
  BY ScanFacts
<1>2. \A i \in DOMAIN tasks :
        /\ tasks'[i].tid = tasks[i].tid
        /\ tasks'[i].fid = tasks[i].fid
        /\ tasks'[i].cthread = tasks[i].cthread
        /\ tasks[i].completed => tasks'[i].completed
        /\ tasks'[i].completed => tasks[i].completed \/ ~Valid(tasks[i])
  BY <1>1, FailIsTask, TasksDomain
<1>3. Runnable \subseteq DOMAIN tasks /\ DOMAIN tasks \subseteq Nat
  BY TasksDomain DEF Runnable
<1>4. TypeOK'
  <2>1. Chosen \in Nat
    BY <1>1, <1>3
  <2>2. QED
    BY <1>1, <2>1 DEF TypeOK, Scan
<1>5. Runnable' = Runnable
  BY <1>1, <1>2 DEF Runnable, Valid, isFunctionRegistered, Scan
<1>6. Matching' = Matching
  BY <1>2, <1>3, <1>5 DEF Matching, Scan
<1>7. ASSUME ~reorder
      PROVE  \A j \in DOMAIN tasks :
               (\A r \in Runnable : j < r) \/ (Chosen # 0 /\ j < Chosen) => tasks'[j].completed
  <2> SUFFICES ASSUME NEW j \in DOMAIN tasks,
                      (\A r \in Runnable : j < r) \/ (Chosen # 0 /\ j < Chosen)
               PROVE  tasks'[j].completed
    OBVIOUS
  <2>1. \A r \in Runnable : j < r
    BY <1>1, <1>3, <1>7, ChosenFacts
  <2>2. j \notin Runnable
    BY <1>3, <2>1
  <2>3. Scanned(j)
    <3>1. BreakSet = Runnable
      BY <1>7 DEF BreakSet
    <3>2. Runnable # {} => First(Runnable) \in Runnable
      BY <1>3, FirstProperties
    <3>3. QED
      BY <2>1, <3>1, <3>2 DEF Scanned
  <2>4. QED
    BY <1>1, <2>2, <2>3, FailIsTask, TasksDomain DEF Runnable
<1>8. ChoiceStands'
  <2>1. CASE Chosen = 0
    BY <2>1 DEF ChoiceStands, Scan, TlockFree
  <2>2. CASE Chosen # 0
    <3>1. Chosen \in Runnable /\ tasks'[Chosen] = tasks[Chosen]
      BY <1>1, <2>2
    <3>2. next_idx' = Chosen /\ pc' = "picked" /\ pc = "idle"
      BY <2>2 DEF Scan
    <3>3. next_idx' \in DOMAIN tasks' /\ ~tasks'[next_idx'].completed
      BY <1>1, <3>1, <3>2 DEF Runnable
    <3>4. reorder /\ current_bitstream' # Target' => Matching' = {}
      BY <1>6, <2>2, <3>1, <3>2, ChosenFacts DEF Target, Scan
    <3>5. ~reorder => \A j \in DOMAIN tasks' : j < next_idx' => tasks'[j].completed
      BY <1>1, <1>7, <2>2, <3>2
    <3>6. QED
      BY <3>2, <3>3, <3>4, <3>5 DEF ChoiceStands, Scan
  <2>3. QED
    BY <2>1, <2>2
<1>9. TaskMapAgrees'
  BY <1>1, <1>2 DEF TaskMapAgrees, Scan
<1>10. CompletesInOrder'
  <2> SUFFICES ASSUME ~reorder, NEW i \in DOMAIN tasks, NEW j \in DOMAIN tasks,
                      i < j, tasks'[j].completed
               PROVE  tasks'[i].completed
    BY <1>1 DEF CompletesInOrder, Scan
  <2>1. CASE tasks[j].completed
    BY <1>2, <2>1 DEF CompletesInOrder
  <2>2. CASE ~tasks[j].completed
    <3>1. Scanned(j)
      BY <1>1, <2>2
    <3>2. \A r \in Runnable : j < r
      BY <1>3, <3>1, FirstProperties DEF Scanned, BreakSet
    <3>3. \A r \in Runnable : i < r
      BY <1>3, <3>2
    <3>4. QED
      BY <1>7, <3>3
  <2>3. QED
    BY <2>1, <2>2
<1>11. QED
  BY <1>4, <1>8, <1>9, <1>10

\* The end of an iteration: the chosen task completes and tlock is released.
LEMMA CompleteInv ==
  ASSUME SchedulerInv, ~TlockFree,
         NEW t \in Task, t.completed,
         t.tid = tasks[next_idx].tid,
         tasks' = [tasks EXCEPT ![next_idx] = t],
         pc' = "idle", vlock' \in {"free", "other"},
         UNCHANGED <<reorder, functions, task_id_map, current_bitstream, fpga,
                     scheduler_running, next_idx, adding>>
  PROVE  SchedulerInv'
<1> USE DEF SchedulerInv
<1>1. next_idx \in DOMAIN tasks /\ ~tasks[next_idx].completed
  BY DEF ChoiceStands
<1>2. /\ tasks' \in Seq(Task)
      /\ DOMAIN tasks' = DOMAIN tasks
      /\ tasks'[next_idx] = t
      /\ \A j \in DOMAIN tasks : j # next_idx => tasks'[j] = tasks[j]
  BY <1>1, UpdateTask
<1>3. TypeOK'
  BY <1>2 DEF TypeOK
<1>4. ChoiceStands'
  BY DEF ChoiceStands, TlockFree
<1>5. TaskMapAgrees'
  BY <1>2 DEF TaskMapAgrees
<1>6. CompletesInOrder'
  BY <1>1, <1>2, TasksDomain DEF CompletesInOrder, ChoiceStands
<1>7. QED
  BY <1>3, <1>4, <1>5, <1>6

\* A reconfiguration loads the bitstream the chosen task needs and keeps the
\* choice, the table and the order.
LEMMA ReconfigureInv ==
  ASSUME SchedulerInv, Reconfigure
  PROVE  SchedulerInv'
<1> USE DEF SchedulerInv
<1>1. Target \in Bitstreams
  BY SchedulerAssumption, TasksDomain
     DEF ChoiceStands, Reconfigure, TlockFree, Target, Task
<1>2. TypeOK'
  BY <1>1 DEF TypeOK, Reconfigure
<1>3. ChoiceStands'
  BY DEF ChoiceStands, Reconfigure, TlockFree, Target
<1>4. TaskMapAgrees' /\ CompletesInOrder'
  BY DEF TaskMapAgrees, CompletesInOrder, Reconfigure
<1>5. QED
  BY <1>2, <1>3, <1>4

\* Every step of the scheduler, its clients and its environment preserves the
\* inductive invariant.
LEMMA NextInv == SchedulerInv /\ [Next]_vars => SchedulerInv'
<1> SUFFICES ASSUME SchedulerInv, [Next]_vars
             PROVE  SchedulerInv'
  OBVIOUS
<1>0. /\ functions \subseteq Fids
      /\ scheduler_running \in BOOLEAN
      /\ vlock \in {"free", "scheduler", "other"}
      /\ adding \in [Clients -> SUBSET NewTask]
      /\ vlock = "scheduler" <=> pc = "running"
  BY DEF SchedulerInv, TypeOK, ChoiceStands
<1>1. ASSUME NEW fid \in Fids, AddFunction(fid)
      PROVE  SchedulerInv'
  BY <1>0, <1>1, QuietSteps DEF AddFunction
<1>2. CASE Start
  BY <1>0, <1>2, QuietSteps DEF Start
<1>3. CASE Stop
  BY <1>0, <1>3, QuietSteps DEF Stop
<1>4. ASSUME NEW c \in Clients, AddTaskCheck(c)
      PROVE  SchedulerInv'
  <2>1. PICK tid \in TidsOf[c], fid \in Fids, cthread \in BOOLEAN :
           adding' = [adding EXCEPT ![c] = {cTask(tid, fid, cthread)}]
    BY <1>4 DEF AddTaskCheck
  <2>2. cTask(tid, fid, cthread) \in NewTask
    BY SchedulerAssumption DEF cTask, NewTask
  <2>3. adding' \in [Clients -> SUBSET NewTask]
    BY <1>0, <2>1, <2>2
  <2>4. QED
    BY <1>0, <1>4, <2>3, QuietSteps DEF AddTaskCheck
<1>5. ASSUME NEW c \in Clients, AddTaskInsert(c)
      PROVE  SchedulerInv'
  BY <1>5, AddTaskInsertInv
<1>6. CASE Scan
  BY <1>6, ScanInv
<1>7. CASE LeaveLoop
  BY <1>0, <1>7, QuietSteps DEF LeaveLoop
<1>8. CASE Reconfigure
  BY <1>8, ReconfigureInv
<1>9. CASE ReconfigureFails
  <2>1. next_idx \in DOMAIN tasks /\ tasks[next_idx] \in Task
    BY <1>9, TasksDomain DEF SchedulerInv, ChoiceStands, ReconfigureFails, TlockFree
  <2>2. tasks' = [tasks EXCEPT ![next_idx] = Fail(tasks[next_idx])]
    BY <1>9 DEF ReconfigureFails
  <2>3. QED
    BY <1>0, <1>9, <2>1, <2>2, FailIsTask, CompleteInv DEF ReconfigureFails, TlockFree
<1>10. CASE LockThread
  <2>1. TypeOK'
    BY <1>10 DEF SchedulerInv, TypeOK, LockThread
  <2>2. ChoiceStands'
    BY <1>10 DEF SchedulerInv, ChoiceStands, LockThread, Loaded, TlockFree, Target
  <2>3. TaskMapAgrees' /\ CompletesInOrder'
    BY <1>10 DEF SchedulerInv, TaskMapAgrees, CompletesInOrder, LockThread
  <2>4. QED
    BY <2>1, <2>2, <2>3 DEF SchedulerInv
<1>11. CASE FinishRun
  <2>1. next_idx \in DOMAIN tasks /\ tasks[next_idx] \in Task
    BY <1>11, TasksDomain DEF SchedulerInv, ChoiceStands, FinishRun, TlockFree
  <2>2. PICK ret_code \in {0, 1} :
           tasks' = [tasks EXCEPT ![next_idx].ret_code = ret_code,
                                  ![next_idx].completed = TRUE]
    BY <1>11 DEF FinishRun
  <2> DEFINE t == [tasks[next_idx] EXCEPT !.ret_code = ret_code, !.completed = TRUE]
  <2>3. tasks' = [tasks EXCEPT ![next_idx] = t]
    BY <2>1, <2>2
  <2>4. t \in Task /\ t.completed /\ t.tid = tasks[next_idx].tid
    BY <2>1 DEF Task
  <2> HIDE DEF t
  <2>5. QED
    BY <1>11, <2>3, <2>4, CompleteInv DEF FinishRun, Unlock, TlockFree
<1>12. CASE OtherLock
  BY <1>0, <1>12, QuietSteps DEF OtherLock
<1>13. CASE OtherUnlock
  BY <1>0, <1>13, QuietSteps DEF OtherUnlock
<1>14. CASE UNCHANGED vars
  BY <1>0, <1>14, QuietSteps DEF vars
<1>15. QED
  BY <1>1, <1>2, <1>3, <1>4, <1>5, <1>6, <1>7, <1>8, <1>9, <1>10, <1>11, <1>12,
     <1>13, <1>14 DEF Next, SchedulerThread

\* The inductive invariant holds in every reachable state.
THEOREM SchedulerSafe == Spec => []SchedulerInv
  BY InitInv, NextInv, PTL DEF Spec

--------------------------------------------------------------------------------
\* taskChecker's "UNEXPECTED BUG" branch is never taken, and getTask returns the
\* first of several tasks with one identifier.
THEOREM MapAlwaysAgrees == Spec => []TaskMapAgrees
  BY SchedulerSafe, PTL DEF SchedulerInv

\* Without reordering, tasks complete in the order of submission.
THEOREM FirstComeFirstServed == Spec => []CompletesInOrder
  BY SchedulerSafe, PTL DEF SchedulerInv

\* A function runs on its own bitstream, for a pending task, under the lock.
THEOREM RunsWhereItShould == Spec => []RunsOnItsBitstream
<1>1. SchedulerInv => RunsOnItsBitstream
  BY DEF SchedulerInv, ChoiceStands, RunsOnItsBitstream, TlockFree
<1>2. QED
  BY <1>1, SchedulerSafe, PTL

\* One step keeps the completed tasks as they are.
LEMMA CompletedStay ==
  ASSUME SchedulerInv, Next, NEW i \in DOMAIN tasks, tasks[i].completed
  PROVE  i \in DOMAIN tasks' /\ tasks'[i] = tasks[i]
<1>1. ASSUME NEW c \in Clients, AddTaskInsert(c)
      PROVE  i \in DOMAIN tasks' /\ tasks'[i] = tasks[i]
  <2>1. PICK t \in adding[c] : tasks' = Append(tasks, t)
    BY <1>1 DEF AddTaskInsert
  <2>2. t \in Task
    BY NewTaskIsTask DEF SchedulerInv, TypeOK
  <2>3. QED
    BY <2>1, <2>2, AppendTasks, TasksDomain DEF SchedulerInv
<1>2. CASE Scan
  BY <1>2, ScanFacts DEF SchedulerInv
<1>3. CASE ReconfigureFails \/ FinishRun
  <2>1. i # next_idx /\ next_idx \in DOMAIN tasks
    BY <1>3 DEF SchedulerInv, ChoiceStands, ReconfigureFails, FinishRun, TlockFree
  <2>2. QED
    BY <1>3, <2>1 DEF ReconfigureFails, FinishRun
<1>4. CASE UNCHANGED tasks
  BY <1>4
<1>5. QED
  BY <1>1, <1>2, <1>3, <1>4
     DEF Next, SchedulerThread, AddFunction, Start, Stop, AddTaskCheck, LeaveLoop,
         Reconfigure, LockThread, OtherLock, OtherUnlock

\* A completed task is never touched again.
THEOREM ResultsStay == Spec => ResultsAreFinal
<1>1. SchedulerInv /\ [Next]_vars =>
        [\A i \in DOMAIN tasks :
           tasks[i].completed => i \in DOMAIN tasks' /\ tasks'[i] = tasks[i]]_vars
  BY CompletedStay
<1>2. QED
  BY <1>1, SchedulerSafe, PTL DEF Spec, ResultsAreFinal

\* The second scheduling policy: a reconfiguration leaves no runnable task of
\* the old bitstream behind.
THEOREM MinimisesReconfigurations == Spec => ReconfiguresLast
<1>1. SchedulerInv /\ [Next]_vars => [reorder /\ fpga' # fpga => Matching = {}]_vars
  <2> SUFFICES ASSUME SchedulerInv, Next, reorder, fpga' # fpga
               PROVE  Matching = {}
    OBVIOUS
  <2>1. Reconfigure
    BY DEF Next, SchedulerThread, AddFunction, Start, Stop, AddTaskCheck, AddTaskInsert,
           Scan, LeaveLoop, ReconfigureFails, LockThread, FinishRun, OtherLock, OtherUnlock
  <2>2. QED
    BY <2>1 DEF Reconfigure, Loaded, SchedulerInv, ChoiceStands
<1>2. QED
  BY <1>1, SchedulerSafe, PTL DEF Spec, ReconfiguresLast

--------------------------------------------------------------------------------
\* Identifiers no two clients share, as cService draws them from one counter.
DisjointIds == \A c, d \in Clients : c # d => TidsOf[c] \cap TidsOf[d] = {}

\* With disjoint identifiers no call to addTask can be overtaken, between its
\* check and its insertion, by one with the same identifier.
LEMMA FreshIdsNext ==
  ASSUME DisjointIds, SchedulerInv, FreshIds, [Next]_vars
  PROVE  FreshIds'
<1>1. ASSUME NEW c \in Clients, AddTaskCheck(c)
      PROVE  FreshIds'
  <2>1. PICK tid \in TidsOf[c], fid \in Fids, cthread \in BOOLEAN :
           /\ tid \notin DOMAIN task_id_map
           /\ adding' = [adding EXCEPT ![c] = {cTask(tid, fid, cthread)}]
    BY <1>1 DEF AddTaskCheck, taskExists
  <2>2. adding \in [Clients -> SUBSET NewTask]
    BY DEF SchedulerInv, TypeOK
  <2>3. cTask(tid, fid, cthread).tid = tid
    BY DEF cTask
  <2>4. UNCHANGED <<reorder, tasks, task_id_map>>
    BY <1>1 DEF AddTaskCheck
  <2>5. QED
    BY <2>1, <2>2, <2>3, <2>4 DEF FreshIds, EveryTaskReachable
<1>2. ASSUME NEW c \in Clients, AddTaskInsert(c)
      PROVE  FreshIds'
  <2>1. PICK t \in adding[c] :
           /\ tasks' = Append(tasks, t)
           /\ task_id_map' = Emplace(task_id_map, t.tid, InsertedAt)
    BY <1>2 DEF AddTaskInsert
  <2>2. t \in Task
    BY NewTaskIsTask DEF SchedulerInv, TypeOK
  <2>3. /\ DOMAIN tasks' = 1 .. Len(tasks) + 1
        /\ \A i \in DOMAIN tasks : tasks'[i] = tasks[i]
        /\ tasks'[Len(tasks) + 1] = t
    BY <2>1, <2>2, AppendTasks DEF SchedulerInv
  <2>4. t.tid \notin DOMAIN task_id_map /\ t.tid \in TidsOf[c]
    BY DEF FreshIds
  <2>5. /\ DOMAIN task_id_map' = DOMAIN task_id_map \cup {t.tid}
        /\ \A x \in DOMAIN task_id_map : task_id_map'[x] = task_id_map[x]
        /\ task_id_map'[t.tid] = Len(tasks) + 1
    BY <2>1, <2>4 DEF Emplace, InsertedAt
  <2>6. EveryTaskReachable'
    BY <2>3, <2>5, TasksDomain DEF SchedulerInv, FreshIds, EveryTaskReachable
  <2>7. \A d \in Clients : adding'[d] = IF d = c THEN {} ELSE adding[d]
    BY <1>2 DEF AddTaskInsert, SchedulerInv, TypeOK
  <2>8. \A d \in Clients : \A u \in adding'[d] :
           adding'[d] = {u} /\ u.tid \in TidsOf[d] /\ u.tid \notin DOMAIN task_id_map'
    BY <2>4, <2>5, <2>7 DEF FreshIds, DisjointIds
  <2>9. QED
    BY <2>6, <2>8 DEF FreshIds
<1>3. CASE Scan
  <2>1. DOMAIN tasks' = DOMAIN tasks /\ \A i \in DOMAIN tasks : tasks'[i].tid = tasks[i].tid
    BY <1>3, ScanFacts, TasksDomain, FailIsTask DEF SchedulerInv
  <2>2. QED
    BY <1>3, <2>1 DEF FreshIds, EveryTaskReachable, Scan
<1>4. CASE ReconfigureFails \/ FinishRun
  <2>1. next_idx \in DOMAIN tasks /\ tasks[next_idx] \in Task
    BY <1>4, TasksDomain
       DEF SchedulerInv, ChoiceStands, ReconfigureFails, FinishRun, TlockFree
  <2>2. DOMAIN tasks' = DOMAIN tasks /\ \A i \in DOMAIN tasks : tasks'[i].tid = tasks[i].tid
    BY <1>4, <2>1, FailIsTask DEF ReconfigureFails, FinishRun, Task
  <2>3. UNCHANGED <<reorder, task_id_map, adding>>
    BY <1>4 DEF ReconfigureFails, FinishRun
  <2>4. QED
    BY <2>2, <2>3 DEF FreshIds, EveryTaskReachable
<1>5. CASE UNCHANGED <<reorder, tasks, task_id_map, adding>>
  BY <1>5 DEF FreshIds, EveryTaskReachable
<1>6. QED
  BY <1>1, <1>2, <1>3, <1>4, <1>5
     DEF Next, SchedulerThread, AddFunction, Start, Stop, LeaveLoop, Reconfigure,
         LockThread, OtherLock, OtherUnlock, vars

\* With identifiers no two clients share, addTask never lets a task in that
\* cannot be found through its identifier.
THEOREM TasksReachable ==
  ASSUME DisjointIds
  PROVE  Spec => []EveryTaskReachable
<1>1. Init => FreshIds
  BY DEF Init, FreshIds, EveryTaskReachable
<1>2. SchedulerInv /\ FreshIds /\ [Next]_vars => FreshIds'
  BY FreshIdsNext
<1>3. FreshIds => EveryTaskReachable
  BY DEF FreshIds
<1>4. QED
  BY <1>1, <1>2, <1>3, SchedulerSafe, PTL DEF Spec

--------------------------------------------------------------------------------
(* The refinement: the abstract pool, and what each step does to it.       *)

Pool == [i \in DOMAIN tasks |-> [fid |-> tasks[i].fid, outcome |-> Outcome(tasks[i])]]
Busy == IF pc = "running" THEN next_idx ELSE 0

\* push_back submits a pending task to the abstract pool.
LEMMA InsertRefines ==
  ASSUME SchedulerInv, NEW c \in Clients, AddTaskInsert(c)
  PROVE  Executor!Submit
<1>1. PICK t \in adding[c] : tasks' = Append(tasks, t)
  BY DEF AddTaskInsert
<1>2. t \in Task /\ ~t.completed
  BY NewTaskIsTask DEF SchedulerInv, TypeOK
<1>3. /\ DOMAIN tasks' = 1 .. Len(tasks) + 1
      /\ \A i \in DOMAIN tasks : tasks'[i] = tasks[i]
      /\ tasks'[Len(tasks) + 1] = t
  BY <1>1, <1>2, AppendTasks DEF SchedulerInv
<1>4. Len(tasks) \in Nat /\ DOMAIN tasks = 1 .. Len(tasks)
  BY TasksDomain DEF SchedulerInv
<1> DEFINE e == [fid |-> t.fid, outcome |-> "pending"]
<1>5. Pool \in [1 .. Len(tasks) -> {Pool[i] : i \in 1 .. Len(tasks)}]
  BY <1>4 DEF Pool
<1>6. Pool \in Seq({Pool[i] : i \in 1 .. Len(tasks)} \cup {e}) /\ Len(Pool) = Len(tasks)
  <2>1. Pool \in Seq({Pool[i] : i \in 1 .. Len(tasks)} \cup {e})
    BY <1>4, <1>5, SeqDef
  <2>2. QED
    BY <1>4, <2>1, LenProperties DEF Pool
<1>7. Append(Pool, e) = [i \in 1 .. Len(tasks) + 1 |-> IF i = Len(tasks) + 1 THEN e ELSE Pool[i]]
  BY <1>4, <1>6
<1>8. Pool' = [i \in 1 .. Len(tasks) + 1 |-> IF i = Len(tasks) + 1 THEN e ELSE Pool[i]]
  BY <1>2, <1>3, <1>4 DEF Pool, Outcome
<1>9. Pool' = Append(Pool, [fid |-> t.fid, outcome |-> "pending"]) /\ t.fid \in Fids
  BY <1>2, <1>7, <1>8 DEF Task
<1>10. QED
  BY <1>9 DEF Executor!Submit, Pool, AddTaskInsert

\* The scan gives up tasks that fail the sanity check.
LEMMA ScanRefines ==
  ASSUME SchedulerInv, Scan
  PROVE  Executor!Reject
<1> DEFINE S == {i \in DOMAIN tasks : tasks'[i] # tasks[i]}
<1>1. DOMAIN tasks' = DOMAIN tasks
  BY ScanFacts DEF SchedulerInv
<1>2. \A i \in S : tasks'[i] = Fail(tasks[i]) /\ ~tasks[i].completed
  BY ScanFacts DEF SchedulerInv
<1>3. \A i \in DOMAIN tasks : tasks[i] \in Task
  BY TasksDomain DEF SchedulerInv
<1>4. DOMAIN Pool = DOMAIN tasks
  BY DEF Pool
<1>5. S \in SUBSET {i \in DOMAIN Pool : Pool[i].outcome = "pending"}
  BY <1>2 DEF Pool, Outcome
<1>6. Pool' = [i \in DOMAIN Pool |->
                 IF i \in S THEN [Pool[i] EXCEPT !.outcome = "error"] ELSE Pool[i]]
  BY <1>1, <1>2, <1>3, FailIsTask DEF Pool, Outcome
<1>7. Busy = 0 /\ Busy' = 0 /\ fpga' = fpga
  BY DEF Busy, Scan
<1> HIDE DEF S
<1>8. QED
  BY <1>5, <1>6, <1>7 DEF Executor!Reject, Pool, Busy

\* A failed reconfiguration gives up the chosen task.
LEMMA ReconfigureFailsRefines ==
  ASSUME SchedulerInv, ReconfigureFails
  PROVE  Executor!Reject
<1>1. next_idx \in DOMAIN tasks /\ ~tasks[next_idx].completed /\ tasks[next_idx] \in Task
  BY TasksDomain DEF SchedulerInv, ChoiceStands, ReconfigureFails, TlockFree
<1>2. /\ DOMAIN tasks' = DOMAIN tasks
      /\ tasks'[next_idx] = Fail(tasks[next_idx])
      /\ \A j \in DOMAIN tasks : j # next_idx => tasks'[j] = tasks[j]
  BY <1>1 DEF ReconfigureFails
<1>3. {next_idx} \in SUBSET {i \in DOMAIN Pool : Pool[i].outcome = "pending"}
  BY <1>1 DEF Pool, Outcome
<1>4. Pool' = [i \in DOMAIN Pool |->
                 IF i \in {next_idx} THEN [Pool[i] EXCEPT !.outcome = "error"] ELSE Pool[i]]
  BY <1>1, <1>2, FailIsTask DEF Pool, Outcome
<1>5. Busy = 0 /\ Busy' = 0 /\ fpga' = fpga
  BY DEF Busy, ReconfigureFails
<1>6. QED
  BY <1>3, <1>4, <1>5 DEF Executor!Reject, Pool, Busy

\* The end of a run gives the running task its outcome.
LEMMA FinishRunRefines ==
  ASSUME SchedulerInv, FinishRun
  PROVE  Executor!Finish
<1>1. /\ next_idx \in DOMAIN tasks /\ tasks[next_idx] \in Task
      /\ next_idx # 0
      /\ Busy = next_idx /\ Busy' = 0 /\ fpga' = fpga
  BY TasksDomain DEF SchedulerInv, ChoiceStands, FinishRun, TlockFree, Busy
<1>2. PICK ret_code \in {0, 1} :
         tasks' = [tasks EXCEPT ![next_idx].ret_code = ret_code,
                                ![next_idx].completed = TRUE]
  BY DEF FinishRun
<1> DEFINE outcome == IF ret_code = 0 THEN "done" ELSE "error"
<1>3. /\ DOMAIN tasks' = DOMAIN tasks
      /\ \A j \in DOMAIN tasks : j # next_idx => tasks'[j] = tasks[j]
      /\ tasks'[next_idx].fid = tasks[next_idx].fid
      /\ tasks'[next_idx].completed
      /\ tasks'[next_idx].ret_code = ret_code
  BY <1>1, <1>2 DEF Task
<1>4. Outcome(tasks'[next_idx]) = outcome
  BY <1>3 DEF Outcome
<1>5. Pool' = [Pool EXCEPT ![next_idx].outcome = outcome]
  BY <1>1, <1>3, <1>4 DEF Pool
<1>6. outcome \in {"done", "error"}
  OBVIOUS
<1> HIDE DEF outcome
<1>7. QED
  BY <1>1, <1>5, <1>6 DEF Executor!Finish, Pool, Busy

\* Taking the vFPGA's lock begins the run of the chosen task.
LEMMA LockThreadRefines ==
  ASSUME SchedulerInv, LockThread
  PROVE  \E i \in DOMAIN Pool : Executor!Begin(i)
<1>1. /\ next_idx \in DOMAIN tasks /\ ~tasks[next_idx].completed
      /\ fpga = BitstreamOf[tasks[next_idx].fid]
      /\ Busy = 0 /\ Busy' = next_idx
      /\ UNCHANGED <<reorder, tasks, fpga>>
  BY DEF SchedulerInv, ChoiceStands, LockThread, Loaded, TlockFree, Target, Busy
<1>2. next_idx \in DOMAIN Pool /\ Pool' = Pool
  BY <1>1 DEF Pool
<1>3. Pool[next_idx].outcome = "pending" /\ fpga = BitstreamOf[Pool[next_idx].fid]
  BY <1>1 DEF Pool, Outcome
<1>4. Executor!Begin(next_idx)
  BY <1>1, <1>2, <1>3 DEF Executor!Begin, Pool, Busy
<1>5. QED
  BY <1>2, <1>4

\* The scheduler implements TaskExecutor.
THEOREM SchedulerImplementsExecutor == Spec => ImplementsExecutor
<1>1. Init => Executor!Init
  BY DEF Init, Executor!Init
<1>2. SchedulerInv /\ [Next]_vars => [Executor!Next]_Executor!vars
  <2> SUFFICES ASSUME SchedulerInv, [Next]_vars
               PROVE  Executor!Next \/ UNCHANGED Executor!vars
    OBVIOUS
  <2>1. ASSUME NEW c \in Clients, AddTaskInsert(c)
        PROVE  Executor!Next
    BY <2>1, InsertRefines DEF Executor!Next
  <2>2. CASE Scan
    BY <2>2, ScanRefines DEF Executor!Next
  <2>3. CASE Reconfigure
    <3>1. fpga' \in Bitstreams
      BY <2>3, ReconfigureInv DEF SchedulerInv, TypeOK
    <3>2. QED
      BY <2>3, <3>1 DEF Executor!Next, Executor!Load, Reconfigure
  <2>4. CASE ReconfigureFails
    BY <2>4, ReconfigureFailsRefines DEF Executor!Next
  <2>5. CASE LockThread
    BY <2>5, LockThreadRefines DEF Executor!Next, Pool
  <2>6. CASE FinishRun
    BY <2>6, FinishRunRefines DEF Executor!Next
  <2>7. CASE UNCHANGED <<reorder, tasks, fpga, next_idx>> /\ (pc = "running" <=> pc' = "running")
    BY <2>7 DEF Executor!vars
  <2>8. QED
    BY <2>1, <2>2, <2>3, <2>4, <2>5, <2>6, <2>7
       DEF Next, SchedulerThread, AddFunction, Start, Stop, AddTaskCheck, LeaveLoop,
           OtherLock, OtherUnlock, vars
<1>3. QED
  BY <1>1, <1>2, SchedulerSafe, PTL DEF Spec, ImplementsExecutor, Executor!Spec
================================================================================
