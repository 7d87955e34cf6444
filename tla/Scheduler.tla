------------------------------- MODULE Scheduler -------------------------------
(***************************************************************************)
(* The task scheduler of one vFPGA: cSched and cTask (sw/src/cSched.cpp,   *)
(* sw/include/coyote/cSched.hpp, sw/src/cTask.cpp).                        *)
(*                                                                         *)
(* Threads: the scheduler thread, which runs schedule(); the clients, who  *)
(* call addTask() concurrently; the owner, who adds functions, starts and  *)
(* stops the scheduler; and other processes that hold the inter-process    *)
(* lock of the vFPGA (cThread::lock) for a while.                          *)
(*                                                                         *)
(* schedule() holds tlock from the scan of the tasks to the end of the     *)
(* execution, so tlock is held exactly when pc is neither "off" nor        *)
(* "idle".  The sections the clients run under tlock are single steps.     *)
(* Positions in tasks count from 1; 0 stands for next_idx = -1.            *)
(***************************************************************************)
EXTENDS Integers, Sequences, FiniteSets

CONSTANTS
  Clients,      \* threads that call addTask
  Tids,         \* task identifiers
  TidsOf,       \* the identifiers each client submits
  Fids,         \* function identifiers
  Bitstreams,   \* the paths of bitstreams
  BitstreamOf,  \* the bitstream of each function
  InitialBitstream,  \* the constructor's current_bitstream
  EnPR,         \* partial reconfiguration is part of the shell
  MaxTasks      \* bound on the number of submitted tasks

ASSUME SchedulerAssumption ==
  /\ TidsOf \in [Clients -> SUBSET Tids]
  /\ BitstreamOf \in [Fids -> Bitstreams]
  /\ InitialBitstream \in Bitstreams
  /\ EnPR \in BOOLEAN
  /\ MaxTasks \in Nat

VARIABLES
  reorder,            \* the policy: TRUE minimises reconfigurations
  functions,          \* the registered functions
  tasks,              \* the vector of submitted tasks, in order of arrival
  task_id_map,        \* task identifier -> position in tasks
  current_bitstream,  \* what the scheduler believes is loaded
  fpga,               \* what the vFPGA holds
  scheduler_running,  \* the flag of start() and stop()
  pc,                 \* where the scheduler thread is
  next_idx,           \* the task chosen by the scan
  vlock,              \* the holder of the vFPGA's lock
  adding              \* the task (at most one) a client checked but not yet inserted

vars == <<reorder, functions, tasks, task_id_map, current_bitstream, fpga,
          scheduler_running, pc, next_idx, vlock, adding>>

Task == [tid : Tids, fid : Fids, cthread : BOOLEAN,
         completed : BOOLEAN, ret_code : {-1, 0, 1}]

NewTask == [tid : Tids, fid : Fids, cthread : BOOLEAN,
            completed : {FALSE}, ret_code : {-1}]

\* The constructor of cTask: not completed, return code -1.
cTask(tid, fid, cthread) ==
  [tid |-> tid, fid |-> fid, cthread |-> cthread,
   completed |-> FALSE, ret_code |-> -1]

\* Mutant: addTask does not take tlock.
TlockIgnored == TRUE

TlockFree == pc \in {"off", "idle"}

Init ==
  /\ reorder \in BOOLEAN
  /\ functions = {}
  /\ tasks = << >>
  /\ task_id_map = [t \in {} |-> 0]
  /\ current_bitstream = InitialBitstream
  /\ fpga = InitialBitstream
  /\ scheduler_running = FALSE
  /\ pc = "off"
  /\ next_idx = 0
  /\ vlock = "free"
  /\ adding = [c \in Clients |-> {}]

--------------------------------------------------------------------------------
(* The owner: addFunction, start, stop.                                    *)

\* addFunction: a new function stays registered only if its bitstream could be
\* opened and read; a known identifier is refused.  Functions are registered
\* while no scheduler thread runs, as cService does.
AddFunction(fid) ==
  /\ pc = "off"
  /\ fid \notin functions
  /\ \E loaded \in BOOLEAN :
       functions' = IF loaded THEN functions \cup {fid} ELSE functions
  /\ UNCHANGED <<reorder, tasks, task_id_map, current_bitstream, fpga,
                 scheduler_running, pc, next_idx, vlock, adding>>

\* start: the guard on pc holds because stop() returns after the join.
Start ==
  /\ ~scheduler_running
  /\ pc = "off"
  /\ scheduler_running' = TRUE
  /\ pc' = "idle"
  /\ UNCHANGED <<reorder, functions, tasks, task_id_map, current_bitstream, fpga,
                 next_idx, vlock, adding>>

\* stop: clears the flag; the owner then waits in join() for LeaveLoop.
Stop ==
  /\ scheduler_running
  /\ scheduler_running' = FALSE
  /\ UNCHANGED <<reorder, functions, tasks, task_id_map, current_bitstream, fpga,
                 pc, next_idx, vlock, adding>>

--------------------------------------------------------------------------------
(* The clients: addTask.  The two checks run before tlock is taken.        *)

isFunctionRegistered(fid) == fid \in functions

\* Mutant: the check for a known identifier is missing.
taskNeverExists(tid) == FALSE

taskExists(tid) == tid \in DOMAIN task_id_map

AddTaskCheck(c) ==
  /\ adding[c] = {}
  /\ Len(tasks) < MaxTasks
  /\ \E tid \in TidsOf[c], fid \in Fids, cthread \in BOOLEAN :
       /\ ~taskExists(tid)
       /\ isFunctionRegistered(fid)
       /\ adding' = [adding EXCEPT ![c] = {cTask(tid, fid, cthread)}]
  /\ UNCHANGED <<reorder, functions, tasks, task_id_map, current_bitstream, fpga,
                 scheduler_running, pc, next_idx, vlock>>

\* map::emplace leaves an existing entry as it is.
Emplace(m, k, v) == [x \in DOMAIN m \cup {k} |-> IF x \in DOMAIN m THEN m[x] ELSE v]

\* The position push_back gives the new task.
InsertedAt == Len(tasks) + 1

AddTaskInsert(c) ==
  /\ TlockFree
  /\ \E task \in adding[c] :
       /\ tasks' = Append(tasks, task)
       /\ task_id_map' = Emplace(task_id_map, task.tid, InsertedAt)
  /\ adding' = [adding EXCEPT ![c] = {}]
  /\ UNCHANGED <<reorder, functions, current_bitstream, fpga, scheduler_running, pc,
                 next_idx, vlock>>

--------------------------------------------------------------------------------
(* The scheduler thread: one iteration of schedule().                      *)

\* The sanity check of the scan.
Valid(task) == task.cthread /\ isFunctionRegistered(task.fid)

Runnable == {i \in DOMAIN tasks : ~tasks[i].completed /\ Valid(tasks[i])}

Matching == {i \in Runnable : BitstreamOf[tasks[i].fid] = current_bitstream}

\* Mutant: the scan does not break off at the first task.
LastOf(S) == CHOOSE i \in S : \A j \in S : i >= j

First(S) == CHOOSE i \in S : \A j \in S : i <= j

\* The tasks at which the scan breaks off.
BreakSet == IF reorder THEN Matching ELSE Runnable

\* Mutant: a scan that breaks off nowhere chooses nothing.
ChosenMatching == IF BreakSet # {} THEN First(BreakSet) ELSE 0

\* The task the scan chooses: where it breaks off, else the first it saw.
Chosen == IF BreakSet # {} THEN First(BreakSet)
          ELSE IF Runnable # {} THEN First(Runnable) ELSE 0

Scanned(i) == BreakSet = {} \/ i < First(BreakSet)

Fail(task) == [task EXCEPT !.ret_code = 1, !.completed = TRUE]

\* Takes tlock and scans: the tasks the scan passes that fail the sanity check
\* are completed with an error; without a task to run tlock is given back.
Scan ==
  /\ pc = "idle"
  /\ scheduler_running
  /\ tasks' = [i \in DOMAIN tasks |->
                 IF Scanned(i) /\ ~tasks[i].completed /\ ~Valid(tasks[i])
                 THEN Fail(tasks[i]) ELSE tasks[i]]
  /\ next_idx' = Chosen
  /\ pc' = IF Chosen = 0 THEN "idle" ELSE "picked"
  /\ UNCHANGED <<reorder, functions, task_id_map, current_bitstream, fpga,
                 scheduler_running, vlock, adding>>

LeaveLoop ==
  /\ pc = "idle"
  /\ ~scheduler_running
  /\ pc' = "off"
  /\ UNCHANGED <<reorder, functions, tasks, task_id_map, current_bitstream, fpga,
                 scheduler_running, next_idx, vlock, adding>>

Target == BitstreamOf[tasks[next_idx].fid]

\* Mutant: any bitstream will do.
LoadedAnything == TRUE

\* What the scheduler believes is the bitstream the chosen task needs.
Loaded == current_bitstream = Target

\* reconfigureBase succeeded.
Reconfigure ==
  /\ pc = "picked"
  /\ ~Loaded
  /\ EnPR
  /\ fpga' = Target
  /\ current_bitstream' = Target
  /\ UNCHANGED <<reorder, functions, tasks, task_id_map, scheduler_running, pc,
                 next_idx, vlock, adding>>

\* The task ends with an error and tlock is released: reconfigureBase threw
\* (the driver refused before a word was written), or there is no
\* reconfiguration in this shell.
ReconfigureFails ==
  /\ pc = "picked"
  /\ ~Loaded
  /\ tasks' = [tasks EXCEPT ![next_idx] = Fail(@)]
  /\ pc' = "idle"
  /\ UNCHANGED <<reorder, functions, task_id_map, current_bitstream, fpga,
                 scheduler_running, next_idx, vlock, adding>>

\* cthread->lock()
LockThread ==
  /\ pc = "picked"
  /\ Loaded
  /\ vlock = "free"
  /\ vlock' = "scheduler"
  /\ pc' = "running"
  /\ UNCHANGED <<reorder, functions, tasks, task_id_map, current_bitstream, fpga,
                 scheduler_running, next_idx, adding>>

\* cthread->unlock(), on both paths.
Unlock(ret_code) == "free"

\* The function returned, or threw; either way the locks are released.
FinishRun ==
  /\ pc = "running"
  /\ \E ret_code \in {0, 1} :
       /\ tasks' = [tasks EXCEPT ![next_idx].ret_code = ret_code,
                                 ![next_idx].completed = TRUE]
       /\ vlock' = Unlock(ret_code)
  /\ pc' = "idle"
  /\ UNCHANGED <<reorder, functions, task_id_map, current_bitstream, fpga,
                 scheduler_running, next_idx, adding>>

--------------------------------------------------------------------------------
(* Other processes with a cThread on this vFPGA.                           *)

OtherLock ==
  /\ vlock = "free"
  /\ vlock' = "other"
  /\ UNCHANGED <<reorder, functions, tasks, task_id_map, current_bitstream, fpga,
                 scheduler_running, pc, next_idx, adding>>

OtherUnlock ==
  /\ vlock = "other"
  /\ vlock' = "free"
  /\ UNCHANGED <<reorder, functions, tasks, task_id_map, current_bitstream, fpga,
                 scheduler_running, pc, next_idx, adding>>

SchedulerThread ==
  Scan \/ LeaveLoop \/ Reconfigure \/ ReconfigureFails \/ LockThread \/ FinishRun

Next ==
  \/ \E fid \in Fids : AddFunction(fid)
  \/ Start
  \/ Stop
  \/ \E c \in Clients : AddTaskCheck(c) \/ AddTaskInsert(c)
  \/ SchedulerThread
  \/ OtherLock
  \/ OtherUnlock

Spec == Init /\ [][Next]_vars

\* The scheduler thread keeps taking steps and the functions it runs return;
\* other processes release the vFPGA; and whoever waits for a mutex that is
\* released again and again gets it.
FairSpec ==
  /\ Spec
  /\ WF_vars(Scan) /\ WF_vars(LeaveLoop) /\ WF_vars(FinishRun)
  /\ WF_vars(Reconfigure \/ ReconfigureFails)
  /\ SF_vars(LockThread)
  /\ WF_vars(OtherUnlock)
  /\ \A c \in Clients : SF_vars(AddTaskInsert(c))

--------------------------------------------------------------------------------
(* Properties.                                                             *)

TypeOK ==
  /\ reorder \in BOOLEAN
  /\ functions \subseteq Fids
  /\ tasks \in Seq(Task)
  /\ DOMAIN task_id_map \subseteq Tids
  /\ task_id_map \in [DOMAIN task_id_map -> Nat]
  /\ current_bitstream \in Bitstreams
  /\ fpga \in Bitstreams
  /\ scheduler_running \in BOOLEAN
  /\ pc \in {"off", "idle", "picked", "running"}
  /\ next_idx \in Nat
  /\ vlock \in {"free", "scheduler", "other"}
  /\ adding \in [Clients -> SUBSET NewTask]

\* taskChecker never meets its "UNEXPECTED BUG": an entry of task_id_map leads
\* to the first task that has the identifier of the entry, and every identifier
\* of the vector has an entry, also when clients submit the same one at once.
TaskMapAgrees ==
  /\ \A tid \in DOMAIN task_id_map :
       task_id_map[tid] \in DOMAIN tasks /\ tasks[task_id_map[tid]].tid = tid
  /\ \A i \in DOMAIN tasks :
       tasks[i].tid \in DOMAIN task_id_map /\ task_id_map[tasks[i].tid] <= i

\* addTask refuses an identifier that exists, so every task in the vector can
\* be found through its identifier and no two share one.
EveryTaskReachable ==
  \A i \in DOMAIN tasks :
    tasks[i].tid \in DOMAIN task_id_map /\ task_id_map[tasks[i].tid] = i

\* A function runs only for a task that has not completed, with the task's own
\* bitstream on the vFPGA and the vFPGA's lock held by the scheduler.
RunsOnItsBitstream ==
  pc = "running" =>
    /\ next_idx \in DOMAIN tasks
    /\ ~tasks[next_idx].completed
    /\ fpga = Target
    /\ vlock = "scheduler"

\* First come, first served: without reordering no task completes before one
\* that was submitted earlier.
CompletesInOrder ==
  ~reorder =>
    \A i, j \in DOMAIN tasks : i < j /\ tasks[j].completed => tasks[i].completed

\* With reordering the vFPGA is reconfigured only when no runnable task is
\* left for the bitstream it holds.
ReconfiguresLast ==
  [][reorder /\ fpga' # fpga => Matching = {}]_vars

\* A completed task never runs again and its return code never changes: the
\* pointer getTask() returned stays good to read.
ResultsAreFinal ==
  [][\A i \in DOMAIN tasks :
       tasks[i].completed => i \in DOMAIN tasks' /\ tasks'[i] = tasks[i]]_vars

\* Every task in the vector completes unless the scheduler is stopped, whatever
\* other processes do with the lock of the vFPGA.  With reordering this needs an
\* end of the arrivals: a task waits as long as there is one for the bitstream
\* that is loaded.
TasksComplete ==
  \/ reorder /\ []<><<Len(tasks') > Len(tasks)>>_vars
  \/ \A i \in 1 .. MaxTasks :
       (i \in DOMAIN tasks) ~>
         (\/ i \in DOMAIN tasks /\ tasks[i].completed
          \/ ~scheduler_running)

\* What tlock protects while a task is chosen: the choice stays pending, the
\* policy's reason for it stays true, and the scheduler knows what is loaded.
ChoiceStands ==
  /\ fpga = current_bitstream
  /\ vlock = "scheduler" <=> pc = "running"
  /\ ~TlockFree => next_idx \in DOMAIN tasks /\ ~tasks[next_idx].completed
  /\ pc = "running" => current_bitstream = Target
  /\ pc = "picked" /\ reorder /\ current_bitstream # Target => Matching = {}
  /\ ~TlockFree /\ ~reorder =>
       \A j \in DOMAIN tasks : j < next_idx => tasks[j].completed

\* The inductive invariant behind the safety properties.
SchedulerInv == TypeOK /\ ChoiceStands /\ TaskMapAgrees /\ CompletesInOrder

\* Identifiers drawn from disjoint sets: the inductive invariant behind
\* EveryTaskReachable.
FreshIds ==
  /\ EveryTaskReachable
  /\ \A c \in Clients : \A t \in adding[c] :
       /\ adding[c] = {t}
       /\ t.tid \in TidsOf[c]
       /\ t.tid \notin DOMAIN task_id_map

\* The refinement mapping to TaskExecutor.
Outcome(task) ==
  IF ~task.completed THEN "pending" ELSE IF task.ret_code = 0 THEN "done" ELSE "error"

Executor == INSTANCE TaskExecutor WITH
  pool <- [i \in DOMAIN tasks |->
             [fid |-> tasks[i].fid, outcome |-> Outcome(tasks[i])]],
  loaded <- fpga,
  busy <- IF pc = "running" THEN next_idx ELSE 0

\* The scheduler implements the executor: one task at a time, each on its own
\* bitstream, each with at most one outcome.
ImplementsExecutor == Executor!Spec

================================================================================
