----------------------------- MODULE TaskExecutor ------------------------------
(***************************************************************************)
(* What cSched promises to the code that submits tasks, without locks,     *)
(* identifiers or a scheduling policy: a vFPGA holds one bitstream, runs   *)
(* one task at a time, runs a task only on the bitstream of its function,  *)
(* and gives every task at most one outcome.  A task that cannot be run    *)
(* ends in an error.                                                       *)
(***************************************************************************)
EXTENDS Naturals, Sequences

CONSTANTS Fids, Bitstreams, BitstreamOf, InitialBitstream

VARIABLES
  pool,    \* the submitted tasks: function and outcome
  loaded,  \* the bitstream on the vFPGA
  busy     \* the task that is running, 0 if none

vars == <<pool, loaded, busy>>

Init == pool = << >> /\ loaded = InitialBitstream /\ busy = 0

Submit ==
  /\ \E fid \in Fids : pool' = Append(pool, [fid |-> fid, outcome |-> "pending"])
  /\ UNCHANGED <<loaded, busy>>

Load ==
  /\ busy = 0
  /\ loaded' \in Bitstreams
  /\ UNCHANGED <<pool, busy>>

Begin(i) ==
  /\ busy = 0
  /\ pool[i].outcome = "pending"
  /\ loaded = BitstreamOf[pool[i].fid]
  /\ busy' = i
  /\ UNCHANGED <<pool, loaded>>

Finish ==
  /\ busy # 0
  /\ \E outcome \in {"done", "error"} :
       pool' = [pool EXCEPT ![busy].outcome = outcome]
  /\ busy' = 0
  /\ UNCHANGED loaded

\* Some of the pending tasks are given up.
Reject ==
  /\ busy = 0
  /\ \E S \in SUBSET {i \in DOMAIN pool : pool[i].outcome = "pending"} :
       pool' = [i \in DOMAIN pool |->
                  IF i \in S THEN [pool[i] EXCEPT !.outcome = "error"] ELSE pool[i]]
  /\ UNCHANGED <<loaded, busy>>

Next == Submit \/ Load \/ (\E i \in DOMAIN pool : Begin(i)) \/ Finish \/ Reject

Spec == Init /\ [][Next]_vars
================================================================================
