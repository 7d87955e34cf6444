---------------------------- MODULE MCSimulation ----------------------------
(* An instance of Simulation: two threads of the program, one buffer.  One *)
(* thread alone makes up to three calls (getMem, an operation, and what    *)
(* waits for it or frees the buffer).  Two threads make one call each, or  *)
(* two and one where a sync or an offload may meet another call.  The      *)
(* vFPGA raises two interrupts where the pipes are short.                  *)
EXTENDS Simulation

MCEnvironments == {{"crash"}, {"dut"}, {"burst"}, {"late"}, {"threads"}, {"threads", "syncs"}}
Functions ==
  {"setCSR", "getCSR", "getMem", "freeMem", "read", "write", "writeCard", "transfer", "checkCompleted",
   "clearCompleted", "sync", "offload"}
MCFns ==
  [e \in MCEnvironments |->
     IF "syncs" \in e THEN {"getCSR", "getMem", "checkCompleted", "sync", "offload"} ELSE Functions]
MCMaxCalls ==
  [e \in MCEnvironments |-> [u \in Users |->
     CASE e = {"dut"} -> 3
       [] e \in {{"burst"}, {"late"}} \/ (e = {"threads", "syncs"} /\ u = Main) -> 2
       [] OTHER -> 1]]
MCMaxIrqs == [e \in MCEnvironments |-> CASE "threads" \in e -> 0 [] e = {"burst"} -> 2 [] OTHER -> 1]
=============================================================================
