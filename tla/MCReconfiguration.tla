------------------------- MODULE MCReconfiguration -------------------------
(* Two processes: a is the only object of the first, b and c are the first  *)
(* two of the second (crid 0 and 1).  a reconfigures the shell, b the vFPGA *)
(* of its crid and c another one.                                           *)
(* WorkerThread: c may be called from a second thread of its process.  A    *)
(* larger set of mishaps has all behaviours of a smaller one, except        *)
(* "fixed", where nothing is reconfigured.                                  *)
EXTENDS Reconfiguration

TwoProcesses == [o \in Objects |-> IF o = "a" THEN 10 ELSE 20]
FirstAndSecond == [o \in Objects |-> IF o = "c" THEN 1 ELSE 0]
WorkerThread == [TwoProcesses EXCEPT !["c"] = 21]
SomeTargets == [o \in Objects |-> CASE o = "a" -> {Shell} [] o = "b" -> {0} [] o = "c" -> {2}]

MaximalMishaps ==
  {{}, {"oversize"}, {"failure", "oversize"}, {"oversize", "thread"}, {"reopen"}, {"signal"},
   {"death"}, {"fixed"}}

MCActive ==
  [e \in MaximalMishaps |->
     IF e \subseteq {"reopen"} THEN Objects
     ELSE IF "thread" \in e THEN {"b", "c"}
     ELSE IF e = {"oversize"} THEN {"a", "c"} ELSE {"a", "b"}]

\* Two pages fit the FIFO, three do not, four are refused.
MCSizes == [e \in MaximalMishaps |-> IF "oversize" \in e THEN 2 .. 4 ELSE {2}]
=============================================================================
