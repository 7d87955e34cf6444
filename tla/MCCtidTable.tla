------------------------------ MODULE MCCtidTable ------------------------------
(* CtidTable for TLC: three cThreads of two processes. *)
EXTENDS CtidTable

ThreadsOfTwoProcesses == [t \in Cthreads |-> IF t <= 2 THEN 101 ELSE 102]

ApartBuckets == [h \in Hpids |-> h % 2]

CalmOrNot == {{}, {"collide"}, {"late"}}
================================================================================
