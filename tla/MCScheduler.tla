------------------------------ MODULE MCScheduler ------------------------------
(* Instances of Scheduler: two clients, two functions on two bitstreams.   *)
EXTENDS Scheduler, TLC

CONSTANTS c1, c2

MCClients == {c1, c2}
MCTids == 1 .. 3
MCFids == {"f1", "f2"}
MCBitstreams == {"none", "b1", "b2"}
MCBitstreamOf == "f1" :> "b1" @@ "f2" :> "b2"

\* Identifiers drawn from one counter: no two clients submit the same.
UniqueTidsOf == c1 :> {1, 2} @@ c2 :> {3}

================================================================================
