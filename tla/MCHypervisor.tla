---------------------------- MODULE MCHypervisor ----------------------------
(* Two virtual machines on a vFPGA with one process each, or one with both,  *)
(* or a third device for which there is no identifier.                       *)
EXTENDS Hypervisor, TLC

CONSTANTS m1, m2, m3, p1, p2, g1

MCVmOf == p1 :> m1 @@ p2 :> m2
MCPidOf == p1 :> 1 @@ p2 :> 2
MCEnvironments ==
  {{}, {"abrupt"}, {"full"}, {"many"}, {"shared"}, {"hasty"}, {"late"}, {"nomem", "small"},
   {"reuse"}}
MCCreated ==
  [e \in MCEnvironments |->
     IF e \in {{}, {"abrupt"}, {"full"}, {"hasty"}} THEN {m1, m2}
     ELSE IF e = {"many"} THEN {m1, m2, m3} ELSE {First}]
=============================================================================
