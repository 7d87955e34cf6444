------------------------------ MODULE MCService ------------------------------
(* One function of the service, and one bitstream that holds it.  Two        *)
(* clients connect; one submits up to two tasks, or each submits one.  At    *)
(* most one kind of mishap in a behaviour.                                   *)
EXTENDS Service

OneBitstream == [fid \in Fids |-> "app"]

OneMishap == {{}} \cup {{m} : m \in Mishaps}

TasksPerMishap ==
  [e \in OneMishap |-> IF e \subseteq {"failing", "timeout"} THEN <<2, 0>> ELSE <<1, 1>>]
=============================================================================
