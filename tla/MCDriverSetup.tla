--------------------------- MODULE MCDriverSetup ---------------------------
(* An instance of DriverSetup: shells of one and two regions, one and two  *)
(* channels, with and without card memory, writeback and network.          *)
EXTENDS DriverSetup

MCShells ==
  {[n_regions |-> 2, n_chan |-> 2, mem |-> TRUE, wb |-> TRUE, net |-> TRUE],
   [n_regions |-> 1, n_chan |-> 1, mem |-> FALSE, wb |-> FALSE, net |-> FALSE],
   [n_regions |-> 2, n_chan |-> 1, mem |-> TRUE, wb |-> FALSE, net |-> TRUE]}

MCEnvironments == {{}, {"fail"}, {"unchecked"}, {"missing"}, {"busy"}, {"early", "fail"}}

MCWriters ==
  [e \in MCEnvironments |-> CASE e = {} -> {"v", "w"} [] e = {"busy"} -> {"v"} [] OTHER -> {}]
=============================================================================
