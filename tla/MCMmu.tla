--------------------------------- MODULE MCMmu ---------------------------------
(***************************************************************************)
(* Two buffers side by side, one of two pages, and three transfers: within *)
(* the first buffer, on the card, and across the boundary of the two.      *)
(***************************************************************************)
EXTENDS Mmu

TwoBuffers == {[vaddr |-> 1, n_pages |-> 2], [vaddr |-> 3, n_pages |-> 1]}

\* The memory of both, exported by a GPU.
OneExported == {[vaddr |-> 1, n_pages |-> 3]}

SomeRequests ==
  {[vaddr |-> 1, len |-> 1, strm |-> "HOST"],
   [vaddr |-> 2, len |-> 1, strm |-> "CARD"],
   [vaddr |-> 2, len |-> 2, strm |-> "HOST"]}

\* The user manages the buffers, or page faults do.
Environs ==
  {{"explicit", "migrate"}, {"paging", "mixed"}, {"paging", "unpinnable"},
   {"paging", "uninitialised"}, {"explicit", "signals"},
   {"gpu"}, {"gpu", "unpinnable"}, {"gpu", "scattered"}}

ThreeCalls == [e \in Environs |-> IF "signals" \in e THEN 2 ELSE 3]

TwoRequests == [e \in Environs |-> IF {"uninitialised", "scattered"} \cap e # {} THEN 1 ELSE 2]

=============================================================================
