SPECIFICATION Spec
CONSTANTS
  Users = {u}
  Ranges <- TwoBuffers
  Exported <- OneExported
  Requests <- SomeRequests
  Environments <- Environs
  MaxCalls <- ThreeCalls
  MaxRequests <- TwoRequests
  QDEPTH = 4
  N_TLB_ACTV = 2
  CACHE_MAX_SIZE = 0
INVARIANTS NoStrayTransfer RightPage
PROPERTIES EverythingServed
CHECK_DEADLOCK FALSE
