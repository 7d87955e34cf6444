SPECIFICATION Spec
CONSTANTS
  Threads = {"c", "d", "s"}
  Node <- MCNode
  Client = "c"
  Server = "s"
  Addrs = {"a1", "a2"}
  Null = "null"
  NoOne = "none"
  CMD_FIFO_DEPTH = 2
  CMD_FIFO_THR = 1
  Active <- MCActive
  Ops <- MCOps
  MaxCalls <- MCMaxCalls
  Environments <- MCEnvironments
INVARIANTS CommandsWhole  OwnedMemory
PROPERTIES EveryThreadEnds
CHECK_DEADLOCK FALSE
