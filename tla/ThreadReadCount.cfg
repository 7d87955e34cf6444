SPECIFICATION Spec
CONSTANTS
  Threads = {"c", "d", "s"}
  Node <- MCNode
  Client = "c"
  Server = "s"
  Addrs = {"a1", "a2"}
  Null = "null"
  NoOne = "none"
  CMD_FIFO_DEPTH = 2
  CMD_FIFO_THR = 1
  Active <- ReadActive
  Ops <- ReadOps
  MaxCalls <- ReadMaxCalls
  Environments <- ReadEnvironments
INVARIANT CountsItsOwn
CHECK_DEADLOCK FALSE
