SPECIFICATION FairSpec
CONSTANTS
  Conns = {1, 2}
  Fds = {1, 2}
  Fids = {5}
  Bitstreams = {"app"}
  BitstreamOf <- OneBitstream
  InitialBitstream = "app"
  UnknownFid = 9
  NArgs = 1
  MaxTasks <- TasksPerMishap
  Environments <- OneMishap
CHECK_DEADLOCK FALSE
INVARIANTS RightResult NoDanglingThread ServiceUp
PROPERTIES EveryTaskAnswered CleanedUp
