SPECIFICATION FairSpec
CONSTANTS
  c1 = c1
  c2 = c2
  Clients <- MCClients
  Tids <- MCTids
  TidsOf <- UniqueTidsOf
  Fids <- MCFids
  Bitstreams <- MCBitstreams
  BitstreamOf <- MCBitstreamOf
  InitialBitstream = "none"
  EnPR = TRUE
  MaxTasks = 2
INVARIANTS
  SchedulerInv EveryTaskReachable
PROPERTIES
  ReconfiguresLast ImplementsExecutor TasksComplete
