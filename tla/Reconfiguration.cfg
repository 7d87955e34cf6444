SPECIFICATION FairSpec
CONSTANTS
  Objects = {"a", "b", "c"}
  PidOf <- TwoProcesses
  TidOf <- WorkerThread
  CridOf <- FirstAndSecond
  None = None
  MAX_RECONFIG_BUFF_NUM = 3
  MaxAllocs = 2
  Vfids = {0, 1, 2}
  TargetsOf <- SomeTargets
  PR_FIFO_DEPTH = 2
  MaxCalls = 2
  Environments <- MaximalMishaps
  Active <- MCActive
  Sizes <- MCSizes
INVARIANTS WholeBitstreams CoupledWhenIdle MapsOwnPages
PROPERTIES CompletedIsLoaded CallReturns
CHECK_DEADLOCK FALSE
