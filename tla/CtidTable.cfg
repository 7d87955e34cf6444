SPECIFICATION Spec
CONSTANTS
  Cthreads = {1, 2, 3}
  HpidOf <- ThreadsOfTwoProcesses
  N_CTID_MAX = 3
  NBuckets = 2
  BucketOf <- ApartBuckets
  Buffers = {1, 2}
  Environments <- CalmOrNot
INVARIANTS UniqueCtids NothingStale
