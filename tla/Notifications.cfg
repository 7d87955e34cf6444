SPECIFICATION FairSpec
CONSTANTS
  Cthreads = {t1, t2}
  Ctids = {c0, c1}
  None = None
  MaxNotify = 2
  Environments <- AllMishaps
INVARIANTS DeliveredInOrder NoSignalAfterUnregister
PROPERTIES EveryNotificationDelivered DestructorEnds
CHECK_DEADLOCK FALSE
