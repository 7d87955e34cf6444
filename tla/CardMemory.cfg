SPECIFICATION Spec
CONSTANTS
  Callers = {p, q}
  N_MEM_BLOCKS = 2
  N = 3
  MaxPages = 2
  MaxBuffers = 3
  Environments <- AllHabits
INVARIANTS NoOverlap
CHECK_DEADLOCK FALSE
