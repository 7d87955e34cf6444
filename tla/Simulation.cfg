SPECIFICATION Spec
CONSTANTS
  Users = {"u1", "u2"}
  Main = "u1"
  Bufs = {"b1"}
  NoOne = "none"
  Fns <- MCFns
  MaxCalls <- MCMaxCalls
  MaxIrqs <- MCMaxIrqs
  PipeCap = 3
  Environments <- MCEnvironments
INVARIANTS AnswersMatch EndsInOrder
PROPERTIES EveryCallReturns
CHECK_DEADLOCK FALSE
