SPECIFICATION Spec
CONSTANTS
  Workers = {w1}
  Caller = c
  UseCaller = TRUE
  Fibers = {f1, f2}
  Waiters = {f1}
  Pins = {w1, c}
  AnyThread = AnyThread
  None = None
  CounterMod = 16
  MaxSubmits = 1
  MaxYields = 2
INVARIANTS PendingCovers
PROPERTIES OthersTasksStay
CHECK_DEADLOCK FALSE
