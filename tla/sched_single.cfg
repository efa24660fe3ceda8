SPECIFICATION FairSpec
CONSTANTS
  Workers = {}
  Caller = c
  UseCaller = TRUE
  Fibers = {f1, f2}
  Waiters = {f1}
  Pins = {}
  AnyThread = AnyThread
  None = None
  CounterMod = 16
  MaxSubmits = 2
  MaxYields = 2
INVARIANTS ActiveExact 
PROPERTIES StopReturns EndedStaysEnded
CHECK_DEADLOCK FALSE
