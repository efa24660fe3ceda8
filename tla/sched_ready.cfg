SPECIFICATION Spec
CONSTANTS
  Workers = {w1, w2}
  Caller = c
  UseCaller = FALSE
  Fibers = {f1, f2}
  Waiters = {}
  Pins = {}
  AnyThread = AnyThread
  None = None
  CounterMod = 16
  MaxSubmits = 1
  MaxYields = 1
SYMMETRY WorkerSymmetry
INVARIANTS NoCrash StopDrains ComputingInv
PROPERTIES ImplementsPool
CHECK_DEADLOCK FALSE
