CONSTANTS
  p1 = p1
  p2 = p2
  u = u
  Pollers = {p1}
  Users = {}
  Timers = {1, 2}
  Recurring = {2}
  Cancels = {1}
  Cycles = {1}
  Backs = {}
  Start = 5
  Hour = 2
  MaxWait = 2
  MaxTime = 7
  MaxResets = 0
SPECIFICATION Spec
INVARIANTS NoUndefined
CHECK_DEADLOCK FALSE
