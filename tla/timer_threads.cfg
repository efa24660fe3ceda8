CONSTANTS
  p1 = p1
  p2 = p2
  u = u
  Pollers = {p1, p2}
  Users = {}
  Timers = {1, 2}
  Recurring = {2}
  Cancels = {1, 2}
  Cycles = {1}
  Backs = {3}
  Start = 5
  Hour = 2
  MaxWait = 2
  MaxTime = 6
  MaxResets = 1
SPECIFICATION Spec
INVARIANTS TimerInv CancelFinal StopAwaitsTimers NoTimerLost
PROPERTIES KeysKept
CHECK_DEADLOCK FALSE
