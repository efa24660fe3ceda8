CONSTANTS
  p1 = p1
  p2 = p2
  u = u
  Pollers = {p1}
  Users = {u}
  Timers = {1, 2}
  Recurring = {2}
  Cancels = {}
  Cycles = {1, 2}
  Backs = {}
  Start = 5
  Hour = 2
  MaxWait = 2
  MaxTime = 7
  MaxResets = 0
SPECIFICATION FairSpec
INVARIANTS NoLateTimer
PROPERTIES TimersExpire
CHECK_DEADLOCK FALSE
