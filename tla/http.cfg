CONSTANTS
  c1 = c1
  c2 = c2
  r1 = r1
  r2 = r2
  r3 = r3
  l = l
  None = None
  Conns = {1, 2}
  Requests = {r1, r2, r3}
  Asked <- AskedLengths
  Answered <- AnsweredLengths
  LengthMod = 8
  MaxSlips = 1
  Clients = {c1, c2}
  Plan <- TwoAndOne
  Single = {r2}
  MaxAliveTime = 1
  MaxRequest = 2
  Now = 2
  Listeners = {l}
  KeepAlive = TRUE
  MaxStarts = 1
SPECIFICATION FairSpec
INVARIANTS  PoolExact
PROPERTIES  ServerEnds
CHECK_DEADLOCK FALSE
