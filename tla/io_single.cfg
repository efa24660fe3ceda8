CONSTANTS
  reader = reader
  second = second
  writer = writer
  connector = connector
  closer = closer
  sleeper = sleeper
  a = a
  b = b
  p1 = p1
  p2 = p2
  None = None
  Fibers = {reader, closer, connector}
  Job <- OneThread
  Fds = {a, b}
  Timed = {connector}
  Pollers = {p1}
  Cores = 1
  Hangups = TRUE
SPECIFICATION FairSpec
INVARIANTS NoMissedEvent AssertionsHold NothingLeft ConnectHonest
PROPERTIES Resumed
CHECK_DEADLOCK FALSE
