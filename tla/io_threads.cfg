CONSTANTS
  reader = reader
  second = second
  writer = writer
  connector = connector
  closer = closer
  sleeper = sleeper
  a = a
  b = b
  p1 = p1
  p2 = p2
  None = None
  Fibers = {reader, second, writer, closer, sleeper}
  Job <- TwoThreads
  Fds = {a}
  Timed = {reader}
  Pollers = {p1, p2}
  Cores = 2
  Hangups = TRUE
SPECIFICATION Spec
INVARIANTS WokenOnce
CHECK_DEADLOCK FALSE
