CONSTANTS
  t1 = t1
  t2 = t2
  None = None
  Closed = Closed
  Fds = {1, 3}
  Threads = {t1, t2}
  Fibers = {t1, t2}
  InitialSize = 2
  MaxCalls = 5
  Ioctls = {TRUE}
  MaxFdCalls = 9
  Width = 5
  Group = 2
  BlockSize = 2
  Texts <- SomeTexts
  Numbers <- SomeNumbers
  Fills = {0, 5}
  Refused = Refused
  MaxBlocks = 2
  Peer <- Sent
  LengthMod = 16
  MaxLength = 3
  MaxErrors = 1
SPECIFICATION PartsSpec
SYMMETRY ThreadSymmetry
INVARIANTS  PendingExact InterestAgrees EntitiesFit SettingsKept NumbersReturn FixedSizeExact
PROPERTIES ImplementsBuffer
CHECK_DEADLOCK FALSE
