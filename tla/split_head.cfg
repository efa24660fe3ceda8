SPECIFICATION HeadSpec
CONSTANTS
  Methods <- SomeMethods
  BufferSize = 100
  Urls <- SomeUrls
  Names <- SomeNames
  Patterns <- SomePatterns
  MaxCalls = 3
  Messages <- OneRequest
  Octet = 2
  OctetCount = 6
  Word = 8
  MaxReads = 2
INVARIANTS NothingLost
CHECK_DEADLOCK FALSE
