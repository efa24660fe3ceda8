SPECIFICATION TextsSpec
CONSTANTS
  Methods <- SomeMethods
  BufferSize = 100
  Urls <- SomeUrls
  Names <- SomeNames
  Patterns <- SomePatterns
  MaxCalls = 3
  Messages <- SomeMessages
  Octet = 2
  OctetCount = 6
  Word = 8
  MaxReads = 3
INVARIANTS FollowsGrammar UncutExact RefusedOnlyCut LinkServed AddressesExact
CHECK_DEADLOCK FALSE
