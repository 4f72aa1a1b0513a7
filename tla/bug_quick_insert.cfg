CONSTANTS
  Key <- SomeKeys
  Hash <- HashBytes
  MAX_LEAF_KEY = 4
  Calls = {"insert", "find"}
  ScanCount = 1
  MaxCalls = 7
  FreshWords <- BlankWords
  MaxCrashes = 2
SPECIFICATION RecoverySpec
INVARIANTS RecoveredIsFound
CONSTRAINT Loading
