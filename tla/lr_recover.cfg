CONSTANTS
  Key <- SomeKeys
  Hash <- HashBytes
  MAX_LEAF_KEY = 4
  Calls = {"insert", "find", "update", "remove", "scan"}
  ScanCount = 3
  MaxCalls = 6
  FreshWords <- Words
  MaxCrashes = 2
SPECIFICATION AllSpec
INVARIANTS RecordsOwnedOnce RecoveredOnce StaleUntilSplit AbortsForDuplicate
CONSTRAINT CrashAfterLoad
