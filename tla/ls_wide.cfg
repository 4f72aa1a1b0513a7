CONSTANTS
  Key <- KeysTo13
  Hash <- HashBytes
  MAX_LEAF_KEY = 8
  Calls = {"insert", "find"}
  ScanCount = 9
  MaxCalls = 16
SPECIFICATION AddSpec
INVARIANTS TypeOK CachedPairsAreRight StoredOnce AnswersAreRight
CONSTRAINT Ascending
