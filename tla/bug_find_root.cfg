CONSTANTS
  Key <- KeysTo5
  Hash <- HashZero
  MAX_LEAF_KEY = 4
  Calls = {"insert", "find"}
  ScanCount = 3
  MaxCalls = 8
SPECIFICATION Spec
INVARIANTS MissingIsNotFound
