CONSTANTS
  Key <- KeysTo5
  Hash <- HashBytes
  MAX_LEAF_KEY = 4
  Calls = {"insert", "find", "update"}
  ScanCount = 3
  MaxCalls = 8
SPECIFICATION Spec
INVARIANTS UpdateIsSeen
