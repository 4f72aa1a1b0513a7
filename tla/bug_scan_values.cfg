CONSTANTS
  Key <- KeysTo5
  Hash <- HashBytes
  MAX_LEAF_KEY = 6
  Calls = {"insert", "scan"}
  ScanCount = 5
  MaxCalls = 9
SPECIFICATION Spec
INVARIANTS ScanReturnsValues
