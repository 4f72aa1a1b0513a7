CONSTANTS
  Key <- KeysTo5
  Hash <- HashBytes
  MAX_LEAF_KEY = 4
  Calls = {"insert", "find", "remove"}
  ScanCount = 3
  MaxCalls = 8
SPECIFICATION Spec
INVARIANTS NoFingerReadAsPair
