CONSTANTS
  Key <- KeysTo5
  Hash <- HashBytes
  MAX_LEAF_KEY = 4
  Calls = {"insert", "find"}
  ScanCount = 9
  MaxCalls = 8
SPECIFICATION Spec
INVARIANTS SlotsIInv
