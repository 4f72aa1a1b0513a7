CONSTANTS
  Thread = {t1, t2}
  Key <- SomeKeys
  Loaded <- FourKeys
  Hash <- HashBytes
  MAX_LEAF_KEY = 8
  MaxCalls = 6
SPECIFICATION Spec
INVARIANTS OneOwner
CONSTRAINT Descending
