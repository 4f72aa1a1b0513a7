CONSTANTS
  Thread = {t1}
  Key <- SomeKeys
  Loaded <- FourKeys
  Hash <- HashBytes
  MAX_LEAF_KEY = 8
  MaxCalls = 9
SPECIFICATION Spec
INVARIANTS TypeOK CacheInLeaf PairsAreRight AnswersAreRight
CONSTRAINT Descending
