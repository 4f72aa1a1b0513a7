CONSTANTS
  t1 = t1
  t2 = t2
  t3 = t3
  Thread = {t1, t2}
  NoThread = NoThread
  Key <- Three
  Leaf = {l1, l2, l3}
  RootLeaf = l1
  NoLeaf = NoLeaf
  WildPtr = WildPtr
  FreshNext = {NoLeaf}
  MAX_LEAF_KEY = 2
  Workload <- LoadAndScan
SPECIFICATION Spec
INVARIANTS FastScanReadsBuffer
