CONSTANTS
  t1 = t1
  t2 = t2
  Thread = {t1, t2}
  NoThread = NoThread
  Key <- ZeroToFour
  Leaf = {l1, l2, l3, l4}
  RootLeaf = l1
  NoLeaf = NoLeaf
  WildPtr = WildPtr
  FreshNext = {NoLeaf}
  MAX_LEAF_KEY = 2
  Workload <- LoadFour
  ReadBy <- Swapped
SPECIFICATION CrashFairSpec
INVARIANTS RebuildStoresAll OnlyClashAborts PromisesAreDurable
PROPERTIES RebuildEnds
