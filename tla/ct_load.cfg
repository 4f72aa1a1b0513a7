CONSTANTS
  t1 = t1
  t2 = t2
  t3 = t3
  Thread = {t1, t2, t3}
  NoThread = NoThread
  Key <- Five
  Leaf = {l1, l2, l3, l4, l5}
  RootLeaf = l1
  NoLeaf = NoLeaf
  WildPtr = WildPtr
  FreshNext = {NoLeaf}
  MAX_LEAF_KEY = 2
  Workload <- LoadThree
SPECIFICATION Spec
INVARIANTS TypeOK LeafMutex RecordsAreRouted RouteStaysValid LeafCapacity
  LogNamesPLeaf LoggedOnce StoredIsLogged SplitHasBuffer
PROPERTIES ImplementsKVSet
