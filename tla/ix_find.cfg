CONSTANTS
  Key = {1, 2, 3, 4, 5, 6, 7, 8}
  Leaf = {101, 102, 103, 104, 105, 106, 107, 108}
  RootLeaf = 101
  Node = {201, 202, 203, 204, 205, 206, 207}
  Null = 0
  MAX_LEAF_KEY = 2
  MaxWaiting = 1
SPECIFICATION EarlySpec
INVARIANTS TypeOK IndexRoutes SeparatorsOnce NodesWellFormed FindStaysInNode WildOnlyInSplit
PROPERTIES FindReturns
CONSTRAINT FindsEarly
