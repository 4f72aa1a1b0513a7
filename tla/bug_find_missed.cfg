CONSTANTS
  Key = {1, 2, 3, 4, 5}
  Leaf = {101, 102, 103, 104, 105}
  RootLeaf = 101
  Node = {201, 202, 203, 204}
  Null = 0
  MAX_LEAF_KEY = 2
  MaxWaiting = 1
SPECIFICATION FindSpec
INVARIANTS StoredIsFound
