CONSTANTS
  Key = {k1, k2, k3}
  Blank = Blank
  PoolChunks = 5
  Batch = 2
  Slots = 3
  TailSlots = 1
  LeavesPerChunk = 1
  FreshId = {0, 9}
  MaxDisturb = 1
  NoChunk = NoChunk
SYMMETRY KeysAlike
SPECIFICATION Spec
INVARIANTS NextIsFiled
