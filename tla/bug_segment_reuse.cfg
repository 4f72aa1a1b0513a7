CONSTANTS
  Key = {k1, k2, k3}
  Blank = Blank
  PoolChunks = 4
  Batch = 1
  Slots = 3
  TailSlots = 1
  LeavesPerChunk = 1
  FreshId = {0, 9}
  MaxDisturb = 0
  NoChunk = NoChunk
SYMMETRY KeysAlike
SPECIFICATION Spec
INVARIANTS SegmentsStartEmpty
