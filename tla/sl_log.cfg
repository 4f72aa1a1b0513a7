CONSTANTS
  Key = {k1, k2, k3, k4, k5}
  Blank = Blank
  PoolChunks = 6
  Batch = 2
  Slots = 3
  TailSlots = 1
  LeavesPerChunk = 1
  FreshId = {0, 9}
  MaxDisturb = 1
  NoChunk = NoChunk
SYMMETRY KeysAlike
SPECIFICATION Spec
INVARIANTS LogIsReplayed ReplayStaysInSegment
PROPERTIES RecordsStay ImplementsDurableLog
