SPECIFICATION Spec
CONSTANTS
  a = a
  b = b
  c = c
  v = v
  w = w
  empty = empty
  wide = wide
  None = None
  BlankID = BlankID
  ID = {a, b}
  Val = {v, w}
  NaNVal = {}
  HugeVal = {}
  LongVal = {w}
  SyncEvery = 2
  Faults = {}
  MaxVectorDim = 2
  SnapshotEvery = 3
  RebuildMin = 1
  MaxBatch = 2
  MaxWAL = 3
  MaxPersistOps = 3
  MaxInternal = 2
  Dim <- MCDim
INVARIANTS
  AckedWritesRestored
