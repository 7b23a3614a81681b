SPECIFICATION Spec
CONSTANTS
  a = a
  b = b
  c = c
  v = v
  w = w
  empty = empty
  wide = wide
  None = None
  BlankID = BlankID
  ID = {a, b}
  Val = {v, w, wide, empty}
  NaNVal = {w}
  HugeVal = {}
  LongVal = {}
  SyncEvery = 1
  Faults = {"torn", "sync"}
  MaxVectorDim = 2
  SnapshotEvery = 2
  RebuildMin = 1
  MaxBatch = 2
  MaxWAL = 2
  MaxPersistOps = 2
  MaxInternal = 2
  Dim <- MCDim
INVARIANTS
  TypeOK
  AckedWritesServed
  CrashSafe
SYMMETRY IDSymmetry
