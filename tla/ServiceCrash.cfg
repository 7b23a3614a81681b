SPECIFICATION Spec
CONSTANTS
  a = a
  b = b
  c = c
  v = v
  w = w
  empty = empty
  wide = wide
  None = None
  BlankID = BlankID
  ID = {a, b}
  Val = {v, wide, empty}
  NaNVal = {}
  HugeVal = {}
  LongVal = {}
  SyncEvery = 2
  Faults = {"open", "save", "trunc", "read"}
  MaxVectorDim = 2
  SnapshotEvery = 2
  RebuildMin = 1
  MaxBatch = 2
  MaxWAL = 2
  MaxPersistOps = 3
  MaxInternal = 2
  Dim <- MCDim
INVARIANTS
  RecoveryCompletes
  IndexMatchesStore
  ANNMatchesStore
PROPERTIES
  InternalIDsNotReused
  ImplementsVectorMap
SYMMETRY IDSymmetry
