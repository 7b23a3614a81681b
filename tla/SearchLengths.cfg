SPECIFICATION SearchSpec
CONSTANTS
  a = a
  b = b
  v = v
  w = w
  q = q
  far = far
  wide = wide
  NaN = NaN
  None = None
  BlankID = BlankID
  ID = {a, b}
  Val = {v, w}
  NaNVal = {}
  HugeVal = {}
  LongVal = {}
  SyncEvery = 1
  Faults = {"open"}
  MaxVectorDim = 2
  SnapshotEvery = 1
  RebuildMin = 1
  MaxBatch = 1
  MaxWAL = 1
  MaxPersistOps = 2
  MaxInternal = 2
  Dim <- MCDim
  Query = {q, wide}
  QueryDim <- MCQueryDim
  Distance <- MCDistance
  Ks = {1, 2}
INVARIANT SameLength
SYMMETRY IDSymmetry
