SPECIFICATION Spec
CONSTANTS
  a = a
  b = b
  v = v
  w = w
  r = r
  ID = {a, b}
  Val = {v, w}
  None = None
  Err = Err
  Reader = {}
  SyncEvery = 2
  HotMax = 1
  Faults = {"torn"}
  MaxBatch = 1
  MaxFile = 3
SYMMETRY Symmetry
INVARIANT StoreOpens
