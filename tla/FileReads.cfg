SPECIFICATION Spec
CONSTANTS
  a = a
  b = b
  v = v
  w = w
  r = r
  ID = {a, b}
  Val = {v, w}
  None = None
  Err = Err
  Reader = {r}
  SyncEvery = 2
  HotMax = 1
  Faults = {"write", "torn", "sync", "read", "tmp", "close", "rename", "reopen"}
  MaxBatch = 1
  MaxFile = 3
SYMMETRY Symmetry
INVARIANTS ReadIsLinearizable
