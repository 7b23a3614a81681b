SPECIFICATION Spec
CONSTANTS
  a = a
  b = b
  v = v
  w = w
  r = r
  ID = {a, b}
  Val = {v, w}
  None = None
  Err = Err
  Reader = {}
  SyncEvery = 2
  HotMax = 1
  Faults = {"torn", "sync", "tmp", "close", "rename", "reopen"}
  MaxBatch = 2
  MaxFile = 5
SYMMETRY Symmetry
INVARIANT IndexMatchesFile
PROPERTY OnlyWritesChangeContents
