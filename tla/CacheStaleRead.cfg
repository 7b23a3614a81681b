SPECIFICATION Spec
CONSTANTS
  a = a
  b = b
  v = v
  w = w
  None = None
  ID = {a, b}
  Val = {v, w}
  Proc = {writer, r}
  Writer = writer
  writer = writer
  r = r
  Size <- MCSize
  MaxBytes = 8
  MaxItems = 2
  HasTTL = FALSE
  LateErrors = FALSE
  MaxBatch = 1
INVARIANTS
  DeletedNotServed
