SPECIFICATION FairSpec
CONSTANTS
  a = a
  b = b
  v = v
  w = w
  None = None
  ID = {a, b}
  Val = {v, w}
  Proc = {writer, r}
  Writer = writer
  writer = writer
  r = r
  Size <- MCSize
  MaxBytes = 3
  MaxItems = 1
  HasTTL = TRUE
  LateErrors = TRUE
  MaxBatch = 2
INVARIANTS
  CacheAccounted
  StaleOnlyByRace
PROPERTIES
  CallsReturn
  NewestSurvives
