SPECIFICATION FairSpec
CONSTANTS
  ID = {1, 2, 3, 4}
  Limit = 2
  ReadErrors = FALSE
INVARIANTS
  ListedComplete
  ListedOnceInOrder
  ScanFindsFirst
PROPERTIES
  LoopEnds
