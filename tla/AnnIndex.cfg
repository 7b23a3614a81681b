SPECIFICATION Spec
CONSTANTS
  ID = {a, b, c, d}
  Vectors <- VectorsOnALine
  M = 2
  EfConstruction = 2
  EfSearch = 3
  Ks = {1, 2}
  Epochs = 2
  MaxChanges = 2
SYMMETRY SymmetricIDs
INVARIANTS DegreeBounded NoDeadEnd CandidatesAreNearest AnswerExact TombstonesBounded
