SPECIFICATION Spec
CONSTANTS
  Key = {k1, k2}
  Proc = {p1, p2}
  Limit = 2
  Window = 3
  MaxClock = 3
INVARIANTS
  RateTypeOK
  RateBounded
PROPERTIES
  RefusedOnlyOverLimit
