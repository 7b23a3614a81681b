SPECIFICATION BatchSpec
CONSTANTS
  Queries <- Batch
  Stored = {1, 2, 3}
  QueryDim <- MCQueryDim
  VectorDim <- MCVectorDim
  Distance <- MCDistance
  NaN <- MCNaN
  Width = 2
  GoMaxProcs = {1, 2}
  MaxRequests = 4
INVARIANTS BatchAnswersExact BatchAnswersInPlace StatsBalanced
PROPERTY BatchReturns
CHECK_DEADLOCK FALSE
