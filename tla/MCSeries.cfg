CONSTANTS
  NaN = NaN
  None = None
  Infinite = Infinite
  Values <- MCValues
  Big = 7
  Windows = {0, 1, 2, 3}
  MaxLength = 5
  Series <- MCSeries
  Queries <- MCQueries
  Requests <- MCRequests
  SampleLimit = 4
  Precision = 4
  MaxQueries = 2
  MaxEvaluated = 3
SPECIFICATION Spec
INVARIANTS
  TypeOK
  OutputFollowsSamples
  GridCoversRange
  MeansMatchWindow
CHECK_DEADLOCK FALSE
