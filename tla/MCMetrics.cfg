SPECIFICATION Spec
CONSTANTS
  Missing = Missing
  None = None
  Recorders <- MCRecorders
  Factors = {1, 2}
  Points <- Corners
  Metric <- SquareMetric
  CountLimit = 2
INVARIANTS
  ElapsedIsTrueTime
  AnomaliesExplainElapsed
  PeaksBoundEveryStretch
  MeanIsBelowMaximum
  DistanceCoversDisplacement
CHECK_DEADLOCK FALSE
