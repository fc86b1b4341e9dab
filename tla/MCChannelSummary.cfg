SPECIFICATION Spec
CONSTANTS
  Missing = Missing
  Infinite = Infinite
  None = None
  Cells <- MCCells
  Factors = {1, 2}
  Big = 8
  CountLimit = 3
  MaxRows = 5
INVARIANTS
  ExtremesAreAttained
  MeanIsBetweenExtremes
CHECK_DEADLOCK FALSE
