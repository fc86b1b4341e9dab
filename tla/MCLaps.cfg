CONSTANTS
  N = 2
  K = 2
  MaxStep = 1
  MaxPairs = 3
  NoTime = NoTime
  Sides <- MCSides
  Direction <- MCDirection
SPECIFICATION LapSpec
INVARIANTS LapsChain SectorsPartitionLap LapsMatchCrossings OneWayGateNeedsReturn
CHECK_DEADLOCK FALSE
