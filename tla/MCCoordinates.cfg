SPECIFICATION FormatSpec
CONSTANTS
  Missing = Missing
  None = None
  Schemas <- MCSchemas
  Positions <- MCPositions
  Noise <- MCNoise
  MaxRows = 3
INVARIANTS
  PackedRecordingIsDecoded
  ContinuousRecordingIsDecoded
CHECK_DEADLOCK FALSE
