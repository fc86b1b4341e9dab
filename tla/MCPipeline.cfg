CONSTANTS
  NoUnit = NoUnit
  Number <- MCNumber
  Word <- MCWord
  FileCreated <- MCFileCreated
  UnknownName <- MCUnknownName
  Space <- MCSpace
  NotUtf8 <- MCNotUtf8
  Other <- MCOther
  Limits <- MCLimits
  Inputs <- MCInputs
  MaxRows = 1
  MaxIssues = 1
  MaxLines = 100
  MaxBody = 4
SPECIFICATION FairPipeline
INVARIANTS
  BufferIsBounded
  ReportsMatchFile
  OnlyWholeLinesAreParsed
  StopsBehindItsLastLine
  AnswersReadWholeFile
PROPERTIES
  ReadsPhysicalLines
  EveryStepProgresses
  ParseReturns
CHECK_DEADLOCK FALSE
