CONSTANTS
  n1 = n1
  n2 = n2
  w1 = w1
  w2 = w2
  u1 = u1
  u2 = "preamble"
  NoUnit = NoUnit
  Number <- MCNumber
  Word <- MCWord
  FileCreated <- MCFileCreated
  UnknownName <- MCUnknownName
  Lines <- AllLines
  MaxRows = 2
  MaxIssues = 2
  MaxLines = 8
SPECIFICATION MCSpec
INVARIANTS
  RecordsAccountedFor
  StrictIsTransactional
  LimitsAreExact
  RowsMatchSource
  IssuesMatchSource
  RectangularWhenSchemaFrozen
  UnitsSettle
  HeaderIsPreserved
  TableAgreesWithStream
CHECK_DEADLOCK FALSE
