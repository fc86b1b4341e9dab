CONSTANTS
  n1 = n1
  n2 = n2
  w1 = w1
  w2 = w2
  u1 = u1
  u2 = u2
  NoUnit = NoUnit
  Number <- MCNumber
  Word <- MCWord
  FileCreated <- MCFileCreated
  UnknownName <- MCUnknownName
  Lines <- HeaderLines
  MaxRows = 1
  MaxIssues = 1
  MaxLines = 6
SPECIFICATION Spec
INVARIANTS UnknownSectionsKeptApart
CHECK_DEADLOCK FALSE
