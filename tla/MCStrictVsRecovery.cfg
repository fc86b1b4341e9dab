CONSTANTS
  n1 = n1
  w1 = w1
  u1 = u1
  NoUnit = NoUnit
  Number <- MCNumber
  Word <- MCWord
  FileCreated <- MCFileCreated
  UnknownName <- MCUnknownName
  Lines <- MCLines
  MaxRows = 2
  MaxIssues = 1
  MaxLines = 7
SPECIFICATION Spec
INVARIANTS CleanInputsParseAlike FirstIssueIsTheStrictError
CHECK_DEADLOCK FALSE
