SPECIFICATION Spec
CONSTANTS
  Markup = {"<"}
  Plain = {"a"}
  Creations <- MCCreations
  MaxWidth = 3
  MaxRows = 4
  GroupSize = 2
  None = None
INVARIANTS
  TypeOK
  OutputIsWholeOrFails
  TableIsExported
  TrackIsExported
CHECK_DEADLOCK FALSE
