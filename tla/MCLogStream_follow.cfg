CONSTANTS
  MaxLines = 3
SPECIFICATION FairSpec
CHECK_DEADLOCK FALSE
INVARIANTS
  TypeOK
  WholeLines
PROPERTIES
  LinesArrive
  ChildReaped
