CONSTANTS
  Initial = 2
  ChunkMax = 2
  MaxBytes = 4
  MaxFiles = 2
SPECIFICATION FairSpec
CHECK_DEADLOCK FALSE
INVARIANTS
  TypeOK
  NoGap
  RepeatsOnce
PROPERTIES
  CatchesUp
  StopsWithClient
