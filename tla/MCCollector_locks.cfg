CONSTANTS
  Readers = {r1, r2, r3}
  Refresher = refresher
  MaxRound = 3
SPECIFICATION FairSpec
INVARIANTS
  TypeOK
  AnswersFresh
PROPERTIES
  RefreshCompletes
  RequestsEnd
