CONSTANTS
  Logs = {pm2, journal}
  Filters = {all, failed}
  NoRows = NoRows
  MaxOpens = 3
  MaxLoads = 2
SPECIFICATION Spec
CHECK_DEADLOCK FALSE
INVARIANTS
  TypeOK
  OutputOfTitle
  OneStream
  TableMatchesFilter
