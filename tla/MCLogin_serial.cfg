CONSTANTS
  Users = {alice}
  Passwords = {right, wrong}
  None = None
  Logins = {l1}
  MaxFailed = 2
  Lockout = 2
  MaxNow = 5
  MaxCount = 4
  Faulty = TRUE
SPECIFICATION Spec
SYMMETRY Symmetry
CHECK_DEADLOCK FALSE
INVARIANTS
  MaxFailuresFreeze
PROPERTIES
  FreezeEndsByTimeOrReset
