CONSTANTS
  Users = {alice}
  Passwords = {right, wrong}
  None = None
  Logins = {l1, l2}
  MaxFailed = 2
  Lockout = 1
  MaxNow = 2
  MaxCount = 3
  Faulty = TRUE
SPECIFICATION Spec
SYMMETRY Symmetry
CHECK_DEADLOCK FALSE
PROPERTIES
  FreezeEndsByTimeOrReset
