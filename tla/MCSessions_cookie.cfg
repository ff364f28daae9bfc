CONSTANTS
  Tokens = {t1}
  Requests = {r1}
  None = None
  TTL = 4
  MaxDelay = 1
  MaxNow = 6
SPECIFICATION Spec
CHECK_DEADLOCK FALSE
INVARIANTS
  CookieExtendsOnUse
