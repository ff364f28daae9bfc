CONSTANTS
  Tokens = {t1}
  Requests = {r1, r2, r3}
  None = None
  TTL = 4
  MaxDelay = 1
  MaxNow = 6
SPECIFICATION FairSpec
CHECK_DEADLOCK FALSE
INVARIANTS
  TypeOK
  NeverResurrected
  DiesWhenIdle
  LivesWhileUsed
PROPERTIES
  ExpiredStaysDead
  ImplementsLease
