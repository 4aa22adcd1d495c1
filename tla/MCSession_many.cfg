CONSTANTS
  Replica = {r1, r2}
  Tab = {t1, t2}
  None = None
  Window = 2
  TokenLife = 2
  Ahead = 1
  Hold = 1
  Patience = 1
  MaxLogin = 1
  MaxTime = 2
  Faults = TRUE
SPECIFICATION FairSpec
INVARIANTS WindowHolds
PROPERTIES ServedInsideWindow DeadCookieGone Answered
