CONSTANTS
  Replica = {r1}
  Tab = {t1, t2, t3}
  None = None
  Window = 8
  TokenLife = 4
  Ahead = 1
  Hold = 2
  Patience = 1
  MaxLogin = 1
  MaxTime = 7
  Faults = FALSE
SPECIFICATION Spec
SYMMETRY Symmetry
INVARIANTS TypeOK
PROPERTIES LiveSessionKept
