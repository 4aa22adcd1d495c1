CONSTANTS
  Replica = {r1}
  Tab = {t1, t2}
  None = None
  Window = 6
  TokenLife = 4
  Ahead = 1
  Hold = 2
  Patience = 1
  MaxLogin = 1
  MaxTime = 6
  Faults = FALSE
SPECIFICATION HSpec
SYMMETRY Symmetry
INVARIANTS SignOutFinal
