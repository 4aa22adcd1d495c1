CONSTANTS
  Repo = {a, b}
  Limit = 2
  Tab = {t1, t2}
  MaxLogin = 1
  Anonymous = FALSE
SPECIFICATION Spec
SYMMETRY Symmetry
INVARIANTS Forgotten
