CONSTANTS
  Repo = {a, b}
  Limit = 2
  Tab = {t1}
  MaxLogin = 2
  Anonymous = FALSE
SPECIFICATION Spec
SYMMETRY Symmetry
INVARIANTS OfThisSession
