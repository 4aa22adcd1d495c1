CONSTANTS
  Repo = {a, b}
  Limit = 2
  Tab = {t1}
  MaxLogin = 1
  Anonymous = TRUE
SPECIFICATION Spec
SYMMETRY Symmetry
PROPERTIES ClearedTogether
