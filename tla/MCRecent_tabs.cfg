CONSTANTS
  Repo = {a, b, c}
  Limit = 2
  Tab = {t1, t2}
  MaxLogin = 1
  Anonymous = FALSE
SPECIFICATION Spec
SYMMETRY Symmetry
INVARIANTS TypeOK
PROPERTIES OpenedIsFirst ClearedTogether StaysForgotten KeepsPromise
