SPECIFICATION Spec
CONSTANTS
  a = a
  b = b
  Key = {k1}
  Name = {n1}
  Tab = {a, b}
  Opens <- MCOpens
  MaxToken = 2
  MaxId = 2
CHECK_DEADLOCK TRUE
INVARIANT CouldNotTrue
