CONSTANTS
  Path = {f, s}
  Spaced = {}
  Foreign = x
  None = none
  Text = {"words", "dashes"}
  Start = {1, 4}
  Collapse = 1
  PerFile = 2
  PerPatch = 3
  MaxFiles = 1
  MaxRows = 3
SPECIFICATION Spec
INVARIANTS RowsFaithful
