CONSTANTS
  Path = {f, s}
  Spaced = {s}
  Foreign = x
  None = none
  Text = {"words"}
  Start = {1, 4}
  Collapse = 1
  PerFile = 2
  PerPatch = 3
  MaxFiles = 1
  MaxRows = 1
SPECIFICATION Spec
INVARIANTS PathsFaithful
