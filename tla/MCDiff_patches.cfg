CONSTANTS
  Path = {f, s}
  Spaced = {s}
  Foreign = x
  None = none
  Text = {"words", "empty", "dashes"}
  Start = {4}
  Collapse = 1
  PerFile = 2
  PerPatch = 2
  MaxFiles = 2
  MaxRows = 4
SPECIFICATION Spec
INVARIANTS TypeOK PlainFaithful CountsAreRows BudgetHolds ExpandOpens
