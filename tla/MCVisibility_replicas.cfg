CONSTANTS
  Replica = {r1, r2}
  ann = ann
  ben = ben
  cyd = cyd
  p = p
  t1 = t1
  t2 = t2
  Reader = {ann, ben}
  Nameless = {}
  FirstVis <- MCFirstVis
  FirstRole <- MCFirstRole
  Repo = {p}
  Tab = {t1}
  Whose <- MCShared
  TTL = 2
  Patience = 1
  MaxTime = 6
  MaxChange = 2
SPECIFICATION Spec
PROPERTIES SeesOwnFlip
