CONSTANTS
  Replica = {r1}
  ann = ann
  ben = ben
  cyd = cyd
  p = p
  t1 = t1
  t2 = t2
  Reader = {ann, ben, cyd}
  Nameless = {ben}
  FirstVis <- MCFirstVis
  FirstRole <- MCFirstRole
  Repo = {p}
  Tab = {t1, t2}
  Whose <- MCApart
  TTL = 2
  Patience = 1
  MaxTime = 6
  MaxChange = 1
SPECIFICATION Spec
INVARIANTS TypeOK
PROPERTIES OwnAnswer BadgeBounded SeesOwnFlip
