SPECIFICATION Spec
CONSTANTS
  main = main
  fe = fe
  fe1a = fe1a
  Branch = {main, fe}
  Default = main
  Word = {fe1a}
  Hex <- MCHex
  Prefix <- MCPrefix
  File = {1, 2}
  Readme = 1
  PageSize = 1
  MaxPush = 2
  MaxMove = 3
  MaxLag = 1
INVARIANTS TypeOK FileIsOneState CitationHolds OverviewInOrder ListedOnce CommitIsOneState ListingSaysStale
