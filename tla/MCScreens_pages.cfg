CONSTANTS
  Asked <- MCAsked
SPECIFICATION Spec
INVARIANTS TypeOK ClearsOnlyRefused NoticeOnlyRefused KeysRefusalEnds OneRefusal DeletesOnlyOwned
