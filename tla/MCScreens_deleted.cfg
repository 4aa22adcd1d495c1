CONSTANTS
  Asked <- MCAsked
SPECIFICATION Spec
INVARIANTS NothingDeleted
